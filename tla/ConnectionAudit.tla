--------------------------- MODULE ConnectionAudit ---------------------------
(***************************************************************************)
(* The connection audit of the mkrab broker: ClientConnectionHook          *)
(* (mkrab/internal/broker/connection.go) and ConnectionRepository          *)
(* (mkrab/internal/data/repo/audit.go), which keep one row of              *)
(* mqtt_client_connection per client id up to date while clients come,     *)
(* are taken over, go, and while the broker stops, crashes and restarts.   *)
(*                                                                         *)
(* The MQTT library runs one goroutine per network connection; it calls    *)
(* OnSessionEstablished, reads packets until the connection is stopped,    *)
(* and then calls OnDisconnect.  A connection that arrives with the client *)
(* id of a living one stops the older connection, but does not wait for    *)
(* the older goroutine to run its OnDisconnect.  What a connection         *)
(* publishes, its last will included, is delivered on its goroutine, to    *)
(* callbacks of the web interface too.  Every SQL statement is a step of   *)
(* its own: the repository opens no transaction around them.               *)
(***************************************************************************)
EXTENDS Naturals, Sequences, FiniteSets

CONSTANTS
  Conn,       \* the *mqtt.Client objects, one per accepted network connection
  ClientId,   \* client identifiers
  ClientOf,   \* ClientOf[c] is the client id in c's CONNECT packet
  NoConn,     \* no connection: a row nobody has disconnected from yet
  MaxFaults   \* bound: how many SQL statements may fail in a behaviour

ASSUME ClientOfAssumption == ClientOf \in [Conn -> ClientId]
ASSUME NoConnAssumption == NoConn \notin Conn
ASSUME MaxFaultsAssumption == MaxFaults \in Nat

VARIABLES
  server,         \* the broker process
  phase,          \* phase[c]: where c's goroutine is
  stopped,        \* connections on which cl.Stop has been called
  connectionIDs,  \* the hook's sync.Map, 0 where c has no entry
  target,         \* target[c]: the row id in a local variable of c's goroutine
  rows,           \* table mqtt_client_connection, rows[id]
  faults,         \* SQL statements that have failed so far
  orphaned,       \* history: rows whose final update was lost and not made up for
  lost            \* history: connections whose own final update was lost

vars == <<server, phase, stopped, connectionIDs, target, rows, faults, orphaned, lost>>

\* Not yet accepted and gone; in between, a goroutine runs.
Outside == {"idle", "done"}
\* The library knows the client and has not started to tear it down.
Serving == {"reading", "publishing"}
Attached == {"registered", "creating", "updating"} \cup Serving
Phase == Outside \cup Attached \cup {"handshake", "leaving"}

\* session is the connection whose address, listener, protocol version and
\* connect time the row shows; leftBy the one whose disconnect time, address,
\* reason and expiry it shows.
Row == [client : ClientId, status : {"connected", "disconnected"},
        session : Conn, leftBy : Conn \cup {NoConn}]

TypeOK ==
  /\ server \in {"up", "closing", "down"}
  /\ phase \in [Conn -> Phase]
  /\ stopped \in SUBSET Conn
  /\ connectionIDs \in [Conn -> Nat]
  /\ target \in [Conn -> Nat]
  /\ rows \in Seq(Row)
  /\ faults \in Nat
  /\ orphaned \in SUBSET Nat
  /\ lost \in SUBSET Conn

Init ==
  /\ server = "up"
  /\ phase = [c \in Conn |-> "idle"]
  /\ stopped = {}
  /\ connectionIDs = [c \in Conn |-> 0]
  /\ target = [c \in Conn |-> 0]
  /\ rows = <<>>
  /\ faults = 0
  /\ orphaned = {}
  /\ lost = {}

RowsOf(k) == {id \in DOMAIN rows : rows[id].client = k}

\* The columns CreateOrUpdate and MarkDisconnected set; the others stay.
Opened(row, c) == [row EXCEPT !.status = "connected", !.session = c]
Closed(row, c) == [row EXCEPT !.status = "disconnected", !.leftBy = c]

\* c's goroutine still has to write "disconnected" into row id.
Holds(c, id) ==
  \/ phase[c] \in Serving /\ connectionIDs[c] = id
  \/ phase[c] = "leaving" /\ target[c] = id

Goto(c, p) == phase' = [phase EXCEPT ![c] = p]

\* A statement fails: busy timeout, disk full, I/O error.
Fault == faults < MaxFaults /\ faults' = faults + 1

-----------------------------------------------------------------------------
(* Plausible bugs, one per property: variants of the actions below that no  *)
(* specification uses.                                                     *)

\* The Where clause is missing: First over the whole table.
FindRowOfAnybody(c) ==
  /\ phase[c] = "registered"
  /\ target' = [target EXCEPT ![c] = IF rows = <<>> THEN 0 ELSE 1]
  /\ Goto(c, IF rows = <<>> THEN "creating" ELSE "updating")
  /\ UNCHANGED <<server, stopped, connectionIDs, rows, faults, orphaned, lost>>

\* Last instead of First.
FindLastRow(c) ==
  /\ phase[c] = "registered"
  /\ \/ RowsOf(ClientOf[c]) = {} /\ Goto(c, "creating") /\ UNCHANGED target
     \/ \E id \in RowsOf(ClientOf[c]) :
          /\ \A other \in RowsOf(ClientOf[c]) : id >= other
          /\ target' = [target EXCEPT ![c] = id]
          /\ Goto(c, "updating")
  /\ UNCHANGED <<server, stopped, connectionIDs, rows, faults, orphaned, lost>>

\* Every connection creates a row.
FindNoRow(c) ==
  /\ phase[c] = "registered"
  /\ Goto(c, "creating")
  /\ UNCHANGED <<server, stopped, connectionIDs, target, rows, faults, orphaned, lost>>

\* "connection.ID = existing.ID" is missing: the entry holds no row id.
UpdateRowWithoutId(c) ==
  /\ phase[c] = "updating"
  /\ rows' = [rows EXCEPT ![target[c]] = Opened(@, c)]
  /\ target' = [target EXCEPT ![c] = 0]
  /\ Goto(c, "reading")
  /\ UNCHANGED <<server, stopped, connectionIDs, faults, orphaned, lost>>

\* The "status" column is missing from the Updates.
UpdateRowWithoutStatus(c) ==
  /\ phase[c] = "updating"
  /\ rows' = [rows EXCEPT ![target[c]].session = c]
  /\ connectionIDs' = [connectionIDs EXCEPT ![c] = target[c]]
  /\ target' = [target EXCEPT ![c] = 0]
  /\ Goto(c, "reading")
  /\ UNCHANGED <<server, stopped, faults, orphaned, lost>>

\* The whole record is saved, the empty disconnect columns included.
UpdateWholeRow(c) ==
  /\ phase[c] = "updating"
  /\ rows' = [rows EXCEPT ![target[c]] =
             [@ EXCEPT !.status = "connected", !.session = c, !.leftBy = NoConn]]
  /\ connectionIDs' = [connectionIDs EXCEPT ![c] = target[c]]
  /\ target' = [target EXCEPT ![c] = 0]
  /\ Goto(c, "reading")
  /\ UNCHANGED <<server, stopped, faults, orphaned, lost>>

\* The entry is stored without a look at the error.
EstablishFailsButStores(c) ==
  /\ phase[c] \in {"registered", "creating", "updating"}
  /\ Fault
  /\ connectionIDs' = [connectionIDs EXCEPT ![c] = target[c]]
  /\ target' = [target EXCEPT ![c] = 0]
  /\ Goto(c, "reading")
  /\ UNCHANGED <<server, stopped, rows, orphaned, lost>>

\* The entry is dropped and nothing is written.
LeaveInSilence(c) ==
  /\ phase[c] = "reading"
  /\ c \in stopped
  /\ Goto(c, "done")
  /\ connectionIDs' = [connectionIDs EXCEPT ![c] = 0]
  /\ UNCHANGED <<server, stopped, target, rows, faults, orphaned, lost>>

\* The row is marked with a status of its own when the session expires.
MarkExpired(c) ==
  /\ phase[c] = "leaving"
  /\ rows' = [rows EXCEPT ![target[c]] =
             [@ EXCEPT !.status = "expired", !.leftBy = c]]
  /\ orphaned' = orphaned \ {target[c]}
  /\ target' = [target EXCEPT ![c] = 0]
  /\ Goto(c, "done")
  /\ UNCHANGED <<server, stopped, connectionIDs, faults, lost>>

-----------------------------------------------------------------------------
(* The MQTT library around the hook.                                       *)

Accept(c) ==
  /\ server = "up"
  /\ phase[c] = "idle"
  /\ Goto(c, "handshake")
  /\ UNCHANGED <<server, stopped, connectionIDs, target, rows, faults, orphaned, lost>>

\* Malformed CONNECT, authentication refused, or the peer has gone.
Refuse(c) ==
  /\ phase[c] = "handshake"
  /\ Goto(c, "done")
  /\ UNCHANGED <<server, stopped, connectionIDs, target, rows, faults, orphaned, lost>>

\* The session is inherited and c replaces whoever used its client id.
Register(c) ==
  /\ phase[c] = "handshake"
  /\ Goto(c, "registered")
  /\ stopped' = stopped \cup
       {d \in Conn : phase[d] \in Attached /\ ClientOf[d] = ClientOf[c]}
  /\ UNCHANGED <<server, connectionIDs, target, rows, faults, orphaned, lost>>

\* CONNACK cannot be written any more: the goroutine ends without the hooks.
AckFails(c) ==
  /\ phase[c] = "registered"
  /\ c \in stopped
  /\ Goto(c, "done")
  /\ UNCHANGED <<server, stopped, connectionIDs, target, rows, faults, orphaned, lost>>

\* DISCONNECT packet, network loss, protocol error or keepalive timeout.
Drop(c) ==
  /\ phase[c] \in Attached
  /\ c \notin stopped
  /\ stopped' = stopped \cup {c}
  /\ UNCHANGED <<server, phase, connectionIDs, target, rows, faults, orphaned, lost>>

\* A packet, or the last will of a connection that has been stopped, goes to the
\* subscriptions, inline callbacks among them, and the goroutine comes back when
\* all of them have returned.
Publish(c) ==
  /\ phase[c] = "reading"
  /\ Goto(c, "publishing")
  /\ UNCHANGED <<server, stopped, connectionIDs, target, rows, faults, orphaned, lost>>

Published(c) ==
  /\ phase[c] = "publishing"
  /\ Goto(c, "reading")
  /\ UNCHANGED <<server, stopped, connectionIDs, target, rows, faults, orphaned, lost>>

-----------------------------------------------------------------------------
(* OnSessionEstablished: CreateOrUpdate, then connectionIDs.Store.  The    *)
(* Store joins the statement before it: the key is c itself, which no      *)
(* other goroutine looks up.                                               *)

\* CreateOrUpdate's First: lowest primary key among the client's rows.
FindRow(c) ==
  /\ phase[c] = "registered"
  /\ \/ /\ RowsOf(ClientOf[c]) = {}
        /\ Goto(c, "creating")
        /\ UNCHANGED target
     \/ \E id \in RowsOf(ClientOf[c]) :
          /\ \A other \in RowsOf(ClientOf[c]) : id <= other
          /\ target' = [target EXCEPT ![c] = id]
          /\ Goto(c, "updating")
  /\ UNCHANGED <<server, stopped, connectionIDs, rows, faults, orphaned, lost>>

\* ErrRecordNotFound: Create(connection).
InsertRow(c) ==
  /\ phase[c] = "creating"
  /\ rows' = Append(rows, [client |-> ClientOf[c], status |-> "connected",
                           session |-> c, leftBy |-> NoConn])
  /\ connectionIDs' = [connectionIDs EXCEPT ![c] = Len(rows) + 1]
  /\ Goto(c, "reading")
  /\ UNCHANGED <<server, stopped, target, faults, orphaned, lost>>

\* Updates of the connection columns; the disconnect columns stay.
UpdateRow(c) ==
  /\ phase[c] = "updating"
  /\ rows' = [rows EXCEPT ![target[c]] = Opened(@, c)]
  /\ connectionIDs' = [connectionIDs EXCEPT ![c] = target[c]]
  /\ target' = [target EXCEPT ![c] = 0]
  /\ Goto(c, "reading")
  /\ UNCHANGED <<server, stopped, faults, orphaned, lost>>

\* Any of the statements fails: logged, no Store, the session goes on.
EstablishFails(c) ==
  /\ phase[c] \in {"registered", "creating", "updating"}
  /\ Fault
  /\ target' = [target EXCEPT ![c] = 0]
  /\ Goto(c, "reading")
  /\ UNCHANGED <<server, stopped, connectionIDs, rows, orphaned, lost>>

-----------------------------------------------------------------------------
(* OnDisconnect: connectionIDs.LoadAndDelete, then MarkDisconnected.       *)

Leave(c) ==
  /\ phase[c] = "reading"
  /\ c \in stopped
  /\ \/ connectionIDs[c] = 0 /\ Goto(c, "done")
     \/ connectionIDs[c] # 0 /\ Goto(c, "leaving")
  /\ target' = [target EXCEPT ![c] = connectionIDs[c]]
  /\ connectionIDs' = [connectionIDs EXCEPT ![c] = 0]
  /\ UNCHANGED <<server, stopped, rows, faults, orphaned, lost>>

MarkDisconnected(c) ==
  /\ phase[c] = "leaving"
  /\ rows' = [rows EXCEPT ![target[c]] = Closed(@, c)]
  /\ orphaned' = orphaned \ {target[c]}
  /\ target' = [target EXCEPT ![c] = 0]
  /\ Goto(c, "done")
  /\ UNCHANGED <<server, stopped, connectionIDs, faults, lost>>

\* The update fails: logged and never retried.
MarkFails(c) ==
  /\ phase[c] = "leaving"
  /\ Fault
  /\ orphaned' = orphaned \cup {target[c]}
  /\ lost' = lost \cup {c}
  /\ target' = [target EXCEPT ![c] = 0]
  /\ Goto(c, "done")
  /\ UNCHANGED <<server, stopped, connectionIDs, rows>>

-----------------------------------------------------------------------------
(* The process.                                                            *)

\* Application.Close: the listeners close and stop the clients they know.
Shutdown ==
  /\ server = "up"
  /\ server' = "closing"
  /\ stopped' = stopped \cup {c \in Conn : phase[c] \in Attached}
  /\ UNCHANGED <<phase, connectionIDs, target, rows, faults, orphaned, lost>>

\* Every goroutine has ended: Close returns and cleanup closes the database.
ShutdownDone ==
  /\ server = "closing"
  /\ \A c \in Conn : phase[c] \in Outside
  /\ server' = "down"
  /\ UNCHANGED <<phase, stopped, connectionIDs, target, rows, faults, orphaned, lost>>

\* Every goroutine and the sync.Map are gone, the table stays.
Crash ==
  /\ server # "down"
  /\ server' = "down"
  /\ phase' = [c \in Conn |-> IF phase[c] = "idle" THEN "idle" ELSE "done"]
  /\ connectionIDs' = [c \in Conn |-> 0]
  /\ target' = [c \in Conn |-> 0]
  /\ orphaned' = orphaned \cup {id \in DOMAIN rows : \E c \in Conn : Holds(c, id)}
  /\ lost' = lost \cup {c \in Conn : \E id \in DOMAIN rows : Holds(c, id)}
  /\ UNCHANGED <<stopped, rows, faults>>

\* Application.Run looks at the users, never at the connection table.
Start ==
  /\ server = "down"
  /\ server' = "up"
  /\ UNCHANGED <<phase, stopped, connectionIDs, target, rows, faults, orphaned, lost>>

-----------------------------------------------------------------------------
Statements(c) ==
  \/ FindRow(c) \/ InsertRow(c) \/ UpdateRow(c) \/ EstablishFails(c)
  \/ MarkDisconnected(c) \/ MarkFails(c)

Hook(c) == Statements(c) \/ Leave(c)

Library(c) ==
  \/ Accept(c) \/ Refuse(c) \/ Register(c) \/ AckFails(c) \/ Drop(c)
  \/ Publish(c) \/ Published(c)

Process == Shutdown \/ ShutdownDone \/ Crash \/ Start

Next == Process \/ \E c \in Conn : Library(c) \/ Hook(c)

Spec == Init /\ [][Next]_vars

\* The SQL calls return or fail within the busy timeout, and a stopped connection
\* reads no more packets: what it still publishes ends with its last will.  That a
\* callback returns is not assumed here.
FairSpec == Spec /\ \A c \in Conn : WF_vars(Statements(c)) /\ SF_vars(Leave(c))

(***************************************************************************)
(* The environment in which a client reconnects only after the goroutine   *)
(* of its previous connection has ended.                                   *)
(***************************************************************************)
Running(c) == phase[c] \notin Outside

OneAtATime ==
  \A c, d \in Conn :
    c # d /\ ClientOf[c] = ClientOf[d] => ~(Running(c) /\ Running(d))

SequentialSpec == Init /\ [][Next /\ OneAtATime']_vars

-----------------------------------------------------------------------------
(* What the audit promises, whatever the interleaving, faults and crashes.  *)

\* A connection never writes into another client's row, whenever it read the
\* row id and whatever was inserted since (audit.go: existing.ID, record.ID).
OwnRow ==
  \A c \in Conn : \A id \in {connectionIDs[c], target[c]} \ {0} :
    id \in DOMAIN rows /\ rows[id].client = ClientOf[c]

\* A row says "connected" only while some goroutine is still bound to write
\* "disconnected" into it, or because that write was lost in a fault or a
\* crash: the hook loses no disconnect by itself, also when several
\* connections of the client overlap on one row (connection.go: Store,
\* LoadAndDelete).
GhostOnlyAfterLostUpdate ==
  \A id \in DOMAIN rows :
    rows[id].status = "connected" =>
      id \in orphaned \/ \E c \in Conn : Holds(c, id)

\* A row comes alive again only if it is the oldest of its client.
OldestReopened ==
  \A id \in DOMAIN rows :
    rows[id].status = "disconnected" /\ rows'[id].status = "connected" =>
      \A other \in RowsOf(rows[id].client) : id <= other

\* Two overlapping first connections may insert two rows of one client; the
\* later row never comes alive again after its session ended, because every
\* reconnect finds the row with the lowest id (audit.go: First).
DuplicateRowsRetire == [][OldestReopened]_vars

\* Disconnection details change only to those of a stopped connection of the
\* row's client, and only as that connection ends.
DetailsOfTheEnded ==
  \A id \in DOMAIN rows :
    rows'[id].leftBy # rows[id].leftBy =>
      \E c \in stopped :
        /\ rows'[id].leftBy = c
        /\ ClientOf[c] = rows[id].client
        /\ phase'[c] = "done"

\* The row keeps the most recent disconnection details, also while it is
\* refreshed for a new session, by whichever connection (audit.go:33,
\* "preserving the most recent disconnection details").
DetailsPreserved == [][DetailsOfTheEnded]_vars

\* A stopped connection with an entry in connectionIDs gets its disconnect
\* recorded in the row of that entry, unless a fault or a crash loses this very
\* update, or a callback it publishes to never returns (connection.go:46-59;
\* admin/server.go:95-98).  A connection inserts one row at most.
DisconnectRecorded ==
  \A c \in Conn :
    []<>(phase[c] # "publishing") =>
      \A id \in 1 .. Cardinality(Conn) :
        phase[c] \in Serving /\ c \in stopped /\ connectionIDs[c] = id
          ~> (id \in DOMAIN rows /\ rows[id].leftBy = c) \/ c \in lost

\* The audit implements the ledger of RowLedger: every statement, fault and
\* crash is one of its steps or leaves it alone.
Statuses == [id \in DOMAIN rows |-> rows[id].status]
Debts == {debt \in Conn \X DOMAIN rows : Holds(debt[1], debt[2])}

Ledger == INSTANCE RowLedger WITH status <- Statuses, owed <- Debts, lost <- orphaned

ImplementsLedger == Ledger!Spec

-----------------------------------------------------------------------------
(* What holds only while the connections of a client do not overlap.       *)

\* A session that is being served, after every older goroutine of its client
\* has ended, is the one its row shows, as connected.  persistence_test.go:51
\* expects it after a reconnect.
LiveSessionShown ==
  \A c \in Conn :
    /\ phase[c] \in Serving /\ c \notin stopped /\ connectionIDs[c] # 0
    /\ \A d \in Conn \ {c} : ClientOf[d] = ClientOf[c] => ~Running(d)
    => /\ rows[connectionIDs[c]].status = "connected"
       /\ rows[connectionIDs[c]].session = c

\* One row per client.  persistence_test.go:55 expects it.
OneRowPerClient ==
  \A i, j \in DOMAIN rows : rows[i].client = rows[j].client => i = j

\* The two halves of a "disconnected" row, where the session came from and
\* how it ended, are about one and the same connection.
RowTellsOneSession ==
  \A id \in DOMAIN rows :
    rows[id].status = "disconnected" => rows[id].leftBy = rows[id].session

\* While a client reconnects only after its previous goroutine has ended, the
\* table is true: the live session is shown, in the only row of its client, and
\* no row mixes the ends of two sessions (audit.go:35-62, connection.go:33-59).
TableTrue == LiveSessionShown /\ OneRowPerClient /\ RowTellsOneSession

=============================================================================
