# Verification of mbot2

This directory holds TLA+ models of **mkrab**, an MQTT broker with accounts, access
rules and an audit in SQLite, and of **mbot**, a device client that reports
temperatures and executes commands. Every definition is translated from the Go
source; `PROJECT.json` names, for each, the lines it stands for. TLC checks the
models on small instances, TLAPS proves the main invariants for every instance.

Contents: [inventory](#inventory), [plan](#plan), [modules](#modules),
[runs](#runs), [bounds](#bounds), [fairness](#fairness), [proofs](#proofs),
[findings](#findings), [promises that do not
hold](#promises-that-do-not-hold), [not modelled](#not-modelled), [limits](#limits).

To check: `tlc -config X.cfg M` for the pairs listed under [runs](#runs),
`tlapm M.tla` for the modules whose names end in `Proofs`.

## Inventory

mkrab is one process. The MQTT library (mochi-mqtt) runs a goroutine for each
connection and calls three hooks on it; the hooks share one SQLite database,
through repositories that open no transaction; an operator edits the tables of the
running broker, as the README invites. The only transaction is the one that creates
the first account. The web interface reads the same database and publishes and
subscribes inside the broker. mbot is a second process, a client of the broker.

| component | state | operations | hard behaviours | correct means |
|---|---|---|---|---|
| connection audit `broker/connection.go`, `repo/audit.go` | `mqtt_client_connection`, the `sync.Map` of row ids | OnSessionEstablished, OnDisconnect | old and new connection of a client at once; find-then-write without a transaction; failing statements; shutdown, crash | no row forgotten at connected, none written for another client, last disconnect details kept, one row per client that shows the live session |
| access control `broker/auth.go`, `repo/auth.go` | five tables of accounts and rules | login, access check | four SELECTs with edits between them; failing SELECTs | deny wins, nothing granted without grounds, decided as of one moment unless there are two edits |
| topic filters `broker/topic.go` | none | `topicFiltersOverlap`, `topicCoveredBy` | `#` stands for its parent too; filters of different length; unvalidated filters | sound and complete with respect to the topics filters select |
| message store `broker/message.go`, `repo/audit.go` | `mqtt_topic`, `received_message` | OnPublished, Save | two INSERTs without a transaction; several publishers; failures and crashes between them | topic before message, only what is configured, in order, none lost without a fault |
| initial root account `data/bootstrap.go`, `app/app.go` | users, role, rules; the password in memory | EnsureInitialRoot, the log line | count, then insert; rollback at any statement; crash between commit and log; soft-deleted rows | created whole, only in an empty table; only real passwords logged |
| command runner `mbot/main.go` | processes, buffers, goroutines | messageHandler, RunCommandWithTimeout | timer against end; a process that holds the output for ever; goroutines left behind; racing buffers | every command answered, whole unless killed; shells end |
| device connection `mbot/main.go` | link, subscription | connect, subscribe, publish | first connect fails; link lost during subscribe or publish; OnConnect of an old connection still waiting | reports and hears commands again after every loss |
| host information `mbot/util` | none | CollectInstanceInfo, GenerateServerID | dropped errors that panic later; a request without a time-out before the publishing loop; fields that are missing | addresses are those of the interfaces; the id names one machine |
| admin server `admin/server.go` | live subscriptions, one slice per list route | list, publish, ws | requests share a slice; a slow browser blocks publishers; ids and deferred unsubscribe | answers are answers to the request; a subscription belongs to its socket and ends with it |
| lifecycle `app/`, `cmd/` | the assembled application | Initialize, Run, Close | an error at any step, a signal at any moment, deferred closes, the web server's goroutine | clients meet a whole broker only; one signal ends it, browsers and latecomers permitting |
| configuration `config/config.go` | a loaded configuration | Load | defaults of missing and of false switches, order of the checks, wildcards | what is loaded is what the file asks for and can be served |
| server and listeners `broker/server.go`, `listener.go` | hooks, ports | NewListeners, NewServer, Run, Close | certificates, ports that are taken, half-built servers | all hooks are there before anybody is served |
| generated queries `data/query`, repositories `data/repo` | one shared Query, a copy per transaction | chains of calls, Transaction, FindByPage | all goroutines build statements on the same objects; the pools of associations; page and count are two statements | statements do not mix; a transaction is whole; a total was true |
| generator, web page | - | - | - | a development tool, presentation |

The parts interact through the hooks (library to broker), the tables (hooks, root
account, operator, admin lists), the filters (access control and message store
call the same two comparisons), inline publications and subscriptions (admin
server to broker), and MQTT messages (broker to device).

## Plan

The order was by what the program promises and what is hard about it.

1. `ConnectionAudit` with the abstract `RowLedger`; `TopicFilter` and `FilterPairs`;
   `AccessControl`; `MessageStore`; `Bootstrap`; `CommandRunner`; with their proofs.
2. `DeviceLink` over `HostInfo`; `Service`, which composes `Lifecycle` over
   `Configuration` with `AdminServer`; `DataAccess`, which composes `QueryHandles`,
   run by the calls of `Repositories`, with `AdminLists`; the proofs about `Service`.
3. The proofs that were left: every safety property that a passing run checks is now
   a theorem, `Bootstrap` is proved to implement the abstract `FirstAccount`, and an
   access check to be a decision of one moment under the condition it needs.
4. What would come next: the composition of `DeviceLink` with `CommandRunner`: one
   answer at most for each command received.

## Modules

**`RowLedger`** is what the audit promises without library, statements or map: a
connection that opens a row owes its closing, and only a lost obligation may leave a
row open.

**`ConnectionAudit`** has one process per network connection. `phase` is the position
of its goroutine; `Accept`, `Refuse`, `Register`, `AckFails`, `Drop` are the library's
steps, `FindRow`, `InsertRow`, `UpdateRow`, `EstablishFails` are OnSessionEstablished
statement by statement, `Leave`, `MarkDisconnected`, `MarkFails` OnDisconnect;
`Shutdown`, `ShutdownDone`, `Crash`, `Start` are the process. `connectionIDs` is the
`sync.Map`, `target` the row id in a local variable, `rows` the table by id. Of a row
the model keeps client, status, the session whose columns it shows and the
connection whose disconnect columns it shows. `Publish` and `Published` are a delivery to
live subscriptions, which happens on the goroutine of the publishing client and may last.
Two history variables: `orphaned`, the rows whose closing update was lost, and `lost`, the
connections whose own last update was.

**`TopicFilter`** gives both comparisons in closed form and as the loops of the code,
and `Matches`, the meaning of a filter. **`FilterPairs`** grows every pair of filters
and a topic. The rule of MQTT about topics that start with `$`, and shared
subscriptions, are the library's and not in `topic.go`.

**`AccessControl`** runs the preload as four SELECTs (`FindUser`, `FindLinks`,
`FindRoles`, `FindRules`) between which `Edit` may change any of the five tables;
`Decide` is the loops over what was loaded. A bcrypt hash is the password it was made
from. `seen` is a history variable: how many edits there were since the check began,
what the tables held meanwhile, and the sets of rules in force at its single moments.

**`MessageStore`** keeps, per connection, the stream of publications and the statement
its hook runs next; `InsertTopic` and `InsertMessage` are the two INSERTs,
`SaveFails` and `Crash` the ways to lose a publication. A message is the number of its
publication; its other columns are left out. Order is that of a connection, not of a
client across a takeover.

**`FirstAccount`** is what the first start promises: in one step, and only while no user
is visible, the tables get a root with the role and full access, and only the password of
an account made so is shown. Every other step of the broker leaves the tables alone: who
changes them is told by `edits`, which counts the operator's commits and nothing else.
Full access has one exception, which the code makes and the documents do not: a rule that
was soft-deleted stays so. **`AccountTables`** has the tables both modules speak of.
**`Bootstrap`** is the
transaction of EnsureInitialRoot under SQLite's WAL mode: a snapshot at the first SELECT (`Count`), the write lock at the first INSERT, which
fails if somebody has committed since (`Stale`), rollback at any failure, and
`LogPassword` after the commit. Rows are absent, live or soft-deleted; the latter hold
their unique keys, which is why a deleted role or root makes the start fail
(`Conflict`) and why `Granted` leaves a deleted rule deleted.

**`CommandRunner`** has the shell of each command, one process it may start in the
background (holding the output or redirecting it), the pipes and buffers, the
goroutine in `cmd.Wait`, and the handler. The library calls the handler for one
message at a time (its default). There is no clock: the timer may win at any point of
the wait, except before a command that could not be started is found out, which takes
no 10 seconds. After a kill the buffers are read while they are written, a data race:
`Readable` allows any part of what is there.

**`HostInfo`** has the functions of `util.go` over a host, which is a record of the
facts it answers with (errors included). `Panics` and `Hangs` are the two ways a call
may not return: results of failed calls that are used all the same, and the request
for the public address. Texts are opaque: `Mentions` and `Skipped` say what the code
looks for in them; an id is the sequence of the fields that are hashed. `IsHost` says
which types the libraries declare for their answers.
**`DeviceLink`** is `main`: the position of the main goroutine, the link, and for each
connection its `OnConnect` goroutine (`hook`) and the connection its SUBSCRIBE went
out on (`via`), which may be a later one. `ConnectFirst`, `Collect`, `Panic`,
`PublishTelemetry`, `Wake` are main's; `Subscribe`, `Subscribed` the goroutine's; `LoseLink`,
`Reconnect`, `Reachability` the library's and the network's.

**`Configuration`** is `Load`: a file says "unset", "on" or "off" where the code has a
nil pointer, true and false. `Errors` keeps the order of the checks, and either of two
bare secure listeners may be named, as a Go map is ranged over in any order.
**`Lifecycle`** is the main goroutine: `Load` to `New` are `Initialize` (`wire_gen.go`)
with its error returns, `EnsureInitialRoot` to `Return` are `Application.Run`, `Close`,
`BrokerClosed`, `Cleanup` the deferred calls. `AdminRun` is the goroutine of the web
server, `Signal` the operating system's, deadly unless `NotifyContext` is in force.
`EnsureInitialRoot` is one step here, which is what `BootstrapProofs` shows it to be.
**`AdminServer`** has a handler for each web socket (`Upgrade`, `Subscribe`,
`Unsubscribe`), the broker's inline subscriptions by id, the mutex of each socket, and
publishers, which call the subscriptions they have looked up one after the other
(`Lock`, `Write`) on their own goroutine. **`Service`** composes the two: who comes
in when, whom the end waits for, and that everything ends with the process. A client is in
its handshake (`Connect`) before it is in; the listeners stop those they know when they
close, and a client whose CONNECT is processed after that (`late`) is told nothing, like
the connections of `ConnectionAudit` that register while the server is closing.

**`QueryHandles`** has the objects of the generated queries with the pool each writes
to, and callers that run a list of statements: `Begin` takes the shared objects or, in
a transaction, the copy `clone` makes; `Build` makes a statement by a chain of calls;
`Read`, `Execute`, `FindPage`, `CountPage` end it; `GiveUp` and `Fail` are SQLite's,
`Abort` and `Commit` the transaction's ends. The seven generated files are equal up to
names and columns; `newUser` to `newClientConnection` are the columns.
**`Repositories`** lists the calls as such lists; a call that decides on what it has
read is the set of its runs. **`AdminLists`** has the requests of one list route: the
slice they share is `cells` and `length`, and `Scan` appends in place as GORM does.
**`DataAccess`** composes both ways into the database.

The operators between "Plausible bugs" and the next rule in a module are mutations of
the definitions that follow; no specification uses them.

## Runs

| run | module, cfg | states | shows |
|---|---|---|---|
| `audit` | `MCConnectionAudit`, `ConnectionAudit` | 50,082 | three overlapping connections of one device, two faults or crashes, shutdown: `GhostOnlyAfterLostUpdate`, `DuplicateRowsRetire`, `DetailsPreserved`; the ledger is implemented; every connection whose goroutine is not held for ever in a delivery writes its own disconnect into its own row, or that very update fails (`DisconnectRecorded`) |
| `audit_sequential` | `MCConnectionAudit`, `ConnectionAuditSequential` | 38,438 | if a client comes back only after its old goroutine has ended, `TableTrue`: it has one row, which shows its live session and tells of one session; no row is written for another client (`OwnRow`) |
| `audit_takeover` | same, `ConnectionAuditTakeover` | violation | a takeover leaves a live session shown as disconnected |
| `filters` | `FilterPairs` | 211,680 | covering is sound, overlap complete, both exact on topics, the loops compute the closed forms, and neither is stricter than need be (`Tight`), but for a request of `#` under `+/#` |
| `access` | `MCAccessControl`, `AccessControl` | 523,648 | two edits anywhere in a check: a deny in force throughout wins, a grant has its grounds; with at most one edit a check decides as if it had read all tables at one moment (`OneEditExact`) |
| `messages` | `MCMessageStore`, `MessageStore` | 50,579 | `StoreFaithful`: topic before message, only kept topics, order, every publication accounted for; none is left half-way |
| `bootstrap` | `MCBootstrap`, `Bootstrap` | 28,465 | only real passwords are logged (`ShownWasSet`); the start implements the one step of `FirstAccount`: root is created whole, in an empty table only, and nothing else of a start changes tables |
| `commands` | `CommandRunner` | 32,671 | answers whole unless killed, `NoLeftovers` (shells end, goroutines stay only after kills), every command is answered |
| `device` | `MCDeviceLink`, `DeviceLink` | 84,128 | a device is deaf only if refused (`DeafOnlyIfRefused`), the addresses it reports are those of its interfaces (`AddressesAgree`), its id names one machine if it knows its uuid (`IdTellsMachine`), subscription and telemetry resume after every loss (`ServiceResumes`) |
| `device_first` | same, `DeviceFirst` | violation | a broker that comes up after the device's first attempt is never connected to |
| `service` | `MCService`, `Service` | 192,570 | clients are served by a whole broker only, those included that come in while it closes (`ServedByWhole`); a live subscription belongs to its socket (`SubscriptionsOwned`); neither shutdown nor publication gets stuck unless a browser stalls for ever or a client comes in late and stays (`NothingStuck`) |
| `data` | `MCDataAccess`, `DataAccess` | 1,877,926 | statements and transactions of concurrent calls do not mix (`CallsDoNotMix`), the total of `FindByPage` was true at some moment of the call (`PageTotalSeen`), a list request that is alone is answered exactly (`LoneAnswerExact`) |

Several properties are conjunctions of named parts (`TableTrue`, `Tight`,
`StoreFaithful`, `NoLeftovers`, `AddressesAgree`, `ServiceResumes`, `NothingStuck`,
`CallsDoNotMix`); each part has its comment in the module.

`CHECK_DEADLOCK FALSE` stands where the instance really stops: at the largest filters,
at the last publication, start, command or call, at the end of the process. Elsewhere
TLC also checks that the system never stops.

## Bounds

- *Connections* 3 or 4: two overlap, a third finds what they left behind; a fourth, of
  another device, is what `OwnRow` needs. *Faults* 2: one to lose an update and one
  to strike its repair, or a crash on top of a failure.
- *Filters* of 3 levels over `+`, `#` and two names, *topics* of 4: beyond the last
  level of each filter and its parent nothing new is looked at.
- *Edits* 2 in a check: the smallest mixture needs two, one on either side of a
  SELECT, and `OneEditExact` says that one is not enough. Four rules in two roles: an allow and a deny for either operation, in
  different roles, so that the preload really joins.
- *Publications* 2 on 2 connections: a repeated topic on one connection, and the same
  first topic on both. The filter `+/b` selects two topics and one of the broker's own.
- *Starts* 3 and *edits* 3: a creation that fails or is cut off, a repetition, and a
  start after it; enough edits to remove root and soft-delete a role or rule, or to change
  users and role while a start is under way.
- *Commands* 2 with one piece of output on each stream and one background process
  each: the second command meets what the first has left behind. A partial output is
  the piece or nothing.

- *Connections of the device* 3: the OnConnect goroutine of the first may still be at it
  on the third, with one lost in between. *Hosts* some forty: each differs from a plain
  one in one respect (a field missing, a call that fails, an address on either side of
  a boundary of RFC 1918, a repeated one), since the functions look at one at a time.
- *Files* eleven: each switch missing, on and off where a check depends on it, and
  filters on both sides of validation. *Browsers* 2: one that takes the other's
  subscription; a *client* and a *request* publish, as each is waited for by another.
  The client may be one that is told to stop or one that comes in late. With two clients, one
  of each, and a single browser `NothingStuck` was checked as well; that instance has no run.
- *Callers* 2 with any calls, of which one may be a transaction: statements mix in
  pairs. Two messages and limits of 1, 2, -1 and 0 put a page before, at and behind the
  end. *List requests* 2 over tables of up to `MaxRows` = 2 rows, 500 in the code: a
  longer answer followed by a shorter one.

The theorems carry the safety properties they name over to every value.

## Fairness

- `ConnectionAudit!FairSpec`: weak fairness of each connection's statements (`Statements`):
  the goroutine is runnable and a statement returns or fails after SQLite's busy time-out
  of 5 s (`database.go:30`). Strong fairness of `Leave`: a stopped connection goes on to
  OnDisconnect if its goroutine is again and again not inside a delivery. That it does not
  stay in one for ever is *not* assumed, since the callback of a live subscription may
  block there (`admin/server.go:96-98`): it is the hypothesis of `DisconnectRecorded`, for
  that connection alone, and the property fails without it. Nothing is assumed of clients.
- `MessageStore!FairSpec`: weak fairness of the statements of `Save`, for the same reason.
  OnPublished comes after the deliveries of its publication.
- `CommandRunner!FairSpec`: weak fairness of the handler (its timer expires, the
  kill needs nobody's help) and of the waiting goroutine once `cmd.Wait` may return.
  None of the processes: they may run and hold their output for ever.
- `DeviceLink!FairDeviceSpec`: weak fairness of main, of each OnConnect goroutine (a token ends
  with an answer or with the connection) and of the library's reconnecting while the
  broker is reachable. None of the network, and none of `Collect`: a host may hang.
- `Service!FairSpec`: weak fairness of main; strong fairness of a publisher's delivery
  (`Deliver`: Go's mutex hands over to who has waited a millisecond, and a browser that
  reads now and then lets the write return), of a handler's write of the retained message,
  and of `Leave` for a client that was told to stop (`Told`: it was in when the listeners
  closed; it may be delivering at the time, and leaves after). None of browsers, requests or
  signals, and none of clients that nobody has told to stop, the latecomers among them.
  `NothingStuck` states its two assumptions itself: no browser stalls for ever
  (`BrowsersRead`), and a handshake ends and a latecomer leaves at some time
  (`LatecomersLeave`). It fails without either, and without any of the fairness.

## Proofs

6,532 obligations, all proved. Every safety property that a passing run checks is a
theorem, and so are the two refinements. An invariant is proved by an inductive
`IInv` (`Init => IInv`, `IInv /\ [Next]_vars => IInv'`), with one lemma for each action.

- **`ConnectionAuditProofs`**: types, `OwnRow`, `GhostOnlyAfterLostUpdate`,
  `DuplicateRowsRetire`, `DetailsPreserved`, and that `Spec` implements
  `RowLedger!Spec`. `IInv` adds `Bookkeeping`: where in the hook a connection may have
  an entry or a row id, that a leaving connection is stopped, and that an updating one
  holds the lowest id of its client (ids only grow, so the id stays lowest).
  `SequentialTableTrue` proves `TableTrue` from `SequentialSpec`, with an invariant of
  its own (`SeqInv`): who still has to close a row is the session it shows, and who is
  about to insert a row has been told the truth, that there is none.
- **`TopicFilterProofs`**: a covered request reaches only topics of the rule, a common
  topic implies overlap, exactness on topics, that neither comparison is stricter than
  need be (`Tight`), and that the loops compute the closed forms (`LoopsAgree`), for
  filters of any length over any alphabet. They are lemmas on arbitrary filters, by cases
  on where the first deciding `#` is, which the access and store proofs cite; `Tight` is
  by a topic made of both filters, the loops by the last level at which a function and
  its closed form could differ.
- **`AccessControlProofs`**: types, `StableDenyWins`, `GrantHasGrounds`, `OneEditExact`.
  `IInv` says that what a check has loaded lies within what `seen` recorded, and contains
  the links and roles of every rule held throughout. `OneEditExact` has an invariant of
  its own (`EditInv`) on `Coming`, the rules the check will decide on if nobody edits:
  no SELECT changes it, and the first edit (`FirstEdit`) either touches a table already
  read, which leaves it alone, or one still to be read, which makes it what is in force
  now. After a second edit it can be neither. Without edits (`QuietExact`) the moment is
  the whole check.
- **`MessageStoreProofs`**: types, and the four parts of `StoreFaithful`; `IInv` ties the
  hook's position to the topic row already there, to what is stored, and to what is lost.
- **`BootstrapProofs`**: types, the creation properties, and `OneStep`: `Spec` implements
  `FirstAccount!Spec`. `IInv` says that with the write lock the snapshot is current, so
  the count still holds at the commit; and what each INSERT has added to the draft.
  `DraftFollows` says that the draft is at each statement the snapshot with exactly
  what the statements before it add, so the commit is the one step `Create`, with full
  access but for soft-deleted rules; all other statements, and every rollback, leave the
  tables and the operator's count alone and are stutters.
- **`DeviceProofs`**, of the command runner: types, `AnswerWhole`, `NoLeftovers`. `IInv`
  says that once `cmd.Wait` has returned nothing of that command changes any more, and
  that the handler leaves by `done` only when the goroutine's send was received. Of the
  link: `DeafOnlyIfRefused`, by an invariant (`LinkInv`) on which connection each
  goroutine's SUBSCRIBE went out on. Of the report: types, `AddressesAgree`,
  `IdTellsMachine`, for any hosts that answer with the types their libraries declare.
  They rest on what the loops that skip and append return (`KeptElements`,
  `UniqueElements`, `Flattened`), for lists of any length, and on `PrivateIsRFC1918`:
  the masks of `isPrivateIP` are the ranges of RFC 1918, for every address.
- **`ServiceProofs`**: types, `ServedByWhole`, `SubscriptionsOwned`. `IInv` has two
  halves. `LifeInv`: what each position of main implies about configuration, database,
  hooks and root account (`Stage`), that a broker that serves is whole, and that
  clients inside or in their handshake keep it so until the last has left, however late they
  came. `AdminInv`: ids are distinct and
  at most the counter (`Numbers`), an id holds a callback exactly while the handler
  that drew it is live (`Callbacks`). That a valid filter is one the store understands is
  a lemma on `validateFilter` for filters of any length, with `TopicFilter`'s.
- **`DataAccessProofs`**: types, `CallsDoNotMix`, `PageTotalSeen`, `LoneAnswerExact`, for any
  callers, programs and requests. `IInv` has a half for each way into the database.
  `HandlesInv`: the shared objects never hold a condition, a caller that has begun uses one
  pool only (its transaction's or the database's), a statement has its own
  conditions, only who has the lock has rows not committed, and these are of the tables its
  operations so far write to; row numbers of a table are the first so many, so that
  the next one is free. `ListsInv`: what a request that was alone from its beginning finds
  in the shared slice is what it has read itself.

The assumptions are those on the constants, named in the modules and evaluated in every
run. Most say that a bound is a number or that a model value is none of a set. Those that
say more: `ProgramsAssumption` (what the code calls: conditions on columns of the table
asked, one page a call), `HostsAssumption` (the types the libraries declare),
`WildcardsAssumption` and `WildcardsAreLevels` (`+` and `#` are levels), `TwoNames`
(there is always another name of a level, for `Tight` only), `FilesAssumption`. `LiteralsAssumption` says that some literals are strings, which is true
in TLA+ and unknown to the provers.

The library's induction theorems take an operator as a parameter and cannot be used.
Where a proof goes over the elements of a list (the loops of `TopicFilter` and `util.go`),
it takes the least or the last position at which the statement fails, which exists because
the order on numbers is well-founded, and refutes it there.

Model-checked only: everything under fairness (`DisconnectRecorded`,
`EndsStoredOrLost`, `AlwaysAnswered`, `ServiceResumes`, `NothingStuck`), which is out of
the prover's reach.

## Findings

Two `violation` runs, beside the passing runs that show what does hold:

- *Takeover* (`connection.go:55`): `MarkDisconnected` updates by row id, whoever has
  connected since; the old goroutine may write last and the row of a live session
  stays at disconnected.
- *First connect* (`mbot/main.go:63`): a first connect that fails is never retried,
  though the device is said to connect automatically (`README.md:31`); it goes on
  publishing into a client that never connects.

## Promises that do not hold

The models also have these behaviours, each against a sentence of the repository. Each is
stated as a definition, which TLC refutes on the instance of the component's run.

- `CreatedWithFullAccess` (`Bootstrap`, an action property; `bootstrap.go:16`, `README.md:80`,
  `mkrab/README.md:30-31`): the root that is created may publish and subscribe
  everywhere. The INSERT of a rule whose row is there, soft-deleted, is a conflict that is
  ignored (`repo/auth.go:55`): the rule stays deleted and root is created without it.
  `FirstAccount` grants exactly that exception and no other.
- `InitialPasswordShown` (`Bootstrap`, `mkrab/README.md:31`): the password is shown once. A
  crash between commit and log line leaves a root nobody can log in as, and later starts
  find it present and show nothing.
- `TimedOutTaskEnds` (`CommandRunner`, `README.md:188`): a task of more than 10 seconds is
  terminated. The kill reaches the shell only (`mbot/main.go:148`); what it has started lives
  on and goes on writing.
- `PublicAddressOptional` (`DeviceLink`, with `AnsweringDeviceSpec` and the hosts
  `Unanswered`; `README.md:223`): a failing request for the public address does not affect
  the client. One that fails does not; one that is never answered keeps main from the
  telemetry loop for ever (`Hangs`), as `http.Get` has no deadline (`util.go:268`).
- `GrantOfSomeState` (`AccessControl`, `README.md:159`): the preload is four SELECTs
  without a transaction, and with two edits between them a check may be granted on a
  mixture that was never in force (`OneEditExact` proves that it takes two).
- `OneRowPerClient` (`ConnectionAudit`, `persistence_test.go:55`), without the restriction
  of `SequentialSpec`: First and Create are not in a transaction and `client_id` is not
  unique. The older row wins afterwards (`DuplicateRowsRetire`).

Of these no document says otherwise:

- A browser that stalls for ever holds the mutex of its subscription, with it every
  publisher that comes by, the audit of that publisher's disconnect, and the shutdown that
  waits for those (`Write` never happens; `BrowsersRead` excludes it).
- A client whose CONNECT is processed after the listeners have closed is served, told
  nothing, and holds up the shutdown for as long as it stays (`late`; `LatecomersLeave`
  excludes it).
- A web request that overlaps another on its list route may answer with the other's rows
  (`alone` excludes it).
- A device whose processor load, memory or system cannot be read ends (`Panics`).
- Hosts without a uuid may share an id: fields are joined without their names, so a
  serial number of one may be read as the uuid of another.

## Not modelled

- The admin web page (`admin/index.html`) and the query generator (`mkrab gen`): rendering
  in a browser and a development command; neither has state of the running system.
- `json.go` and all formatting of reports and payloads.
- Of the generated queries, the methods nobody calls: batches, `FirstOrInit`,
  `FirstOrCreate`, `Scan`, joins, renamed tables. `FindByPage` has no caller in the
  repository yet either; it is modelled for what it offers to one, offsets from 0 on.

## Limits

- The library is environment. `ConnectionAudit` assumes that it calls OnDisconnect on
  every connection on which it called OnSessionEstablished, that a takeover does not
  wait for the old goroutine, and that closing waits for all goroutines of clients.
  `ServedByWhole` rests on the latter also for a connection that is accepted just as the
  broker closes: either it is waited for, or the library runs no hook for it. `AdminServer`
  assumes of it that an inline subscription is known by its id, that a publisher calls
  the subscriptions it has looked up on its own goroutine, and that retained messages are
  delivered inside Subscribe. `DeviceLink` assumes that the client library reconnects
  after a loss only and runs OnConnect on a goroutine of its own.
- `http.Server.Close` is taken to leave running handlers and web sockets alone.
- Of GORM it is assumed that each call of a chain works on a copy of the statement, and
  that Find resets the length of the slice, scans in place and stores the length last.
- SQLite is taken to commit statements atomically and durably; a crash loses no
  committed statement.
- The audit keeps which connection a column tells of, not its text; payloads, times
  and addresses do not occur. Logging appears only where a property is about it (the
  password).
- The race on the buffers after a kill is limited to what a read may return; that a
  torn read might crash the process is left out.
