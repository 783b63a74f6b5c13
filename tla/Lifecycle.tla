------------------------------ MODULE Lifecycle ------------------------------
(***************************************************************************)
(* The main goroutine of `mkrab serve`, from the file it loads to its exit *)
(* (internal/app, data/database.go, broker/listener.go, broker/server.go), *)
(* and the signals it gets.                                                *)
(*                                                                         *)
(* From the library: a TCP listener takes its port when it is added, a     *)
(* web socket listener only when it is served, where failing is logged.    *)
(***************************************************************************)
EXTENDS Configuration, FiniteSets

CONSTANTS
  Files,   \* configuration files
  NoConfig \* before one is loaded

ASSUME FilesAssumption == Files \subseteq File

VARIABLES
  file,      \* the file the broker is started with
  main,      \* where main is
  config,    \* the *config.Config
  db,        \* the handle of the database
  listeners, \* the ListenerSet
  bound,     \* listeners whose port is taken
  hooks,     \* hooks of the server
  root,      \* EnsureInitialRoot has returned without error
  broker,    \* the MQTT server
  admin,     \* the web server
  caught     \* the context of the signals is done

lifeVars == <<file, main, config, db, listeners, bound, hooks, root, broker, admin, caught>>

Hook == {"auth", "connections", "store"}
Ended == {"exited", "killed"}

LifeTypeOK ==
  /\ file \in Files
  /\ main \in {"load", "open", "listen", "server", "application", "root", "notify", "serve",
               "admin", "wait", "close", "closing", "cleanup"} \cup Ended
  /\ config = NoConfig \/ config = Config(file)
  /\ db \in {"none", "open", "closed"}
  /\ listeners \subseteq Listener
  /\ bound \subseteq listeners
  /\ hooks \subseteq Hook
  /\ root \in BOOLEAN
  /\ broker \in {"none", "made", "serving", "closed"}
  /\ admin \in {"none", "made", "starting", "serving", "failed", "closed"}
  /\ caught \in BOOLEAN

LifeInit ==
  /\ file \in Files
  /\ main = "load"
  /\ config = NoConfig
  /\ db = "none"
  /\ listeners = {}
  /\ bound = {}
  /\ hooks = {}
  /\ root = FALSE
  /\ broker = "none"
  /\ admin = "none"
  /\ caught = FALSE

Fail == main' = "exited"

-----------------------------------------------------------------------------
(* Plausible bugs, one per property: variants of the definitions below that *)
(* no definition of the model uses.                                         *)

\* A root account that cannot be ensured is only logged.
GoOnWithoutRoot ==
  /\ main = "root"
  /\ main' = "notify"
  /\ root' \in BOOLEAN
  /\ UNCHANGED <<file, config, db, listeners, bound, hooks, broker, admin, caught>>

\* Without a web server, the broker is not closed either.
CloseWithAdmin ==
  /\ main = "close"
  /\ admin # "none"
  /\ main' = "closing"
  /\ admin' = "closed"
  /\ broker' = "closed"
  /\ bound' = {}
  /\ UNCHANGED <<file, config, db, listeners, hooks, root, caught>>

-----------------------------------------------------------------------------
(* Initialize.                                                              *)

Load ==
  /\ main = "load"
  /\ \/ Errors(file) # {} /\ Fail /\ UNCHANGED config
     \/ Errors(file) = {} /\ main' = "open" /\ config' = Config(file)
  /\ UNCHANGED <<file, db, listeners, bound, hooks, root, broker, admin, caught>>

\* If the join table or the migration fails, the handle is never closed: the
\* clean-up function is returned on success only.
OpenFromConfig ==
  /\ main = "open"
  /\ \/ main' = "listen" /\ db' = "open"
     \/ Fail /\ db' \in {"none", "open"}
  /\ UNCHANGED <<file, config, listeners, bound, hooks, root, broker, admin, caught>>

\* The certificate of a secure listener may not load.
NewListeners ==
  /\ main = "listen"
  /\ \/ main' = "server" /\ listeners' = config.listeners /\ UNCHANGED db
     \/ /\ config.listeners \cap Secure # {}
        /\ Fail /\ db' = "closed" /\ UNCHANGED listeners
  /\ UNCHANGED <<file, config, bound, hooks, root, broker, admin, caught>>

\* Two hooks, the listeners in their order up to one whose port is not free, the
\* store's hook; after an error the ports are kept and the database is closed.
NewServer ==
  /\ main = "server"
  /\ \/ /\ main' = "application"
        /\ broker' = "made"
        /\ bound' = listeners \cap {"tcp", "tls"}
        /\ hooks' = {"auth", "connections"} \cup (IF config.store THEN {"store"} ELSE {})
        /\ UNCHANGED db
     \/ /\ \E l \in listeners \cap {"tcp", "tls"} :
             bound' = IF l = "tls" THEN listeners \cap {"tcp"} ELSE {}
        /\ hooks' = {"auth", "connections"}
        /\ Fail /\ db' = "closed" /\ UNCHANGED broker
  /\ UNCHANGED <<file, config, listeners, root, admin, caught>>

New ==
  /\ main = "application"
  /\ main' = "root"
  /\ admin' = IF config.web THEN "made" ELSE "none"
  /\ UNCHANGED <<file, config, db, listeners, bound, hooks, root, broker, caught>>

-----------------------------------------------------------------------------
(* Application.Run.                                                         *)

\* An error is returned, which closes what there is (command.go:34-36).
EnsureInitialRoot ==
  /\ main = "root"
  /\ \/ main' = "notify" /\ root' = TRUE
     \/ main' = "close" /\ UNCHANGED root
  /\ UNCHANGED <<file, config, db, listeners, bound, hooks, broker, admin, caught>>

NotifyContext ==
  /\ main = "notify"
  /\ main' = "serve"
  /\ UNCHANGED <<file, config, db, listeners, bound, hooks, root, broker, admin, caught>>

\* The web socket listeners get their ports, or do not.
Serve ==
  /\ main = "serve"
  /\ main' = "admin"
  /\ broker' = "serving"
  /\ \E ports \in SUBSET (listeners \ bound) : bound' = bound \cup ports
  /\ UNCHANGED <<file, config, db, listeners, hooks, root, admin, caught>>

GoAdmin ==
  /\ main = "admin"
  /\ main' = "wait"
  /\ admin' = IF admin = "made" THEN "starting" ELSE admin
  /\ UNCHANGED <<file, config, db, listeners, bound, hooks, root, broker, caught>>

\* The goroutine of the web server; that it cannot listen is only logged.
AdminRun ==
  /\ admin = "starting" /\ main \notin Ended
  /\ admin' \in {"serving", "failed"}
  /\ UNCHANGED <<file, main, config, db, listeners, bound, hooks, root, broker, caught>>

\* <-ctx.Done(), return, stop().
Return ==
  /\ main = "wait" /\ caught
  /\ main' = "close"
  /\ UNCHANGED <<file, config, db, listeners, bound, hooks, root, broker, admin, caught>>

-----------------------------------------------------------------------------
(* The deferred Close and clean-up.                                         *)

\* Application.Close: a web server that has not come up yet will not; the
\* listeners are closed and their clients told to stop ...
Close ==
  /\ main = "close"
  /\ main' = "closing"
  /\ admin' = IF admin = "none" THEN "none" ELSE "closed"
  /\ broker' = "closed"
  /\ bound' = {}
  /\ UNCHANGED <<file, config, db, listeners, hooks, root, caught>>

\* ... and waited for: all the goroutines of clients have returned.
BrokerClosed(clientsGone) ==
  /\ main = "closing" /\ clientsGone
  /\ main' = "cleanup"
  /\ UNCHANGED <<file, config, db, listeners, bound, hooks, root, broker, admin, caught>>

Cleanup ==
  /\ main = "cleanup"
  /\ main' = "exited"
  /\ db' = "closed"
  /\ UNCHANGED <<file, config, listeners, bound, hooks, root, broker, admin, caught>>

-----------------------------------------------------------------------------
\* An interrupt: heard from NotifyContext to stop, and deadly otherwise.
Signal ==
  /\ main \notin Ended
  /\ \/ /\ main \in {"serve", "admin", "wait"}
        /\ caught' = TRUE
        /\ UNCHANGED main
     \/ /\ main \notin {"serve", "admin", "wait"}
        /\ main' = "killed"
        /\ UNCHANGED caught
  /\ UNCHANGED <<file, config, db, listeners, bound, hooks, root, broker, admin>>

\* What main does by itself.
Main(clientsGone) ==
  \/ Load \/ OpenFromConfig \/ NewListeners \/ NewServer \/ New
  \/ EnsureInitialRoot \/ NotifyContext \/ Serve \/ GoAdmin \/ Return
  \/ Close \/ BrokerClosed(clientsGone) \/ Cleanup
=============================================================================
