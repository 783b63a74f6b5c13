---------------------------- MODULE AccessControl ----------------------------
(***************************************************************************)
(* Login and access checks of the mkrab broker: AuthACLHook                *)
(* (mkrab/internal/broker/auth.go) over UserRepository                     *)
(* (mkrab/internal/data/repo/auth.go), while an operator edits the tables  *)
(* of the running broker.                                                  *)
(*                                                                         *)
(* FindEnabledWithRoles is one call in the source and four SELECTs in the  *)
(* database: the user, its rows of mqtt_user_role, the roles, their rules. *)
(* They run outside any transaction, so an edit may fall between any two.  *)
(***************************************************************************)
EXTENDS TopicFilter

CONSTANTS
  User,       \* user names clients may send
  Password,   \* passwords
  NoUser,     \* the session has not logged in
  Role,       \* role ids
  Rule,       \* acl rule ids
  RuleOf,     \* RuleOf[r] is the row: role, operation, effect, filter
  Session,    \* client connections; each runs one check at a time
  Request,    \* what clients ask for: operation and filter
  MaxEdits,   \* bound: edits of the tables in a behaviour
  ProbeTopic  \* the topics the properties look at

Operation == {"publish", "subscribe"}
RuleRow == [role : Role, operation : Operation, effect : {"allow", "deny"}, filter : Filter]

ASSUME NoUserAssumption == NoUser \notin User
ASSUME RuleOfAssumption == RuleOf \in [Rule -> RuleRow]
ASSUME RequestAssumption == Request \subseteq [operation : Operation, filter : Filter]
ASSUME MaxEditsAssumption == MaxEdits \in Nat
ASSUME ProbeTopicAssumption == ProbeTopic \subseteq Topic

VARIABLES
  status,     \* status[u]: the user's row, "absent" also when soft-deleted
  hash,       \* hash[u]: the password the row's bcrypt hash is for
  links,      \* visible rows of mqtt_user_role
  roles,      \* visible rows of mqtt_role
  rules,      \* visible rows of mqtt_acl_rule
  edits,      \* edits so far
  user,       \* user[s]: the name s logged in with
  step,       \* step[s]: the next SELECT of s's check
  request,    \* request[s]: what s's latest check is about
  found,      \* found[s]: the role ids the check has loaded
  decision,   \* decision[s]: how s's latest check ended
  seen        \* history: what the tables held since s's latest check began

tables == <<status, hash, links, roles, rules>>
vars == <<tables, edits, user, step, request, found, decision, seen>>

\* A check that failed on a database error is refused as well.
Decision == {"none", "granted", "refused", "failed"}
Step == {"out", "ready", "user", "links", "roles", "rules"}
Checking == {"user", "links", "roles", "rules"}

\* The edits; what the tables held at some moment; the rules in force at all
\* moments; the sets of rules in force at the single ones.
Seen == [edits : Nat, enabled : BOOLEAN, links : SUBSET Role, roles : SUBSET Role,
         rules : SUBSET Rule, held : SUBSET Rule, forces : SUBSET SUBSET Rule]

TypeOK ==
  /\ status \in [User -> {"enabled", "disabled", "absent"}]
  /\ hash \in [User -> Password]
  /\ links \subseteq User \X Role
  /\ roles \subseteq Role
  /\ rules \subseteq Rule
  /\ edits \in Nat
  /\ user \in [Session -> User \cup {NoUser}]
  /\ step \in [Session -> Step]
  /\ \A s \in Session : step[s] # "out" => user[s] \in User
  /\ request \in [Session -> Request]
  /\ found \in [Session -> SUBSET Role]
  /\ decision \in [Session -> Decision]
  /\ seen \in [Session -> Seen]

-----------------------------------------------------------------------------
(* The decision on the rules a check has loaded.                           *)

About(r, q) == RuleOf[r].operation = q.operation

\* A plausible bug: a deny rule is compared as an allow rule is.
DecideDenyCovered(some, q) ==
  /\ ~ \E r \in some : About(r, q) /\ RuleOf[r].effect = "deny"
                       /\ CoveredBy(RuleOf[r].filter, q.filter)
  /\ \E r \in some : About(r, q) /\ RuleOf[r].effect = "allow"
                     /\ CoveredBy(RuleOf[r].filter, q.filter)

\* The loops over roles and rules: a deny that overlaps ends them at once, so
\* the order of the rows does not matter.
Decide(some, q) ==
  /\ ~ \E r \in some : About(r, q) /\ RuleOf[r].effect = "deny"
                       /\ Overlap(RuleOf[r].filter, q.filter)
  /\ \E r \in some : About(r, q) /\ RuleOf[r].effect = "allow"
                     /\ CoveredBy(RuleOf[r].filter, q.filter)

LinksOf(u) == {role \in Role : <<u, role>> \in links}

\* The rules that reach user u through visible rows, all tables taken at once.
InForce(u) ==
  IF status[u] = "enabled"
  THEN {r \in rules : RuleOf[r].role \in roles \cap LinksOf(u)}
  ELSE {}

-----------------------------------------------------------------------------
Init ==
  /\ status \in [User -> {"enabled", "absent"}]
  /\ hash \in [User -> Password]
  /\ links \in SUBSET (User \X Role)
  /\ roles = Role
  /\ rules \in SUBSET Rule
  /\ edits = 0
  /\ user = [s \in Session |-> NoUser]
  /\ step = [s \in Session |-> "out"]
  /\ request \in [Session -> Request]   \* none asked yet
  /\ found = [s \in Session |-> {}]
  /\ decision = [s \in Session |-> "none"]
  /\ seen = [s \in Session |->
       [edits |-> 0, enabled |-> FALSE, links |-> {}, roles |-> {},
        rules |-> {}, held |-> {}, forces |-> {}]]

(* The session's side.                                                     *)

\* OnConnectAuthenticate: FindEnabled, then the comparison of the hash.  A
\* refused client is turned away and changes nothing.
Login(s, u, p) ==
  /\ step[s] = "out"
  /\ \/ /\ status[u] = "enabled" /\ hash[u] = p
        /\ user' = [user EXCEPT ![s] = u]
        /\ step' = [step EXCEPT ![s] = "ready"]
     \/ /\ ~(status[u] = "enabled" /\ hash[u] = p)
        /\ UNCHANGED <<user, step>>
  /\ UNCHANGED <<tables, edits, request, found, decision, seen>>

\* The library calls OnACLCheck for a publish or a subscription.
Ask(s, q) ==
  /\ step[s] = "ready"
  /\ step' = [step EXCEPT ![s] = "user"]
  /\ request' = [request EXCEPT ![s] = q]
  /\ decision' = [decision EXCEPT ![s] = "none"]
  /\ seen' = [seen EXCEPT ![s] =
       [edits |-> 0, enabled |-> status[user[s]] = "enabled",
        links |-> LinksOf(user[s]), roles |-> roles, rules |-> rules,
        held |-> InForce(user[s]), forces |-> {InForce(user[s])}]]
  /\ UNCHANGED <<tables, edits, user, found>>

Conclude(s, d) ==
  /\ decision' = [decision EXCEPT ![s] = d]
  /\ step' = [step EXCEPT ![s] = "ready"]
  /\ found' = [found EXCEPT ![s] = {}]

\* Load the ids in turn; the preload stops where nothing is found.
Load(s, next, ids) ==
  \/ /\ ids # {}
     /\ found' = [found EXCEPT ![s] = ids]
     /\ step' = [step EXCEPT ![s] = next]
     /\ UNCHANGED decision
  \/ ids = {} /\ Conclude(s, "refused")

(* Plausible bugs, one per property: variants of the actions below that no  *)
(* definition of the model uses.                                            *)

\* The role preload keeps the ids of the rules.
FindRolesAsRules(s) ==
  /\ step[s] = "roles"
  /\ Load(s, "rules", {r \in rules : RuleOf[r].role \in found[s] \cap roles})
  /\ UNCHANGED <<tables, edits, user, request, seen>>

\* The join row is enough: deleted roles are loaded too.
FindRolesDeletedToo(s) ==
  /\ step[s] = "roles"
  /\ Load(s, "rules", found[s])
  /\ UNCHANGED <<tables, edits, user, request, seen>>

\* FindByUsernameWithRoles in place of FindEnabledWithRoles.
FindUserByName(s) ==
  /\ step[s] = "user"
  /\ \/ /\ status[user[s]] # "absent"
        /\ step' = [step EXCEPT ![s] = "links"]
        /\ UNCHANGED <<decision, found>>
     \/ status[user[s]] = "absent" /\ Conclude(s, "refused")
  /\ UNCHANGED <<tables, edits, user, request, seen>>

\* SELECT the user, WHERE username and enabled.
FindUser(s) ==
  /\ step[s] = "user"
  /\ \/ /\ status[user[s]] = "enabled"
        /\ step' = [step EXCEPT ![s] = "links"]
        /\ UNCHANGED <<decision, found>>
     \/ status[user[s]] # "enabled" /\ Conclude(s, "refused")
  /\ UNCHANGED <<tables, edits, user, request, seen>>

FindLinks(s) ==
  /\ step[s] = "links"
  /\ Load(s, "roles", LinksOf(user[s]))
  /\ UNCHANGED <<tables, edits, user, request, seen>>

FindRoles(s) ==
  /\ step[s] = "roles"
  /\ Load(s, "rules", found[s] \cap roles)
  /\ UNCHANGED <<tables, edits, user, request, seen>>

\* The last SELECT, and the loops over what was loaded.
FindRules(s) ==
  /\ step[s] = "rules"
  /\ Conclude(s, IF Decide({r \in rules : RuleOf[r].role \in found[s]}, request[s])
                 THEN "granted" ELSE "refused")
  /\ UNCHANGED <<tables, edits, user, request, seen>>

\* A plausible bug: an error of the preload is logged only, and the loops go on
\* with the rows that were scanned before it.
CheckFailsDecides(s) ==
  /\ step[s] \in Checking
  /\ \E some \in SUBSET {r \in rules : RuleOf[r].role \in found[s]} :
       Conclude(s, IF step[s] = "rules" /\ Decide(some, request[s]) THEN "granted" ELSE "refused")
  /\ UNCHANGED <<tables, edits, user, request, seen>>

\* Any of the SELECTs fails: logged and refused.
CheckFails(s) ==
  /\ step[s] \in Checking
  /\ Conclude(s, "failed")
  /\ UNCHANGED <<tables, edits, user, request, seen>>

-----------------------------------------------------------------------------
(* The operator's side: one committed statement at a time.                 *)

\* Every check under way has lived through the tables as they are now.
Witness ==
  seen' = [s \in Session |->
    IF step[s] \notin Checking THEN seen[s]
    ELSE [edits |-> seen[s].edits + 1,
          enabled |-> seen[s].enabled \/ status'[user[s]] = "enabled",
          links |-> seen[s].links \cup LinksOf(user[s])',
          roles |-> seen[s].roles \cup roles',
          rules |-> seen[s].rules \cup rules',
          held |-> seen[s].held \cap InForce(user[s])',
          forces |-> seen[s].forces \cup {InForce(user[s])'}]]

EditUser ==
  /\ \E u \in User, new \in {"enabled", "disabled", "absent"} :
       status' = [status EXCEPT ![u] = new]
  /\ UNCHANGED <<hash, links, roles, rules>>

EditPassword ==
  /\ \E u \in User, p \in Password : hash' = [hash EXCEPT ![u] = p]
  /\ UNCHANGED <<status, links, roles, rules>>

EditLink ==
  /\ \E link \in User \X Role : links' \in {links \cup {link}, links \ {link}}
  /\ UNCHANGED <<status, hash, roles, rules>>

EditRole ==
  /\ \E role \in Role : roles' \in {roles \cup {role}, roles \ {role}}
  /\ UNCHANGED <<status, hash, links, rules>>

EditRule ==
  /\ \E r \in Rule : rules' \in {rules \cup {r}, rules \ {r}}
  /\ UNCHANGED <<status, hash, links, roles>>

Edit ==
  /\ edits < MaxEdits
  /\ edits' = edits + 1
  /\ EditUser \/ EditPassword \/ EditLink \/ EditRole \/ EditRule
  /\ UNCHANGED <<user, step, request, found, decision>>
  /\ Witness

-----------------------------------------------------------------------------
Check(s) == FindUser(s) \/ FindLinks(s) \/ FindRoles(s) \/ FindRules(s) \/ CheckFails(s)

Next ==
  \/ Edit
  \/ \E s \in Session :
       \/ \E u \in User, p \in Password : Login(s, u, p)
       \/ \E q \in Request : Ask(s, q)
       \/ Check(s)

Spec == Init /\ [][Next]_vars

-----------------------------------------------------------------------------
\* A deny rule that was in force for the user during the whole check is obeyed,
\* whatever else is edited between the SELECTs: a granted request shares no
\* topic with it (auth.go:51, README.md:159).
StableDenyWins ==
  \A s \in Session : decision[s] = "granted" =>
    \A r \in seen[s].held, t \in ProbeTopic :
      About(r, request[s]) /\ RuleOf[r].effect = "deny" =>
        ~(Matches(RuleOf[r].filter, t) /\ Matches(request[s].filter, t))

\* Nothing is granted without grounds: the user was enabled, and an allow rule
\* that selects every requested topic existed, as did its role and the user's
\* link to that role, each at some moment of the check (auth.go:54).
GrantHasGrounds ==
  \A s \in Session : decision[s] = "granted" =>
    /\ seen[s].enabled
    /\ \E r \in seen[s].rules :
         /\ RuleOf[r].role \in seen[s].links \cap seen[s].roles
         /\ About(r, request[s]) /\ RuleOf[r].effect = "allow"
         /\ \A t \in ProbeTopic :
              Matches(request[s].filter, t) => Matches(RuleOf[r].filter, t)

\* The rules of a set that are about a request and select its topic.
Selecting(some, q, effect) ==
  {r \in some : About(r, q) /\ RuleOf[r].effect = effect /\ Matches(RuleOf[r].filter, q.filter)}

\* The answer the code gives on these rules and, for a topic, the one they mean.
RightAnswer(granted, some, q) ==
  /\ granted <=> Decide(some, q)
  /\ q.filter \in ProbeTopic =>
       (granted <=> Selecting(some, q, "allow") # {} /\ Selecting(some, q, "deny") = {})

\* A check during which the operator makes at most one edit decides as if it had
\* read all tables at one moment: an edit changes one table, which the check has
\* read before or reads after.  The answer is the one the rules then in force
\* give and, for a publisher's topic, the one they mean (auth.go:45-59;
\* repo/auth.go:21).
OneEditExact ==
  \A s \in Session :
    seen[s].edits <= 1 /\ decision[s] \in {"granted", "refused"} =>
      \E some \in seen[s].forces : RightAnswer(decision[s] = "granted", some, request[s])

\* A request is granted only if the tables, at some moment of the check, say so.
\* README.md:159 promises that the database is read live and that deny comes
\* first.  This does not hold: two edits between the SELECTs can mix two states.
GrantOfSomeState ==
  \A s \in Session : decision[s] = "granted" =>
    \E some \in seen[s].forces : Decide(some, request[s])
=============================================================================
