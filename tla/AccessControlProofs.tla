------------------------- MODULE AccessControlProofs -------------------------
(***************************************************************************)
(* What an access check guarantees for every set of users, roles, rules,   *)
(* filters and sessions, however many edits fall between its SELECTs.      *)
(***************************************************************************)
EXTENDS AccessControl, TopicFilterProofs

(* What a check knows of the tables it has lived through.                  *)
KnowsPresent ==
  \A s \in Session : step[s] \in Checking =>
    /\ seen[s].held \subseteq InForce(user[s])
    /\ status[user[s]] = "enabled" => seen[s].enabled
    /\ LinksOf(user[s]) \subseteq seen[s].links
    /\ roles \subseteq seen[s].roles
    /\ rules \subseteq seen[s].rules

(* What it has loaded, against what it has lived through.                  *)
LoadedRoles ==
  \A s \in Session :
    /\ step[s] \in {"links", "roles", "rules"} => seen[s].enabled
    /\ step[s] \in {"roles", "rules"} =>
         /\ \A r \in seen[s].held : RuleOf[r].role \in found[s]
         /\ found[s] \subseteq seen[s].links
    /\ step[s] = "rules" => found[s] \subseteq seen[s].roles

(* Until the first edit what it has loaded is what is there.               *)
QuietLoaded ==
  \A s \in Session : seen[s].edits = 0 =>
    /\ step[s] \in {"links", "roles", "rules"} => status[user[s]] = "enabled"
    /\ step[s] = "roles" => found[s] = LinksOf(user[s])
    /\ step[s] = "rules" => found[s] = LinksOf(user[s]) \cap roles

(* The rules it will decide on, unless there is another edit.              *)
Reaching(ids) == {r \in rules : RuleOf[r].role \in ids}

Coming(s) ==
  CASE step[s] = "user" -> InForce(user[s])
    [] step[s] = "links" -> Reaching(LinksOf(user[s]) \cap roles)
    [] step[s] = "roles" -> Reaching(found[s] \cap roles)
    [] OTHER -> Reaching(found[s])

(* They have been in force at one moment, even after one edit.             *)
ComingSeen ==
  \A s \in Session : step[s] \in Checking /\ seen[s].edits <= 1 => Coming(s) \in seen[s].forces

(* Without an edit there was only one such moment.                         *)
QuietForces ==
  \A s \in Session :
    seen[s].edits = 0 /\ (step[s] \in Checking \/ decision[s] # "none") =>
      seen[s].forces = {seen[s].held}

(* A check under way has not concluded.                                    *)
UndecidedWhileChecking ==
  \A s \in Session : step[s] \in Checking => decision[s] = "none"

EditInv == QuietLoaded /\ ComingSeen /\ QuietForces /\ OneEditExact

IInv ==
  /\ TypeOK /\ KnowsPresent /\ LoadedRoles /\ UndecidedWhileChecking
  /\ StableDenyWins /\ GrantHasGrounds

-----------------------------------------------------------------------------
LEMMA RuleRows ==
  \A r \in Rule : /\ RuleOf[r].role \in Role
                  /\ RuleOf[r].filter \in Seq(Level)
                  /\ RuleOf[r].effect \in {"allow", "deny"}
BY RuleOfAssumption DEF RuleRow, Filter

LEMMA RequestRows ==
  \A q \in Request : q.filter \in Seq(Level)
BY RequestAssumption DEF Filter

LEMMA InForceTyped ==
  ASSUME TypeOK, NEW u
  PROVE  InForce(u) \subseteq Rule /\ LinksOf(u) \subseteq Role
BY DEF TypeOK, InForce, LinksOf

\* No deny rule among those decided on shares a topic with a granted request.
LEMMA DecideRespectsDeny ==
  ASSUME NEW some \in SUBSET Rule, NEW q \in Request, Decide(some, q),
         NEW r \in some, NEW t \in Topic,
         About(r, q), RuleOf[r].effect = "deny"
  PROVE  ~(Matches(RuleOf[r].filter, t) /\ Matches(q.filter, t))
<1>1. ~Overlap(RuleOf[r].filter, q.filter)
  BY DEF Decide
<1> QED
  BY <1>1, RuleRows, RequestRows, OverlapIsComplete

\* A granted request is one an allow rule covers, topic by topic.
LEMMA DecideNeedsAllow ==
  ASSUME NEW some \in SUBSET Rule, NEW q \in Request, Decide(some, q)
  PROVE  \E r \in some :
           /\ About(r, q) /\ RuleOf[r].effect = "allow"
           /\ \A t \in Topic : Matches(q.filter, t) => Matches(RuleOf[r].filter, t)
<1>1. PICK r \in some : /\ About(r, q) /\ RuleOf[r].effect = "allow"
                        /\ CoveredBy(RuleOf[r].filter, q.filter)
  BY DEF Decide
<1>2. \A t \in Topic : Matches(q.filter, t) => Matches(RuleOf[r].filter, t)
  BY <1>1, RuleRows, RequestRows, Names, CoverIsSound
<1> QED
  BY <1>1, <1>2

\* For a topic the decision is what the rules' filters mean.
LEMMA DecideOnTopics ==
  ASSUME NEW some \in SUBSET Rule, NEW q \in Request, q.filter \in Topic
  PROVE  Decide(some, q) <=>
           /\ \E r \in some : About(r, q) /\ RuleOf[r].effect = "allow"
                              /\ Matches(RuleOf[r].filter, q.filter)
           /\ ~ \E r \in some : About(r, q) /\ RuleOf[r].effect = "deny"
                                /\ Matches(RuleOf[r].filter, q.filter)
<1>1. \A r \in some :
        /\ Overlap(RuleOf[r].filter, q.filter) <=> Matches(RuleOf[r].filter, q.filter)
        /\ CoveredBy(RuleOf[r].filter, q.filter) <=> Matches(RuleOf[r].filter, q.filter)
  BY RuleRows, OverlapExact, CoverExact
<1> QED
  BY <1>1 DEF Decide

-----------------------------------------------------------------------------
LEMMA InitIInv == Init => IInv
BY NoUserAssumption
DEF Init, IInv, TypeOK, Step, Decision, Seen, Checking, KnowsPresent, LoadedRoles,
    UndecidedWhileChecking, StableDenyWins, GrantHasGrounds

LEMMA LoginStep ==
  ASSUME IInv, NEW s \in Session, NEW u \in User, NEW p \in Password, Login(s, u, p)
  PROVE  IInv'
<1> USE DEF IInv
<1>1. TypeOK'
  BY DEF Login, TypeOK, Step, tables
<1>2. /\ UNCHANGED <<status, hash, links, roles, rules, request, found, decision, seen>>
      /\ \A z \in Session : step'[z] \in Checking => step'[z] = step[z] /\ user'[z] = user[z]
  BY DEF Login, tables, TypeOK, Checking
<1>3. KnowsPresent' /\ LoadedRoles'
  BY <1>2 DEF KnowsPresent, LoadedRoles, Checking, InForce, LinksOf
<1>4. StableDenyWins' /\ GrantHasGrounds'
  BY <1>2 DEF StableDenyWins, GrantHasGrounds, About
<1>5. UndecidedWhileChecking'
  BY <1>2 DEF UndecidedWhileChecking
<1> QED
  BY <1>1, <1>3, <1>4, <1>5

LEMMA AskStep ==
  ASSUME IInv, NEW s \in Session, NEW q \in Request, Ask(s, q)
  PROVE  IInv'
<1> USE DEF IInv
<1> DEFINE new == [edits |-> 0, enabled |-> status[user[s]] = "enabled",
                   links |-> LinksOf(user[s]), roles |-> roles, rules |-> rules,
                   held |-> InForce(user[s]), forces |-> {InForce(user[s])}]
<1>1. /\ UNCHANGED <<status, hash, links, roles, rules, edits, user, found>>
      /\ step[s] = "ready" /\ step' = [step EXCEPT ![s] = "user"]
      /\ request' = [request EXCEPT ![s] = q]
      /\ decision' = [decision EXCEPT ![s] = "none"]
      /\ seen' = [seen EXCEPT ![s] = new]
  BY DEF Ask, tables
<1>3. new \in Seen
  BY InForceTyped DEF Seen, TypeOK
<1>4. /\ new.held = InForce(user[s])
      /\ status[user[s]] = "enabled" => new.enabled
      /\ new.links = LinksOf(user[s]) /\ new.roles = roles /\ new.rules = rules
  OBVIOUS
<1> HIDE DEF new
<1>5. TypeOK'
  BY <1>1, <1>3 DEF TypeOK, Step, Decision
<1>6. /\ \A z \in Session \ {s} : /\ seen'[z] = seen[z] /\ step'[z] = step[z]
                                  /\ request'[z] = request[z] /\ decision'[z] = decision[z]
      /\ seen'[s] = new /\ step'[s] = "user" /\ decision'[s] = "none"
  BY <1>1 DEF TypeOK
<1>7. \A z \in Session : InForce(user[z])' = InForce(user[z]) /\ LinksOf(user[z])' = LinksOf(user[z])
  BY <1>1 DEF InForce, LinksOf
<1>8. KnowsPresent'
  <2> SUFFICES ASSUME NEW z \in Session, step'[z] \in Checking
      PROVE  /\ seen'[z].held \subseteq InForce(user[z])'
             /\ status'[user'[z]] = "enabled" => seen'[z].enabled
             /\ LinksOf(user[z])' \subseteq seen'[z].links
             /\ roles' \subseteq seen'[z].roles
             /\ rules' \subseteq seen'[z].rules
    BY DEF KnowsPresent
  <2>1. CASE z = s
    <3>1. seen'[z] = new /\ user'[z] = user[s] /\ status' = status
          /\ roles' = roles /\ rules' = rules
      BY <2>1, <1>1, <1>6
    <3>2. InForce(user[z])' = InForce(user[s]) /\ LinksOf(user[z])' = LinksOf(user[s])
      BY <2>1, <1>1 DEF InForce, LinksOf
    <3> QED
      BY <3>1, <3>2, <1>4
  <2>2. CASE z # s
    <3>1. /\ seen'[z] = seen[z] /\ step[z] \in Checking
          /\ status' = status /\ user' = user /\ roles' = roles /\ rules' = rules
      BY <2>2, <1>1, <1>6
    <3> QED
      BY <3>1, <1>7 DEF KnowsPresent
  <2> QED
    BY <2>1, <2>2
<1>9. LoadedRoles'
  BY <1>1, <1>6, <1>7 DEF LoadedRoles
<1>10. StableDenyWins' /\ GrantHasGrounds'
  BY <1>6 DEF StableDenyWins, GrantHasGrounds, About
<1>11. UndecidedWhileChecking'
  BY <1>6 DEF UndecidedWhileChecking
<1> QED
  BY <1>5, <1>8, <1>9, <1>10, <1>11

\* A step of a check that is not its last leaves the decisions alone.
LEMMA MiddleOfCheck ==
  ASSUME IInv, UNCHANGED <<tables, user, request, seen, decision>>,
         \A z \in Session : step'[z] \in Checking => step[z] \in Checking
  PROVE  /\ UndecidedWhileChecking'
         /\ StableDenyWins' /\ GrantHasGrounds'
<1>1. UndecidedWhileChecking'
  BY DEF IInv, UndecidedWhileChecking
<1> QED
  BY <1>1 DEF IInv, StableDenyWins, GrantHasGrounds, About

\* A check that ends without a grant.
LEMMA EndOfCheck ==
  ASSUME IInv, NEW s \in Session, step[s] \in Checking, NEW d \in {"refused", "failed"}, Conclude(s, d),
         UNCHANGED <<tables, edits, user, request, seen>>
  PROVE  IInv'
<1> USE DEF IInv
<1>1. /\ UNCHANGED <<status, hash, links, roles, rules, edits, user, request, seen>>
      /\ \A z \in Session \ {s} : /\ decision'[z] = decision[z] /\ step'[z] = step[z]
                                  /\ found'[z] = found[z]
      /\ decision'[s] = d /\ step'[s] = "ready"
  BY DEF Conclude, tables, TypeOK
<1>2. TypeOK'
  <2>1. /\ decision' \in [Session -> Decision]
        /\ step' \in [Session -> Step]
        /\ found' \in [Session -> SUBSET Role]
    BY DEF Conclude, TypeOK, Decision, Step
  <2>2. user[s] \in User
    BY DEF TypeOK, Checking
  <2> QED
    BY <1>1, <2>1, <2>2 DEF TypeOK
<1>3. \A z \in Session : InForce(user[z])' = InForce(user[z]) /\ LinksOf(user[z])' = LinksOf(user[z])
  BY <1>1 DEF InForce, LinksOf
<1>4. KnowsPresent'
  BY <1>1, <1>3 DEF KnowsPresent, Checking
<1>5. LoadedRoles'
  BY <1>1, <1>3 DEF LoadedRoles
<1>6. StableDenyWins' /\ GrantHasGrounds'
  BY <1>1 DEF StableDenyWins, GrantHasGrounds, About
<1>7. UndecidedWhileChecking'
  BY <1>1 DEF UndecidedWhileChecking, Checking
<1> QED
  BY <1>2, <1>4, <1>5, <1>6, <1>7

LEMMA DecideNothing == \A q : ~Decide({}, q)
BY DEF Decide

LEMMA CheckFailsStep ==
  ASSUME IInv, NEW s \in Session, CheckFails(s)
  PROVE  IInv'
BY EndOfCheck DEF CheckFails

LEMMA FindUserStep ==
  ASSUME IInv, NEW s \in Session, FindUser(s)
  PROVE  IInv'
<1> USE DEF IInv
<1>1. CASE Conclude(s, "refused")
  <2>1. step[s] \in Checking /\ UNCHANGED <<tables, edits, user, request, seen>>
    BY DEF FindUser, Checking
  <2> QED
    BY <1>1, <2>1, EndOfCheck
<1>2. CASE /\ status[user[s]] = "enabled"
           /\ step' = [step EXCEPT ![s] = "links"]
           /\ UNCHANGED <<decision, found>>
  <2>1. /\ UNCHANGED <<status, hash, links, roles, rules, edits, user, request, seen, found, decision>>
        /\ step[s] = "user" /\ step'[s] = "links"
        /\ \A z \in Session \ {s} : step'[z] = step[z]
    BY <1>2 DEF FindUser, tables, TypeOK
  <2>2. TypeOK'
    BY <1>2, <2>1 DEF TypeOK, Step
  <2>3. KnowsPresent'
    BY <2>1 DEF KnowsPresent, Checking, InForce, LinksOf
  <2>4. LoadedRoles'
    BY <1>2, <2>1 DEF LoadedRoles, KnowsPresent, Checking, LinksOf
  <2>5. \A z \in Session : step'[z] \in Checking => step[z] \in Checking
    BY <2>1 DEF Checking
  <2> QED
    BY <2>1, <2>2, <2>3, <2>4, <2>5, MiddleOfCheck DEF tables
<1> QED
  BY <1>1, <1>2 DEF FindUser

LEMMA FindLinksStep ==
  ASSUME IInv, NEW s \in Session, FindLinks(s)
  PROVE  IInv'
<1> USE DEF IInv
<1> DEFINE ids == LinksOf(user[s])
<1>1. /\ UNCHANGED <<status, hash, links, roles, rules, edits, user, request, seen>>
      /\ UNCHANGED tables
      /\ step[s] = "links"
      /\ seen[s].held \subseteq InForce(user[s])
      /\ ids \subseteq seen[s].links
      /\ ids \subseteq Role
  BY InForceTyped DEF FindLinks, tables, KnowsPresent, Checking
<1>2. \A r \in seen[s].held : RuleOf[r].role \in ids
  BY <1>1 DEF InForce
<1>3. CASE ids = {} /\ Conclude(s, "refused")
  BY <1>1, <1>3, EndOfCheck DEF Checking
<1>4. CASE /\ found' = [found EXCEPT ![s] = ids]
           /\ step' = [step EXCEPT ![s] = "roles"]
           /\ UNCHANGED decision
  <2>1. /\ step'[s] = "roles" /\ found'[s] = ids
        /\ \A z \in Session \ {s} : step'[z] = step[z] /\ found'[z] = found[z]
    BY <1>4 DEF TypeOK
  <2>2. TypeOK'
    BY <1>1, <1>4, <2>1 DEF TypeOK, Step
  <2>3. KnowsPresent'
    <3>1. \A z \in Session : step'[z] \in Checking => step[z] \in Checking
      BY <1>1, <2>1 DEF Checking
    <3>2. \A z \in Session : LinksOf(user[z])' = LinksOf(user[z]) /\ InForce(user[z])' = InForce(user[z])
      BY <1>1 DEF InForce, LinksOf
    <3> QED
      BY <1>1, <3>1, <3>2 DEF KnowsPresent
  <2>4. LoadedRoles'
    <3> SUFFICES ASSUME NEW z \in Session
        PROVE  /\ step'[z] \in {"links", "roles", "rules"} =>
                    seen'[z].enabled
               /\ step'[z] \in {"roles", "rules"} =>
                    /\ \A r \in seen'[z].held : RuleOf[r].role \in found'[z]
                    /\ found'[z] \subseteq seen'[z].links
               /\ step'[z] = "rules" =>
                    found'[z] \subseteq seen'[z].roles
      BY DEF LoadedRoles
    <3>1. CASE z = s
      BY <3>1, <1>1, <1>2, <2>1 DEF LoadedRoles, LinksOf
    <3>2. CASE z # s
      BY <3>2, <1>1, <2>1 DEF LoadedRoles, LinksOf
    <3> QED
      BY <3>1, <3>2
  <2>5. \A z \in Session : step'[z] \in Checking => step[z] \in Checking
    BY <1>1, <2>1 DEF Checking
  <2> QED
    BY <1>1, <1>4, <2>2, <2>3, <2>4, <2>5, MiddleOfCheck
<1> QED
  BY <1>3, <1>4 DEF FindLinks, Load

LEMMA FindRolesStep ==
  ASSUME IInv, NEW s \in Session, FindRoles(s)
  PROVE  IInv'
<1> USE DEF IInv
<1> DEFINE ids == found[s] \cap roles
<1>1. /\ UNCHANGED <<status, hash, links, roles, rules, edits, user, request, seen>>
      /\ UNCHANGED tables
      /\ step[s] = "roles"
      /\ seen[s].held \subseteq InForce(user[s])
      /\ ids \subseteq seen[s].roles /\ ids \subseteq roles
      /\ ids \subseteq found[s] /\ ids \subseteq Role
  BY DEF FindRoles, tables, KnowsPresent, Checking, TypeOK
<1>2. \A r \in seen[s].held : RuleOf[r].role \in ids
  BY <1>1 DEF InForce, LoadedRoles
<1>3. CASE ids = {} /\ Conclude(s, "refused")
  BY <1>1, <1>3, EndOfCheck DEF Checking
<1>4. CASE /\ found' = [found EXCEPT ![s] = ids]
           /\ step' = [step EXCEPT ![s] = "rules"]
           /\ UNCHANGED decision
  <2>1. /\ step'[s] = "rules" /\ found'[s] = ids
        /\ \A z \in Session \ {s} : step'[z] = step[z] /\ found'[z] = found[z]
    BY <1>4 DEF TypeOK
  <2>2. TypeOK'
    BY <1>1, <1>4, <2>1 DEF TypeOK, Step
  <2>3. KnowsPresent'
    BY <1>1, <2>1 DEF KnowsPresent, Checking, InForce, LinksOf
  <2>4. LoadedRoles'
    <3> SUFFICES ASSUME NEW z \in Session
        PROVE  /\ step'[z] \in {"links", "roles", "rules"} =>
                    seen'[z].enabled
               /\ step'[z] \in {"roles", "rules"} =>
                    /\ \A r \in seen'[z].held : RuleOf[r].role \in found'[z]
                    /\ found'[z] \subseteq seen'[z].links
               /\ step'[z] = "rules" =>
                    found'[z] \subseteq seen'[z].roles
      BY DEF LoadedRoles
    <3>1. CASE z = s
      BY <3>1, <1>1, <1>2, <2>1 DEF LoadedRoles, LinksOf
    <3>2. CASE z # s
      BY <3>2, <1>1, <2>1 DEF LoadedRoles, LinksOf
    <3> QED
      BY <3>1, <3>2
  <2>5. \A z \in Session : step'[z] \in Checking => step[z] \in Checking
    BY <1>1, <2>1 DEF Checking
  <2> QED
    BY <1>1, <1>4, <2>2, <2>3, <2>4, <2>5, MiddleOfCheck
<1> QED
  BY <1>3, <1>4 DEF FindRoles, Load

LEMMA FindRulesStep ==
  ASSUME IInv, NEW s \in Session, FindRules(s)
  PROVE  IInv'
<1> USE DEF IInv
<1> DEFINE some == {r \in rules : RuleOf[r].role \in found[s]}
<1>1. /\ UNCHANGED <<status, hash, links, roles, rules, edits, user, request, seen>>
      /\ UNCHANGED tables
      /\ step[s] = "rules"
      /\ seen[s].held \subseteq InForce(user[s])
      /\ some \subseteq rules /\ rules \subseteq Rule /\ rules \subseteq seen[s].rules
      /\ found[s] \subseteq seen[s].links \cap seen[s].roles
      /\ seen[s].enabled
  BY DEF FindRules, tables, KnowsPresent, LoadedRoles, Checking, TypeOK
<1>2. seen[s].held \subseteq some
  BY <1>1 DEF InForce, LoadedRoles
<1> HIDE DEF some
<1>4. CASE ~Decide(some, request[s]) /\ Conclude(s, "refused")
  BY <1>1, <1>4, EndOfCheck DEF Checking
<1>5. CASE Decide(some, request[s]) /\ Conclude(s, "granted")
  <2> DEFINE q == request[s]
  <2>1. /\ \A z \in Session \ {s} : /\ decision'[z] = decision[z] /\ step'[z] = step[z]
                                    /\ found'[z] = found[z]
        /\ decision'[s] = "granted" /\ step'[s] = "ready"
    BY <1>5 DEF Conclude, TypeOK
  <2>2. TypeOK'
    <3>1. /\ decision' \in [Session -> Decision]
          /\ step' \in [Session -> Step]
          /\ found' \in [Session -> SUBSET Role]
      BY <1>5 DEF Conclude, TypeOK, Decision, Step
    <3>2. user[s] \in User
      BY <1>1 DEF TypeOK
    <3> QED
      BY <1>1, <2>1, <3>1, <3>2 DEF TypeOK
  <2>3. KnowsPresent'
    BY <1>1, <2>1 DEF KnowsPresent, Checking, InForce, LinksOf
  <2>4. LoadedRoles'
    BY <1>1, <2>1 DEF LoadedRoles, LinksOf
  <2>5. q \in Request /\ some \in SUBSET Rule
    BY <1>1 DEF TypeOK
  <2>6. StableDenyWins'
    <3>1. \A r \in seen[s].held, t \in ProbeTopic :
            About(r, q) /\ RuleOf[r].effect = "deny" =>
              ~(Matches(RuleOf[r].filter, t) /\ Matches(q.filter, t))
      BY <1>2, <1>5, <2>5, DecideRespectsDeny, ProbeTopicAssumption
    <3> QED
      BY <1>1, <2>1, <3>1 DEF StableDenyWins, About
  <2>7. GrantHasGrounds'
    <3>1. PICK r \in some :
            /\ About(r, q) /\ RuleOf[r].effect = "allow"
            /\ \A t \in Topic : Matches(q.filter, t) => Matches(RuleOf[r].filter, t)
      BY <1>5, <2>5, DecideNeedsAllow
    <3>2. r \in seen[s].rules /\ RuleOf[r].role \in seen[s].links \cap seen[s].roles
      BY <1>1, <3>1 DEF some
    <3> QED
      BY <1>1, <2>1, <3>1, <3>2, ProbeTopicAssumption DEF GrantHasGrounds, About
  <2>9. UndecidedWhileChecking'
    BY <2>1 DEF UndecidedWhileChecking, Checking
  <2> QED
    BY <2>2, <2>3, <2>4, <2>6, <2>7, <2>9
<1> QED
  BY <1>4, <1>5 DEF FindRules, some

-----------------------------------------------------------------------------
LEMMA EditStep ==
  ASSUME IInv, Edit
  PROVE  IInv'
<1> USE DEF IInv
<1>1. /\ UNCHANGED <<user, step, request, found, decision>>
      /\ Witness
  BY DEF Edit
<1>2. /\ status' \in [User -> {"enabled", "disabled", "absent"}]
      /\ hash' \in [User -> Password]
      /\ links' \subseteq User \X Role
      /\ roles' \subseteq Role
      /\ rules' \subseteq Rule
      /\ edits' \in Nat
  BY DEF Edit, EditUser, EditPassword, EditLink, EditRole, EditRule, TypeOK
<1>3. ASSUME NEW z \in Session, step[z] \in Checking
      PROVE  /\ seen'[z] \in Seen
             /\ seen'[z].edits = seen[z].edits + 1
             /\ seen[z].enabled \/ status'[user[z]] = "enabled" => seen'[z].enabled
             /\ seen'[z].links = seen[z].links \cup LinksOf(user[z])'
             /\ seen'[z].roles = seen[z].roles \cup roles'
             /\ seen'[z].rules = seen[z].rules \cup rules'
             /\ seen'[z].held = seen[z].held \cap InForce(user[z])'
             /\ seen'[z].forces = seen[z].forces \cup {InForce(user[z])'}
  <2> DEFINE new ==
        [edits |-> seen[z].edits + 1,
         enabled |-> seen[z].enabled \/ status'[user[z]] = "enabled",
         links |-> seen[z].links \cup LinksOf(user[z])',
         roles |-> seen[z].roles \cup roles',
         rules |-> seen[z].rules \cup rules',
         held |-> seen[z].held \cap InForce(user[z])',
         forces |-> seen[z].forces \cup {InForce(user[z])'}]
  <2>1. seen'[z] = new
    BY <1>1, <1>3 DEF Witness
  <2>2. seen[z] \in Seen
    BY DEF TypeOK
  <2>3. LinksOf(user[z])' \subseteq Role /\ InForce(user[z])' \subseteq Rule
    BY <1>2 DEF LinksOf, InForce
  <2>4. new \in Seen
    <3>1. /\ seen[z].enabled \in BOOLEAN /\ seen[z].links \subseteq Role
          /\ seen[z].roles \subseteq Role /\ seen[z].rules \subseteq Rule
          /\ seen[z].held \subseteq Rule /\ seen[z].forces \subseteq SUBSET Rule
          /\ seen[z].edits \in Nat
      BY <2>2 DEF Seen
    <3>2. /\ new.enabled \in BOOLEAN /\ new.edits \in Nat
          /\ new.links \subseteq Role /\ new.roles \subseteq Role
          /\ new.rules \subseteq Rule
      BY <1>2, <2>3, <3>1
    <3>3. new.held \subseteq Rule /\ new.forces \subseteq SUBSET Rule
      BY <2>3, <3>1
    <3> QED
      BY <3>2, <3>3 DEF Seen
  <2>5. /\ new.edits = seen[z].edits + 1
        /\ seen[z].enabled \/ status'[user[z]] = "enabled" => new.enabled
    OBVIOUS
  <2>6. /\ new.links = seen[z].links \cup LinksOf(user[z])'
        /\ new.roles = seen[z].roles \cup roles'
        /\ new.rules = seen[z].rules \cup rules'
        /\ new.held = seen[z].held \cap InForce(user[z])'
        /\ new.forces = seen[z].forces \cup {InForce(user[z])'}
    OBVIOUS
  <2> HIDE DEF new
  <2> QED
    BY <2>1, <2>4, <2>5, <2>6
<1>4. ASSUME NEW z \in Session, step[z] \notin Checking
      PROVE  seen'[z] = seen[z] /\ seen'[z] \in Seen
  BY <1>1, <1>4 DEF Witness, TypeOK
<1>5. TypeOK'
  <2>1. seen' \in [Session -> Seen]
    <3>1. DOMAIN seen' = Session /\ seen' = [z \in Session |-> seen'[z]]
      BY <1>1 DEF Witness
    <3> QED
      BY <3>1, <1>3, <1>4
  <2> QED
    BY <1>1, <1>2, <2>1 DEF TypeOK
<1>6. KnowsPresent'
  BY <1>1, <1>3 DEF KnowsPresent
<1>7. LoadedRoles'
  BY <1>1, <1>3 DEF LoadedRoles, Checking
<1>8. \A z \in Session : decision[z] # "none" => seen'[z] = seen[z]
  BY <1>4 DEF UndecidedWhileChecking
<1>9. UndecidedWhileChecking'
  BY <1>1 DEF UndecidedWhileChecking
<1>10. StableDenyWins' /\ GrantHasGrounds'
  <2>1. StableDenyWins'
    BY <1>1, <1>8 DEF StableDenyWins, About
  <2>2. GrantHasGrounds'
    BY <1>1, <1>8 DEF GrantHasGrounds, About
  <2> QED
    BY <2>1, <2>2
<1> QED
  BY <1>5, <1>6, <1>7, <1>9, <1>10

LEMMA NextIInv == IInv /\ [Next]_vars => IInv'
<1> SUFFICES ASSUME IInv, [Next]_vars PROVE IInv'
  OBVIOUS
<1>1. CASE Edit
  BY <1>1, EditStep
<1>2. ASSUME NEW s \in Session, NEW u \in User, NEW p \in Password, Login(s, u, p)
      PROVE  IInv'
  BY <1>2, LoginStep
<1>3. ASSUME NEW s \in Session, NEW q \in Request, Ask(s, q)
      PROVE  IInv'
  BY <1>3, AskStep
<1>4. ASSUME NEW s \in Session, Check(s)
      PROVE  IInv'
  BY <1>4, FindUserStep, FindLinksStep, FindRolesStep, FindRulesStep, CheckFailsStep
     DEF Check
<1>5. CASE UNCHANGED vars
  <2>1. UNCHANGED <<status, hash, links, roles, rules, edits, user, step, request, found,
                    decision, seen>>
    BY <1>5 DEF vars, tables
  <2>2. TypeOK'
    BY <2>1 DEF IInv, TypeOK
  <2>3. KnowsPresent'
    BY <2>1 DEF IInv, KnowsPresent, InForce, LinksOf
  <2>4. LoadedRoles'
    BY <2>1 DEF IInv, LoadedRoles, LinksOf
  <2>5. /\ UndecidedWhileChecking'
        /\ StableDenyWins' /\ GrantHasGrounds'
    BY <2>1, MiddleOfCheck DEF tables
  <2> QED
    BY <2>2, <2>3, <2>4, <2>5 DEF IInv
<1> QED
  BY <1>1, <1>2, <1>3, <1>4, <1>5 DEF Next

LEMMA IInvHolds == Spec => []IInv
BY InitIInv, NextIInv, PTL DEF Spec

-----------------------------------------------------------------------------
(* With at most one edit a check reads as if at one moment: the rules it   *)
(* is going to decide on do not depend on how far it has come.             *)

LEMMA InitEditInv == Init => EditInv
BY DEF Init, EditInv, QuietLoaded, ComingSeen, QuietForces, OneEditExact, Checking

LEMMA ComingTyped ==
  ASSUME TypeOK, NEW s \in Session
  PROVE  Coming(s) \in SUBSET Rule
BY DEF Coming, Reaching, InForce, TypeOK

\* The answer on a set of rules is the one they mean.
LEMMA AnswerIsRight ==
  ASSUME NEW some \in SUBSET Rule, NEW q \in Request, NEW granted \in BOOLEAN,
         granted <=> Decide(some, q)
  PROVE  RightAnswer(granted, some, q)
<1>1. ASSUME q.filter \in ProbeTopic
      PROVE  granted <=> Selecting(some, q, "allow") # {} /\ Selecting(some, q, "deny") = {}
  <2>1. q.filter \in Topic
    BY <1>1, ProbeTopicAssumption
  <2>2. Decide(some, q) <=>
          /\ \E r \in some : About(r, q) /\ RuleOf[r].effect = "allow"
                             /\ Matches(RuleOf[r].filter, q.filter)
          /\ ~ \E r \in some : About(r, q) /\ RuleOf[r].effect = "deny"
                               /\ Matches(RuleOf[r].filter, q.filter)
    BY <2>1, DecideOnTopics
  <2> QED
    BY <2>2 DEF Selecting
<1> QED
  BY <1>1 DEF RightAnswer

\* A check goes on to its next SELECT.
LEMMA Advance ==
  ASSUME IInv, EditInv, NEW s \in Session, NEW next \in Checking, step[s] \in Checking,
         step' = [step EXCEPT ![s] = next],
         \A z \in Session \ {s} : found'[z] = found[z],
         UNCHANGED <<tables, user, request, decision, seen>>,
         Coming(s)' = Coming(s),
         seen[s].edits = 0 =>
           /\ next \in {"links", "roles", "rules"} => status[user[s]] = "enabled"
           /\ next = "roles" => found'[s] = LinksOf(user[s])
           /\ next = "rules" => found'[s] = LinksOf(user[s]) \cap roles
  PROVE  EditInv'
<1>1. /\ UNCHANGED <<status, hash, links, roles, rules, user, request, decision, seen>>
      /\ step'[s] = next
      /\ \A z \in Session \ {s} : step'[z] = step[z]
  BY DEF tables, IInv, TypeOK
<1>2. \A z \in Session : LinksOf(user[z])' = LinksOf(user[z])
  BY <1>1 DEF LinksOf
<1>3. QuietLoaded'
  <2> SUFFICES ASSUME NEW z \in Session, seen[z].edits = 0
      PROVE  /\ step'[z] \in {"links", "roles", "rules"} => status[user[z]] = "enabled"
             /\ step'[z] = "roles" => found'[z] = LinksOf(user[z])
             /\ step'[z] = "rules" => found'[z] = LinksOf(user[z]) \cap roles
    BY <1>1, <1>2 DEF QuietLoaded
  <2>1. CASE z = s
    BY <2>1, <1>1
  <2>2. CASE z # s
    BY <2>2, <1>1 DEF EditInv, QuietLoaded
  <2> QED
    BY <2>1, <2>2
<1>4. \A z \in Session : Coming(z)' = Coming(z)
  <2>1. \A z \in Session \ {s} : Coming(z)' = Coming(z)
    BY <1>1 DEF Coming, Reaching, InForce, LinksOf
  <2> QED
    BY <2>1
<1>5. ComingSeen'
  BY <1>1, <1>4 DEF EditInv, ComingSeen
<1>6. QuietForces'
  BY <1>1 DEF EditInv, QuietForces
<1>7. OneEditExact'
  BY <1>1 DEF EditInv, OneEditExact, RightAnswer, Selecting, About
<1> QED
  BY <1>3, <1>5, <1>6, <1>7 DEF EditInv

\* A check ends, with the answer the rules it came to give or with an error.
LEMMA Answer ==
  ASSUME IInv, EditInv, NEW s \in Session, step[s] \in Checking,
         NEW d \in {"granted", "refused", "failed"}, Conclude(s, d),
         UNCHANGED <<tables, user, request, seen>>,
         d # "failed" => (d = "granted" <=> Decide(Coming(s), request[s]))
  PROVE  EditInv'
<1>1. /\ UNCHANGED <<status, hash, links, roles, rules, user, request, seen>>
      /\ step'[s] = "ready" /\ decision'[s] = d
      /\ \A z \in Session \ {s} : /\ step'[z] = step[z] /\ found'[z] = found[z]
                                  /\ decision'[z] = decision[z]
  BY DEF Conclude, tables, IInv, TypeOK
<1>2. \A z \in Session : LinksOf(user[z])' = LinksOf(user[z])
  BY <1>1 DEF LinksOf
<1>3. QuietLoaded'
  BY <1>1, <1>2 DEF EditInv, QuietLoaded
<1>4. \A z \in Session \ {s} : Coming(z)' = Coming(z)
  BY <1>1 DEF Coming, Reaching, InForce, LinksOf
<1>5. ComingSeen'
  BY <1>1, <1>4 DEF EditInv, ComingSeen, Checking
<1>6. QuietForces'
  <2> SUFFICES ASSUME NEW z \in Session, seen[z].edits = 0,
                      step'[z] \in Checking \/ decision'[z] # "none"
      PROVE  seen[z].forces = {seen[z].held}
    BY <1>1 DEF QuietForces
  <2> QED
    BY <1>1 DEF EditInv, QuietForces
<1>7. OneEditExact'
  <2> SUFFICES ASSUME NEW z \in Session, seen[z].edits <= 1,
                      decision'[z] \in {"granted", "refused"}
      PROVE  \E some \in seen[z].forces : RightAnswer(decision'[z] = "granted", some, request[z])
    BY <1>1 DEF OneEditExact, RightAnswer, Selecting, About
  <2>1. CASE z = s
    <3>1. Coming(s) \in seen[s].forces
      BY <2>1 DEF EditInv, ComingSeen
    <3>2. Coming(s) \in SUBSET Rule /\ request[s] \in Request
      BY ComingTyped DEF IInv, TypeOK
    <3>3. (d = "granted") <=> Decide(Coming(s), request[s])
      BY <2>1, <1>1
    <3>4. RightAnswer(d = "granted", Coming(s), request[s])
      BY <3>2, <3>3, AnswerIsRight
    <3> QED
      BY <2>1, <1>1, <3>1, <3>4
  <2>2. CASE z # s
    BY <2>2, <1>1 DEF EditInv, OneEditExact
  <2> QED
    BY <2>1, <2>2
<1> QED
  BY <1>3, <1>5, <1>6, <1>7 DEF EditInv

LEMMA FindUserExact ==
  ASSUME IInv, EditInv, NEW s \in Session, FindUser(s)
  PROVE  EditInv'
<1>1. /\ step[s] = "user" /\ step[s] \in Checking
      /\ UNCHANGED <<tables, user, request, seen>>
      /\ UNCHANGED <<status, hash, links, roles, rules>>
      /\ Coming(s) = InForce(user[s])
  BY DEF FindUser, Checking, tables, Coming
<1>2. CASE status[user[s]] # "enabled" /\ Conclude(s, "refused")
  <2>1. ~Decide(Coming(s), request[s])
    BY <1>1, <1>2, DecideNothing DEF InForce
  <2> QED
    BY <1>1, <1>2, <2>1, Answer
<1>3. CASE /\ status[user[s]] = "enabled"
           /\ step' = [step EXCEPT ![s] = "links"]
           /\ UNCHANGED <<decision, found>>
  <2>1. step'[s] = "links" /\ "links" \in Checking
    BY <1>3 DEF IInv, TypeOK, Checking
  <2>2. Coming(s)' = Coming(s)
    <3>1. InForce(user[s]) = Reaching(LinksOf(user[s]) \cap roles)
      BY <1>3 DEF InForce, Reaching
    <3> QED
      BY <1>1, <2>1, <3>1 DEF Coming, Reaching, LinksOf
  <2> QED
    BY <1>1, <1>3, <2>1, <2>2, Advance
<1> QED
  BY <1>2, <1>3 DEF FindUser

LEMMA FindLinksExact ==
  ASSUME IInv, EditInv, NEW s \in Session, FindLinks(s)
  PROVE  EditInv'
<1>1. /\ step[s] = "links" /\ step[s] \in Checking
      /\ UNCHANGED <<tables, user, request, seen>>
      /\ UNCHANGED <<status, hash, links, roles, rules>>
      /\ Coming(s) = Reaching(LinksOf(user[s]) \cap roles)
  BY DEF FindLinks, Checking, tables, Coming
<1>2. CASE LinksOf(user[s]) = {} /\ Conclude(s, "refused")
  <2>1. Coming(s) = {}
    BY <1>1, <1>2 DEF Reaching
  <2> QED
    BY <1>1, <1>2, <2>1, DecideNothing, Answer
<1>3. CASE /\ found' = [found EXCEPT ![s] = LinksOf(user[s])]
           /\ step' = [step EXCEPT ![s] = "roles"]
           /\ UNCHANGED decision
  <2>1. /\ step'[s] = "roles" /\ "roles" \in Checking
        /\ found'[s] = LinksOf(user[s])
        /\ \A z \in Session \ {s} : found'[z] = found[z]
    BY <1>3 DEF IInv, TypeOK, Checking
  <2>2. Coming(s)' = Coming(s)
    BY <1>1, <2>1 DEF Coming, Reaching
  <2>3. seen[s].edits = 0 => status[user[s]] = "enabled"
    BY <1>1 DEF EditInv, QuietLoaded
  <2> QED
    BY <1>1, <1>3, <2>1, <2>2, <2>3, Advance
<1> QED
  BY <1>2, <1>3 DEF FindLinks, Load

LEMMA FindRolesExact ==
  ASSUME IInv, EditInv, NEW s \in Session, FindRoles(s)
  PROVE  EditInv'
<1>1. /\ step[s] = "roles" /\ step[s] \in Checking
      /\ UNCHANGED <<tables, user, request, seen>>
      /\ UNCHANGED <<status, hash, links, roles, rules>>
      /\ Coming(s) = Reaching(found[s] \cap roles)
  BY DEF FindRoles, Checking, tables, Coming
<1>2. CASE found[s] \cap roles = {} /\ Conclude(s, "refused")
  <2>1. Coming(s) = {}
    BY <1>1, <1>2 DEF Reaching
  <2> QED
    BY <1>1, <1>2, <2>1, DecideNothing, Answer
<1>3. CASE /\ found' = [found EXCEPT ![s] = found[s] \cap roles]
           /\ step' = [step EXCEPT ![s] = "rules"]
           /\ UNCHANGED decision
  <2>1. /\ step'[s] = "rules" /\ "rules" \in Checking
        /\ found'[s] = found[s] \cap roles
        /\ \A z \in Session \ {s} : found'[z] = found[z]
    BY <1>3 DEF IInv, TypeOK, Checking
  <2>2. Coming(s)' = Coming(s)
    BY <1>1, <2>1 DEF Coming, Reaching
  <2>3. seen[s].edits = 0 => status[user[s]] = "enabled" /\ found[s] = LinksOf(user[s])
    BY <1>1 DEF EditInv, QuietLoaded
  <2> QED
    BY <1>1, <1>3, <2>1, <2>2, <2>3, Advance
<1> QED
  BY <1>2, <1>3 DEF FindRoles, Load

LEMMA FindRulesExact ==
  ASSUME IInv, EditInv, NEW s \in Session, FindRules(s)
  PROVE  EditInv'
<1>1. /\ step[s] \in Checking
      /\ UNCHANGED <<tables, user, request, seen>>
      /\ Conclude(s, IF Decide(Coming(s), request[s]) THEN "granted" ELSE "refused")
  BY DEF FindRules, Checking, Coming, Reaching
<1>2. CASE Decide(Coming(s), request[s])
  BY <1>1, <1>2, Answer
<1>3. CASE ~Decide(Coming(s), request[s])
  BY <1>1, <1>3, Answer
<1> QED
  BY <1>2, <1>3

LEMMA CheckFailsExact ==
  ASSUME IInv, EditInv, NEW s \in Session, CheckFails(s)
  PROVE  EditInv'
BY Answer DEF CheckFails

LEMMA LoginExact ==
  ASSUME IInv, EditInv, NEW s \in Session, NEW u \in User, NEW p \in Password, Login(s, u, p)
  PROVE  EditInv'
<1>1. /\ UNCHANGED <<status, hash, links, roles, rules, request, found, decision, seen>>
      /\ \A z \in Session :
           step'[z] \in Checking => step'[z] = step[z] /\ user'[z] = user[z]
  BY DEF Login, tables, IInv, TypeOK, Checking
<1>2. QuietLoaded'
  BY <1>1 DEF EditInv, QuietLoaded, Checking, LinksOf
<1>3. ComingSeen'
  <2>1. \A z \in Session : step'[z] \in Checking => Coming(z)' = Coming(z)
    BY <1>1 DEF Coming, Reaching, InForce, LinksOf
  <2> QED
    BY <1>1, <2>1 DEF EditInv, ComingSeen
<1>4. QuietForces'
  BY <1>1 DEF EditInv, QuietForces
<1>5. OneEditExact'
  BY <1>1 DEF EditInv, OneEditExact, RightAnswer, Selecting, About
<1> QED
  BY <1>2, <1>3, <1>4, <1>5 DEF EditInv

LEMMA AskExact ==
  ASSUME IInv, EditInv, NEW s \in Session, NEW q \in Request, Ask(s, q)
  PROVE  EditInv'
<1>1. /\ UNCHANGED <<status, hash, links, roles, rules, user, found>>
      /\ step'[s] = "user" /\ decision'[s] = "none"
      /\ seen'[s].held = InForce(user[s]) /\ seen'[s].forces = {InForce(user[s])}
      /\ \A z \in Session \ {s} : /\ seen'[z] = seen[z] /\ step'[z] = step[z]
                                  /\ request'[z] = request[z] /\ decision'[z] = decision[z]
  BY DEF Ask, tables, IInv, TypeOK
<1>2. QuietLoaded'
  BY <1>1 DEF EditInv, QuietLoaded, LinksOf
<1>3. ComingSeen'
  <2> SUFFICES ASSUME NEW z \in Session, step'[z] \in Checking, seen'[z].edits <= 1
      PROVE  Coming(z)' \in seen'[z].forces
    BY DEF ComingSeen
  <2>1. CASE z = s
    <3>1. Coming(z)' = InForce(user[s])
      BY <2>1, <1>1 DEF Coming, InForce, LinksOf
    <3> QED
      BY <2>1, <3>1, <1>1
  <2>2. CASE z # s
    <3>1. Coming(z)' = Coming(z)
      BY <2>2, <1>1 DEF Coming, Reaching, InForce, LinksOf
    <3> QED
      BY <2>2, <3>1, <1>1 DEF EditInv, ComingSeen
  <2> QED
    BY <2>1, <2>2
<1>4. QuietForces'
  BY <1>1 DEF EditInv, QuietForces
<1>5. OneEditExact'
  BY <1>1 DEF EditInv, OneEditExact, RightAnswer, Selecting, About
<1> QED
  BY <1>2, <1>3, <1>4, <1>5 DEF EditInv

\* The first edit of a check: its table has been read, and then nothing changes
\* for the check, or is still to be read, and then the check reads what is in force.
LEMMA FirstEdit ==
  ASSUME IInv, EditInv, Edit, NEW s \in Session, step[s] \in Checking, seen[s].edits = 0
  PROVE  Coming(s)' = Coming(s) \/ Coming(s)' = InForce(user[s])'
<1>1. UNCHANGED <<user, step, found>>
  BY DEF Edit
<1>2. CASE step[s] = "user"
  BY <1>1, <1>2 DEF Coming
<1>3. CASE step[s] = "links"
  <2>1. status[user[s]] = "enabled"
    BY <1>3 DEF EditInv, QuietLoaded
  <2>2. CASE EditUser \/ EditPassword
    BY <1>1, <1>3, <2>2 DEF EditUser, EditPassword, Coming, Reaching, LinksOf
  <2>3. CASE EditLink \/ EditRole \/ EditRule
    <3>1. status'[user'[s]] = "enabled"
      BY <1>1, <2>1, <2>3 DEF EditLink, EditRole, EditRule
    <3> QED
      BY <1>1, <1>3, <3>1 DEF Coming, Reaching, InForce
  <2> QED
    BY <2>2, <2>3 DEF Edit
<1>4. CASE step[s] = "roles"
  <2>1. status[user[s]] = "enabled" /\ found[s] = LinksOf(user[s])
    BY <1>4 DEF EditInv, QuietLoaded
  <2>2. CASE EditUser \/ EditPassword \/ EditLink
    BY <1>1, <1>4, <2>2 DEF EditUser, EditPassword, EditLink, Coming, Reaching
  <2>3. CASE EditRole \/ EditRule
    <3>1. status'[user'[s]] = "enabled" /\ found'[s] = LinksOf(user[s])'
      BY <1>1, <2>1, <2>3 DEF EditRole, EditRule, LinksOf
    <3> QED
      BY <1>1, <1>4, <3>1 DEF Coming, Reaching, InForce
  <2> QED
    BY <2>2, <2>3 DEF Edit
<1>5. CASE step[s] = "rules"
  <2>1. status[user[s]] = "enabled" /\ found[s] = LinksOf(user[s]) \cap roles
    BY <1>5 DEF EditInv, QuietLoaded
  <2>2. CASE EditUser \/ EditPassword \/ EditLink \/ EditRole
    BY <1>1, <1>5, <2>2 DEF EditUser, EditPassword, EditLink, EditRole, Coming, Reaching
  <2>3. CASE EditRule
    <3>1. status'[user'[s]] = "enabled" /\ found'[s] = LinksOf(user[s])' \cap roles'
      BY <1>1, <2>1, <2>3 DEF EditRule, LinksOf
    <3> QED
      BY <1>1, <1>5, <3>1 DEF Coming, Reaching, InForce
  <2> QED
    BY <2>2, <2>3 DEF Edit
<1> QED
  BY <1>2, <1>3, <1>4, <1>5 DEF Checking

LEMMA EditExact ==
  ASSUME IInv, EditInv, Edit
  PROVE  EditInv'
<1>1. UNCHANGED <<user, step, request, found, decision>> /\ Witness
  BY DEF Edit
<1>2. ASSUME NEW z \in Session, step[z] \in Checking
      PROVE  /\ seen'[z].edits = seen[z].edits + 1
             /\ seen'[z].forces = seen[z].forces \cup {InForce(user[z])'}
             /\ seen[z].edits \in Nat
  <2>1. seen[z].edits \in Nat
    BY DEF IInv, TypeOK, Seen
  <2> QED
    BY <1>1, <1>2, <2>1 DEF Witness
<1>3. ASSUME NEW z \in Session, step[z] \notin Checking
      PROVE  seen'[z] = seen[z]
  BY <1>1, <1>3 DEF Witness
<1>4. \A z \in Session : step[z] \in Checking => seen'[z].edits # 0
  BY <1>2
<1>5. QuietLoaded'
  BY <1>1, <1>4 DEF QuietLoaded, Checking
<1>6. ComingSeen'
  <2> SUFFICES ASSUME NEW z \in Session, step[z] \in Checking, seen'[z].edits <= 1
      PROVE  Coming(z)' \in seen'[z].forces
    BY <1>1 DEF ComingSeen
  <2>1. seen[z].edits = 0
    BY <1>2
  <2>2. Coming(z) \in seen[z].forces
    BY <2>1 DEF EditInv, ComingSeen
  <2> QED
    BY <2>1, <2>2, <1>2, FirstEdit
<1>7. QuietForces'
  BY <1>1, <1>3, <1>4 DEF EditInv, QuietForces
<1>8. \A z \in Session : decision[z] # "none" => seen'[z] = seen[z]
  BY <1>3 DEF IInv, UndecidedWhileChecking
<1>9. OneEditExact'
  BY <1>1, <1>8 DEF EditInv, OneEditExact, RightAnswer, Selecting, About
<1> QED
  BY <1>5, <1>6, <1>7, <1>9 DEF EditInv

LEMMA NextEditInv == IInv /\ EditInv /\ [Next]_vars => EditInv'
<1> SUFFICES ASSUME IInv, EditInv, [Next]_vars PROVE EditInv'
  OBVIOUS
<1>1. CASE Edit
  BY <1>1, EditExact
<1>2. ASSUME NEW s \in Session, NEW u \in User, NEW p \in Password, Login(s, u, p)
      PROVE  EditInv'
  BY <1>2, LoginExact
<1>3. ASSUME NEW s \in Session, NEW q \in Request, Ask(s, q)
      PROVE  EditInv'
  BY <1>3, AskExact
<1>4. ASSUME NEW s \in Session, Check(s)
      PROVE  EditInv'
  BY <1>4, FindUserExact, FindLinksExact, FindRolesExact, FindRulesExact, CheckFailsExact
     DEF Check
<1>5. CASE UNCHANGED vars
  <2>1. UNCHANGED <<status, hash, links, roles, rules, user, step, request, found,
                    decision, seen>>
    BY <1>5 DEF vars, tables
  <2>2. QuietLoaded' /\ QuietForces'
    BY <2>1 DEF EditInv, QuietLoaded, QuietForces, LinksOf
  <2>3. ComingSeen'
    <3>1. \A z \in Session : Coming(z)' = Coming(z)
      BY <2>1 DEF Coming, Reaching, InForce, LinksOf
    <3> QED
      BY <2>1, <3>1 DEF EditInv, ComingSeen
  <2>4. OneEditExact'
    BY <2>1 DEF EditInv, OneEditExact, RightAnswer, Selecting, About
  <2> QED
    BY <2>2, <2>3, <2>4 DEF EditInv
<1> QED
  BY <1>1, <1>2, <1>3, <1>4, <1>5 DEF Next

LEMMA EditInvHolds == Spec => []EditInv
BY InitEditInv, NextEditInv, IInvHolds, PTL DEF Spec

-----------------------------------------------------------------------------
\* Every variable of the access check keeps its type: a session past its login
\* has a user, and what a check loads are rows of the tables.
THEOREM TypeCorrect == Spec => []TypeOK
<1>1. IInv => TypeOK
  BY DEF IInv
<1> QED
  BY <1>1, IInvHolds, PTL

\* A deny rule in force during the whole check is obeyed, for every table,
\* filter and order of edits (auth.go:51).
THEOREM StableDeny == Spec => []StableDenyWins
<1>1. IInv => StableDenyWins
  BY DEF IInv
<1> QED
  BY <1>1, IInvHolds, PTL

\* A grant rests on an enabled user, and on a rule, a role and a link that all
\* existed during the check (auth.go:54).
THEOREM Grounds == Spec => []GrantHasGrounds
<1>1. IInv => GrantHasGrounds
  BY DEF IInv
<1> QED
  BY <1>1, IInvHolds, PTL

\* A check with at most one edit during it decides as if it had read all tables
\* at one moment, for every table, filter and session (auth.go:45-59;
\* repo/auth.go:21).
THEOREM OneEdit == Spec => []OneEditExact
<1>1. EditInv => OneEditExact
  BY DEF EditInv
<1> QED
  BY <1>1, EditInvHolds, PTL

(* Without an edit that moment is the whole check.                         *)
QuietPublishExact ==
  \A s \in Session :
    seen[s].edits = 0 /\ decision[s] \in {"granted", "refused"} =>
      RightAnswer(decision[s] = "granted", seen[s].held, request[s])

\* A check nothing is edited during is answered by the rules in force, and a
\* publisher by what they mean (auth.go:45-59).
THEOREM QuietExact == Spec => []QuietPublishExact
<1>1. EditInv => QuietPublishExact
  <2> SUFFICES ASSUME EditInv, NEW s \in Session, seen[s].edits = 0,
                      decision[s] \in {"granted", "refused"}
      PROVE  RightAnswer(decision[s] = "granted", seen[s].held, request[s])
    BY DEF QuietPublishExact
  <2>1. seen[s].forces = {seen[s].held}
    BY DEF EditInv, QuietForces
  <2>2. PICK some \in seen[s].forces : RightAnswer(decision[s] = "granted", some, request[s])
    BY DEF EditInv, OneEditExact
  <2> QED
    BY <2>1, <2>2
<1> QED
  BY <1>1, EditInvHolds, PTL
=============================================================================
