--------------------------- MODULE AccessControl ---------------------------
(***************************************************************************)
(* Access control: the validation of the configured rules                  *)
(* (configuration/validator/access_control.go), the authorizer built from  *)
(* them (internal/authorization), the answer of the authorization          *)
(* endpoints (handler_authz.go), the portal's answer to a login            *)
(* (handlers/response.go) and the command access-control check-policy      *)
(* (commands/acl.go).                                                      *)
(*                                                                         *)
(* A pattern is the set of texts it matches with what its named groups     *)
(* capture.  A domain is <<label, zone>>, a path <<word, rest>>; the       *)
(* comparisons that fold case are equalities.  The lists of a rule that    *)
(* mean OR and AND are sets of sets.                                       *)
(***************************************************************************)
EXTENDS Naturals, Sequences, FiniteSets, WellFoundedInduction, TLAPS

CONSTANTS Users, Groups, Clients, IPs,
          Domains, Methods,
          Objects,       \* bound: the objects asked for
          Empty,         \* the empty string: no user, client, label or value
          Language,      \* the values each regular expression text matches
          CookieZones,   \* domains with a session cookie configuration
          GroupsOf,      \* the groups of each user
          Configs        \* configurations the server may be started with

\* The rules of a configuration are a list.
ASSUME ConfigsAssumption ==
    \A c \in Configs : Len(c.rules) \in Nat /\ DOMAIN c.rules = 1 .. Len(c.rules)

ASSUME ObjectsAssumption == Objects # {}
ASSUME VisitorsAssumption == Empty \notin Users

VARIABLES
    config,      \* the configuration file
    authorizer,  \* the authorizer of the running server
    ip,          \* the visitor's address
    visitor,     \* the session's user, Empty when anonymous
    level,       \* its authentication level
    object,      \* the object last asked for
    reply        \* the last answer

vars == <<config, authorizer, ip, visitor, level, object, reply>>

Absent == "absent"      \* a query parameter the URL does not have

Policies == {"bypass", "one_factor", "two_factor", "deny"}

Subjects == [username : Users \cup {Empty}, groups : SUBSET Groups,
             client : Clients \cup {Empty}, ip : IPs]

IsAnonymous(s) == s.username = Empty /\ s.groups = {} /\ s.client = Empty

----------------------------------------------------------------------------
(* Matchers.                                                               *)

Matcher(names, texts) ==
    [names |-> names,
     capture |-> [t \in texts |-> [User |-> t[1], Group |-> t[1]]]]

Below(zone) == {d \in Domains : d[2] = zone /\ d[1] # Empty}

NewAccessControlDomain(d) ==
    CASE d.form = "wildcard" -> Matcher({}, Below(d.zone))
      [] d.form = "token"    -> Matcher({d.name}, Below(d.zone))
      [] d.form = "regex"    -> d.matcher
      [] OTHER               -> Matcher({}, {d.domain})

\* A pattern with named groups matches an anonymous subject whoever the
\* groups name.
MatchesText(m, t, s) ==
    /\ t \in DOMAIN m.capture
    /\ \/ IsAnonymous(s)
       \/ /\ "User" \in m.names => s.username = m.capture[t].User
          /\ "Group" \in m.names => m.capture[t].Group \in s.groups

\* url.Values.Get gives the empty string for a parameter that is not there.
Get(o, key) == IF o.query[key] = Absent THEN Empty ELSE o.query[key]

\* An item NewAccessControlQueryObjectMatcher can not build a matcher for, its
\* operator unknown or its value of the wrong type, is left out.
HasMatcher(q) ==
    \/ q.operator \in {"present", "absent"}
    \/ q.operator \in {"equal", "not equal"} /\ q.type = "string"
    \/ q.operator \in {"pattern", "not pattern"} /\ q.type = "regexp"

MatchesItem(q, o) ==
    CASE q.operator = "present"     -> o.query[q.key] # Absent
      [] q.operator = "absent"      -> o.query[q.key] = Absent
      [] q.operator = "equal"       -> Get(o, q.key) = q.value
      [] q.operator = "not equal"   -> Get(o, q.key) # q.value
      [] q.operator = "pattern"     -> Get(o, q.key) \in Language[q.value]
      [] q.operator = "not pattern" -> Get(o, q.key) \notin Language[q.value]

NewAccessControlQuery(query) == {{q \in all : HasMatcher(q)} : all \in query}

MatchesSubject(p, s) ==
    CASE p[1] = "user"   -> s.username = p[2]
      [] p[1] = "group"  -> p[2] \in s.groups
      [] p[1] = "client" -> s.client = p[2]

\* A list of subjects with no known prefix, or an empty one, is left out.
NewSubjects(subjects) ==
    {{p \in all : p[1] \in {"user", "group", "client"}} : all \in subjects}
        \ {{}}

HasNames(matchers) == \E m \in matchers : m.names # {}

NewAccessControlRule(r) ==
    LET domains == {NewAccessControlDomain(d) : d \in r.domains}
    IN  [domains |-> domains, resources |-> r.resources,
         query |-> NewAccessControlQuery(r.query),
         methods |-> r.methods, networks |-> r.networks,
         subjects |-> NewSubjects(r.subjects),
         hasSubjects |-> \/ NewSubjects(r.subjects) # {}
                         \/ HasNames(domains) \/ HasNames(r.resources),
         policy |-> IF r.policy \in Policies THEN r.policy ELSE "deny"]

----------------------------------------------------------------------------
(* Rules.                                                                  *)

MatchesDomains(r, s, o) ==
    r.domains = {} \/ \E m \in r.domains : MatchesText(m, o.domain, s)

MatchesResources(r, s, o) ==
    r.resources = {} \/ \E m \in r.resources : MatchesText(m, o.path, s)

MatchesQuery(r, o) ==
    \/ r.query = {}
    \/ \E all \in r.query : \A q \in all : MatchesItem(q, o)

MatchesMethods(r, o) == r.methods = {} \/ o.method \in r.methods

MatchesNetworks(r, s) ==
    r.networks = {} \/ \E n \in r.networks : s.ip \in n

MatchesSubjectExact(r, s) ==
    \/ r.subjects = {}
    \/ /\ ~IsAnonymous(s)
       /\ \E all \in r.subjects : \A p \in all : MatchesSubject(p, s)

MatchesSubjects(r, s) == IsAnonymous(s) \/ MatchesSubjectExact(r, s)

MatchesRequest(r, s, o) ==
    /\ MatchesDomains(r, s, o) /\ MatchesResources(r, s, o)
    /\ MatchesQuery(r, o) /\ MatchesMethods(r, o) /\ MatchesNetworks(r, s)

IsMatch(r, s, o) == MatchesRequest(r, s, o) /\ MatchesSubjects(r, s)

First(S) == CHOOSE i \in S : \A j \in S : i <= j

Last(S) == CHOOSE i \in S : \A j \in S : i >= j

\* Position of the rule that is applied, 0 for the default policy.
AppliedRule(a, s, o) ==
    LET hits == {i \in DOMAIN a.rules : IsMatch(a.rules[i], s, o)}
    IN  IF hits = {} THEN 0 ELSE First(hits)

GetRequiredLevel(a, s, o) ==
    LET i == AppliedRule(a, s, o)
    IN  IF i = 0 THEN [hasSubjects |-> FALSE, policy |-> a.default]
        ELSE [hasSubjects |-> a.rules[i].hasSubjects,
              policy |-> a.rules[i].policy]

NewAuthorizer(c) ==
    [default |-> c.default,
     rules |-> [i \in DOMAIN c.rules |-> NewAccessControlRule(c.rules[i])],
     mfa |-> \/ c.default = "two_factor"
             \/ \E i \in DOMAIN c.rules : c.rules[i].policy = "two_factor"
             \/ "two_factor" \in c.clientPolicies]

----------------------------------------------------------------------------
(* Validation of the configuration, which also sets defaults.              *)

Operators ==
    {"present", "absent", "equal", "not equal", "pattern", "not pattern"}

\* Operators are recognised in any spelling, here in capitals.
Fold(op) ==
    CASE op = "EQUAL" -> "equal"
      [] op = "PATTERN" -> "pattern"
      [] OTHER -> op

DefaultOperator(q) ==
    IF q.operator = "" /\ q.key # Empty
    THEN [q EXCEPT !.operator =
            IF q.type = "nil" \/ q.value = Empty THEN "present" ELSE "equal"]
    ELSE q

ValidItem(q) ==
    /\ q.operator # "" => Fold(q.operator) \in Operators
    /\ q.key # Empty
    /\ LET op == DefaultOperator(q).operator
       IN  CASE q.type = "nil" -> op \in {"present", "absent"}
             [] q.type = "string" /\ op \in {"present", "absent"} ->
                  q.value = Empty
             [] q.type = "string" /\ op \in {"pattern", "not pattern"} ->
                  q.value \in DOMAIN Language
             [] q.type = "string" -> TRUE
             [] OTHER -> FALSE

Compiled(q) ==
    IF q.operator \in {"pattern", "not pattern"} /\ q.type = "string"
    THEN [q EXCEPT !.type = "regexp"] ELSE q

ValidBypass(r) ==
    /\ r.subjects = {}
    /\ \A d \in r.domains : d.form = "regex" => d.matcher.names = {}
    /\ \A d \in r.domains : d.form # "token"

ValidRule(r, c) ==
    /\ r.domains # {}
    /\ r.policy \in Policies
    /\ \A all \in r.subjects, p \in UNION r.subjects :
         /\ p[1] \in {"user", "group", "client"}
         /\ p[1] = "client" /\ p[2] # Empty => p[2] \in c.clients
    /\ r.methods \subseteq Methods
    /\ \A all \in r.query : \A q \in all : ValidItem(q)
    /\ r.policy = "bypass" => ValidBypass(r)

\* ValidateAccessControl, the only validation check-policy does.
ValidateAccessControl(c) ==
    [default |-> IF c.default = "" THEN "deny" ELSE c.default,
     rules |-> c.rules, clients |-> c.clients,
     clientPolicies |-> c.clientPolicies]

ValidatedRule(r) ==
    [domains |-> r.domains, resources |-> r.resources,
     query |-> {{Compiled(DefaultOperator(q)) : q \in all} : all \in r.query},
     methods |-> r.methods, networks |-> r.networks,
     subjects |-> r.subjects, policy |-> r.policy]

ValidateRules(c) ==
    [default |-> c.default,
     rules |-> [i \in DOMAIN c.rules |-> ValidatedRule(c.rules[i])],
     clients |-> c.clients, clientPolicies |-> c.clientPolicies]

Valid(c) ==
    /\ ValidateAccessControl(c).default \in Policies
    /\ \/ c.rules # <<>>
       \/ ValidateAccessControl(c).default \in {"one_factor", "two_factor"}
    /\ \A i \in DOMAIN c.rules : ValidRule(c.rules[i], c)

----------------------------------------------------------------------------
(* access-control check-policy.                                            *)

RuleMatch(r, s, o) == MatchesRequest(r, s, o) /\ MatchesSubjectExact(r, s)

RulePotentialMatch(r, s, o) ==
    /\ MatchesRequest(r, s, o)
    /\ MatchesSubjects(r, s) /\ ~MatchesSubjectExact(r, s)

NotSkipped_All(a, s, o) == DOMAIN a.rules

\* Rules after the first match are skipped.
NotSkipped(a, s, o) ==
    {i \in DOMAIN a.rules :
        \A j \in 1 .. i - 1 : ~RuleMatch(a.rules[j], s, o)}

\* Position of the rule the command says will be, or will potentially be,
\* applied to the request, 0 for the default policy.
AccessControlCheck(c, s, o) ==
    LET a == NewAuthorizer(ValidateAccessControl(c))
        shown == NotSkipped(a, s, o)
        applied == {i \in shown : RuleMatch(a.rules[i], s, o)}
        potential == {i \in shown : RulePotentialMatch(a.rules[i], s, o)}
    IN  CASE /\ applied # {}
             /\ potential = {} \/ First(potential) > Last(applied) ->
               Last(applied)
          [] potential # {} /\ (applied = {} \/ First(potential) <= Last(applied)) ->
               First(potential)
          [] OTHER -> 0

----------------------------------------------------------------------------
(* The server.                                                             *)

NoAuthorizer == [default |-> "deny", rules |-> <<>>, mfa |-> FALSE]

Built(c) == NewAuthorizer(ValidateRules(ValidateAccessControl(c)))

NoObject == CHOOSE o \in Objects : TRUE

Init ==
    /\ config \in Configs
    /\ authorizer = NoAuthorizer
    /\ ip \in IPs
    /\ visitor = Empty
    /\ level = 0
    /\ object = NoObject
    /\ reply = "stopped"

Start ==
    /\ reply = "stopped"
    /\ Valid(config)
    /\ authorizer' = Built(config)
    /\ reply' = "started"
    /\ UNCHANGED <<config, ip, visitor, level, object>>

Refuse ==
    /\ reply = "stopped"
    /\ ~Valid(config)
    /\ reply' = "refused"
    /\ UNCHANGED <<config, authorizer, ip, visitor, level, object>>

Running == reply \notin {"stopped", "refused"}

SubjectOf(u, a) ==
    [username |-> u, groups |-> IF u = Empty THEN {} ELSE GroupsOf[u],
     client |-> Empty, ip |-> a]

Anonymous(s) == SubjectOf(Empty, s.ip)

isAuthzResult_DenyAll(l, required) ==
    CASE required.policy = "bypass" -> "authorized"
      [] required.policy = "deny" -> "forbidden"
      [] required.policy = "one_factor" /\ l >= 1 -> "authorized"
      [] required.policy = "two_factor" /\ l >= 2 -> "authorized"
      [] OTHER -> "unauthorized"

\* An anonymous subject is not denied by a rule about subjects: the rule may
\* not be the one that matches the user.
isAuthzResult(l, required) ==
    CASE required.policy = "bypass" -> "authorized"
      [] required.policy = "deny" /\ (l # 0 \/ ~required.hasSubjects) ->
           "forbidden"
      [] required.policy = "one_factor" /\ l >= 1 -> "authorized"
      [] required.policy = "two_factor" /\ l >= 2 -> "authorized"
      [] OTHER -> "unauthorized"

Decision(a, l, s, o) == isAuthzResult(l, GetRequiredLevel(a, s, o))

Handler(o) ==
    /\ Running
    /\ object' = o
    /\ reply' = IF o.domain[2] \notin CookieZones THEN "bad request"
                ELSE Decision(authorizer, level, SubjectOf(visitor, ip), o)
    /\ UNCHANGED <<config, authorizer, ip, visitor, level>>

\* A strategy returns an error, so the request is anonymous.  An error in a
\* header is answered by the strategy that read it, unless the rule is about
\* subjects or a bypass.
Handler_Error(o, header) ==
    /\ Running
    /\ o.domain[2] \in CookieZones
    /\ object' = o
    /\ LET required == GetRequiredLevel(authorizer, SubjectOf(Empty, ip), o)
       IN  reply' = IF /\ header
                       /\ ~required.hasSubjects
                       /\ required.policy # "bypass"
                    THEN "unauthorized" ELSE isAuthzResult(0, required)
    /\ UNCHANGED <<config, authorizer, ip, visitor, level>>

\* The portal sends the browser back to the object, or keeps it.
Safe(o) == o.domain[2] \in CookieZones

Handle1FAResponse_NoGroups(u) ==
    /\ Running
    /\ reply = "unauthorized"
    /\ level = 0
    /\ visitor' = u
    /\ level' = 1
    /\ LET required == GetRequiredLevel(authorizer,
                         [SubjectOf(u, ip) EXCEPT !.groups = {}], object)
       IN  reply' = IF required.policy # "two_factor" /\ Safe(object)
                    THEN "redirect" ELSE "portal"
    /\ UNCHANGED <<config, authorizer, ip, object>>

Handle1FAResponse(u) ==
    /\ Running
    /\ reply = "unauthorized"
    /\ level = 0
    /\ visitor' = u
    /\ level' = 1
    /\ LET required == GetRequiredLevel(authorizer, SubjectOf(u, ip), object)
       IN  reply' = IF required.policy # "two_factor" /\ Safe(object)
                    THEN "redirect" ELSE "portal"
    /\ UNCHANGED <<config, authorizer, ip, object>>

Handle2FAResponse ==
    /\ reply \in {"unauthorized", "portal"}
    /\ level = 1
    /\ level' = 2
    /\ reply' = IF Safe(object) THEN "redirect" ELSE "portal"
    /\ UNCHANGED <<config, authorizer, ip, visitor, object>>

Next ==
    \/ Start \/ Refuse
    \/ \E o \in Objects :
         \/ Handler(o)
         \/ \E header \in BOOLEAN : Handler_Error(o, header)
    \/ \E u \in Users : Handle1FAResponse(u)
    \/ Handle2FAResponse

Spec == Init /\ [][Next]_vars

----------------------------------------------------------------------------
\* Types of the variables.
TypeOKAccess ==
    /\ config \in Configs
    /\ authorizer.default \in Policies
    /\ \A i \in DOMAIN authorizer.rules : authorizer.rules[i].policy \in Policies
    /\ visitor \in Users \cup {Empty}
    /\ ip \in IPs
    /\ level \in 0 .. 2
    /\ level = 0 <=> visitor = Empty
    /\ object \in Objects
    /\ reply \in {"stopped", "started", "refused", "bad request", "redirect",
                  "portal", "authorized", "unauthorized", "forbidden"}

\* What the server does with every request is settled when it has started:
\* the authorizer does not change after that.
Started == reply = "started"

Identities == {SubjectOf(u, a) : u \in Users, a \in IPs} \cup
              [username : {Empty}, groups : {{}}, client : Clients, ip : IPs]

\* "Anyone" may use what an anonymous visitor may use: in a configuration the
\* validation accepts, whoever logs in or presents a token from the same
\* address is authorized as well ("This policy skips all authentication and
\* allows anyone to use the resource", access-control.md).
BypassIsForAnyone ==
    Started => \A s \in Identities, o \in Objects :
        Decision(authorizer, 0, Anonymous(s), o) = "authorized"
        => Decision(authorizer, 1, s, o) = "authorized"

\* Forbidden is final ("can safely conclude their access is actually
\* forbidden", isAuthzResult): no login and no further factor from the same
\* address would be authorized.
ForbiddenIsFinal ==
    Started => \A s \in Identities, o \in Objects :
        /\ Decision(authorizer, 0, Anonymous(s), o) = "forbidden"
           => \A l \in 1 .. 2 : Decision(authorizer, l, s, o) = "forbidden"
        /\ Decision(authorizer, 1, s, o) = "forbidden"
           => Decision(authorizer, 2, s, o) = "forbidden"

\* When the portal sends the browser back to the object it came from, the
\* authorization endpoint does not send it to the portal again: the two ask
\* the authorizer about the same subject.
NoLoginLoop ==
    reply = "redirect" =>
        Decision(authorizer, level, SubjectOf(visitor, ip), object)
            # "unauthorized"

\* A request can only need a second factor when second factors are enabled.
SecondFactorEnabled ==
    Started => \A s \in Identities, o \in Objects :
        GetRequiredLevel(authorizer, s, o).policy = "two_factor"
        => authorizer.mfa

\* The operators of the query criteria are written out and need no compiling,
\* which the command leaves out.
Explicit(c) ==
    \A i \in DOMAIN c.rules : \A all \in c.rules[i].query : \A q \in all :
        q.operator \in {"present", "absent", "equal", "not equal"}

\* What check-policy says of a request, anonymous or not, is what the server
\* does: "determine what policy would be applied" (commands/const.go).
CheckPolicyAgrees ==
    Started /\ Explicit(config) =>
        \A s \in Identities \cup {SubjectOf(Empty, a) : a \in IPs},
           o \in Objects :
            AccessControlCheck(config, s, o) = AppliedRule(authorizer, s, o)

\* Whether an item of the configuration is met, with the defaults documented
\* for an operator that is left out.
ItemMet(q, o) ==
    LET op == Fold(DefaultOperator(q).operator)
    IN  MatchesItem([q EXCEPT !.operator = op], o)

\* "A rule is matched when all criteria of the rule match": the rule that is
\* applied has its query criteria met.
AppliedQueryMet ==
    Started =>
        \A s \in Identities, o \in Objects :
            LET i == AppliedRule(authorizer, s, o)
            IN  i # 0 => LET query == config.rules[i].query
                         IN  \/ query = {}
                             \/ \E all \in query : \A q \in all : ItemMet(q, o)

\* The rules mean what their documentation says: bypass is for anyone, a second
\* factor is only asked for when there are some, check-policy agrees with the
\* server, and the rule that is applied has its query criteria met.
RulesSound ==
    /\ TypeOKAccess
    /\ BypassIsForAnyone
    /\ SecondFactorEnabled
    /\ CheckPolicyAgrees
    /\ AppliedQueryMet

----------------------------------------------------------------------------
(* What a login can change about a decision, proved for every              *)
(* configuration.                                                          *)

\* A non-empty set of positions has a first one.
LEMMA FirstOf ==
    ASSUME NEW S, S \subseteq Nat, S # {}
    PROVE  /\ First(S) \in S
           /\ \A j \in S : First(S) <= j
<1> DEFINE R == OpToRel(<, Nat)
<1>1. IsWellFoundedOn(R, Nat)
  BY NatLessThanWellFounded
<1>2. \A x, y \in Nat : x < y => <<x, y>> \in R
  BY DEF OpToRel
<1> HIDE DEF R
<1>3. PICK x \in S : \A y \in S : ~(<<y, x>> \in R)
  BY <1>1, WFMin
<1>4. ASSUME NEW y \in S PROVE x <= y
  <2>1. x \in Nat /\ y \in Nat
    OBVIOUS
  <2>2. ~(y < x)
    BY <2>1, <1>2, <1>3, Zenon
  <2> QED
    BY <2>1, <2>2
<1> QED
  BY <1>4 DEF First

\* What a rule matches for a subject it matches for an anonymous one at the
\* same address: MatchesSubjects and the named groups let anonymous pass.
LEMMA AnonymousMatchesMore ==
    ASSUME NEW r, NEW s, NEW o, IsMatch(r, s, o)
    PROVE  IsMatch(r, Anonymous(s), o)
<1>1. IsAnonymous(Anonymous(s)) /\ Anonymous(s).ip = s.ip
  BY DEF Anonymous, SubjectOf, IsAnonymous
<1> DEFINE a == Anonymous(s)
<1> HIDE DEF a
<1>2. IsAnonymous(a) /\ a.ip = s.ip
  BY <1>1 DEF a
<1>3. \A m, t : MatchesText(m, t, s) => MatchesText(m, t, a)
  BY <1>2, Zenon DEF MatchesText
<1>4. MatchesDomains(r, a, o) /\ MatchesResources(r, a, o)
  BY <1>3, Zenon DEF IsMatch, MatchesRequest, MatchesDomains, MatchesResources
<1>5. MatchesNetworks(r, a)
  BY <1>2, Zenon DEF IsMatch, MatchesRequest, MatchesNetworks
<1>6. MatchesSubjects(r, a)
  BY <1>2 DEF MatchesSubjects
<1>7. IsMatch(r, a, o)
  BY <1>4, <1>5, <1>6, Zenon DEF IsMatch, MatchesRequest
<1> QED
  BY <1>7 DEF a

\* hasSubjects says that a rule has a criterion about the subject.
Flagged(r) ==
    r.hasSubjects <=> r.subjects # {} \/ HasNames(r.domains)
                                     \/ HasNames(r.resources)

\* A rule without such a criterion does not tell subjects at an address apart.
LEMMA PlainMatchesAll ==
    ASSUME NEW r, NEW s, NEW o, Flagged(r), ~r.hasSubjects,
           IsMatch(r, Anonymous(s), o)
    PROVE  IsMatch(r, s, o)
<1>1. Anonymous(s).ip = s.ip
  BY DEF Anonymous, SubjectOf
<1> DEFINE a == Anonymous(s)
<1> HIDE DEF a
<1>2. a.ip = s.ip /\ IsMatch(r, a, o)
  BY <1>1 DEF a
<1>3. /\ r.subjects = {}
      /\ \A m \in r.domains : m.names = {}
      /\ \A m \in r.resources : m.names = {}
  BY Zenon DEF Flagged, HasNames
<1>4. \A m, t : m.names = {} /\ MatchesText(m, t, a) => MatchesText(m, t, s)
  BY DEF MatchesText
<1>5. MatchesDomains(r, s, o) /\ MatchesResources(r, s, o)
  BY <1>2, <1>3, <1>4, Zenon
     DEF IsMatch, MatchesRequest, MatchesDomains, MatchesResources
<1>6. MatchesNetworks(r, s)
  BY <1>2, Zenon DEF IsMatch, MatchesRequest, MatchesNetworks
<1>7. MatchesSubjects(r, s)
  BY <1>3, Zenon DEF MatchesSubjects, MatchesSubjectExact
<1> QED
  BY <1>2, <1>5, <1>6, <1>7, Zenon DEF IsMatch, MatchesRequest

\* A well formed list of rules.
Numbered(a) ==
    /\ DOMAIN a.rules \subseteq Nat \ {0}
    /\ \A i \in DOMAIN a.rules : Flagged(a.rules[i])

\* When the rule applied to an anonymous subject is not about subjects, or
\* none is, the same one is applied to every subject at the address.
LEMMA SameRule ==
    ASSUME NEW a, Numbered(a), NEW s, NEW o,
           AppliedRule(a, Anonymous(s), o) # 0
             => ~a.rules[AppliedRule(a, Anonymous(s), o)].hasSubjects
    PROVE  AppliedRule(a, s, o) = AppliedRule(a, Anonymous(s), o)
<1> DEFINE hits(x) == {i \in DOMAIN a.rules : IsMatch(a.rules[i], x, o)}
<1> DEFINE A == hits(Anonymous(s))
<1> DEFINE S == hits(s)
<1>1. S \subseteq A
  BY AnonymousMatchesMore
<1>2. A \subseteq Nat \ {0} /\ S \subseteq Nat \ {0}
  BY DEF Numbered
<1>3. CASE A = {}
  BY <1>1, <1>3 DEF AppliedRule
<1>4. CASE A # {}
  <2>1. First(A) \in A /\ \A j \in A : First(A) <= j
    BY <1>2, <1>4, FirstOf
  <2>2. AppliedRule(a, Anonymous(s), o) = First(A)
    BY <1>4 DEF AppliedRule
  <2>3. First(A) # 0
    BY <2>1, <1>2
  <2>4. ~a.rules[First(A)].hasSubjects
    BY <2>2, <2>3
  <2>5. First(A) \in S
    BY <2>1, <2>4, PlainMatchesAll DEF Numbered
  <2>6. First(S) \in S /\ \A j \in S : First(S) <= j
    BY <2>5, <1>2, FirstOf
  <2>7. First(S) = First(A)
    <3> HIDE DEF A, S
    <3>1. First(S) <= First(A) /\ First(A) <= First(S)
      BY <2>1, <2>5, <2>6, <1>1
    <3>2. First(S) \in Nat /\ First(A) \in Nat
      BY <2>1, <2>6, <1>2
    <3> QED
      BY <3>1, <3>2
  <2>8. AppliedRule(a, s, o) = First(S)
    BY <2>5 DEF AppliedRule
  <2> QED
    BY <2>2, <2>7, <2>8
<1> QED
  BY <1>3, <1>4

----------------------------------------------------------------------------
\* The inductive invariant: a running server has the authorizer built from a
\* configuration the validation accepted.
IInv ==
    /\ config \in Configs
    /\ Running => Valid(config) /\ authorizer = Built(config)

\* IInv holds when nothing has been started and is kept by every step.
LEMMA IInvHolds == Spec => []IInv
<1>1. Init => IInv
  BY DEF Init, IInv, Running
<1>2. IInv /\ [Next]_vars => IInv'
  <2> SUFFICES ASSUME IInv, [Next]_vars PROVE IInv'
    OBVIOUS
  <2>1. CASE Start
    BY <2>1 DEF IInv, Start, Running
  <2>2. CASE Refuse
    BY <2>2 DEF IInv, Refuse, Running
  <2>3. ASSUME NEW o \in Objects, Handler(o) PROVE IInv'
    BY <2>3 DEF IInv, Handler, Running
  <2>4. ASSUME NEW o \in Objects, NEW header \in BOOLEAN,
               Handler_Error(o, header)
        PROVE  IInv'
    BY <2>4 DEF IInv, Handler_Error, Running
  <2>5. ASSUME NEW u \in Users, Handle1FAResponse(u) PROVE IInv'
    BY <2>5 DEF IInv, Handle1FAResponse, Running
  <2>6. CASE Handle2FAResponse
    BY <2>6 DEF IInv, Handle2FAResponse, Running
  <2>7. CASE UNCHANGED vars
    BY <2>7 DEF IInv, vars, Running
  <2> QED
    BY <2>1, <2>2, <2>3, <2>4, <2>5, <2>6, <2>7 DEF Next
<1> QED
  BY <1>1, <1>2, PTL DEF Spec

\* The rules of a built authorizer are numbered, flagged, and those of a
\* configuration's rules.
LEMMA BuiltRules ==
    ASSUME NEW c \in Configs
    PROVE  /\ Numbered(Built(c))
           /\ DOMAIN Built(c).rules = DOMAIN c.rules
           /\ \A i \in DOMAIN c.rules :
                Built(c).rules[i] = NewAccessControlRule(ValidatedRule(c.rules[i]))
<1> DEFINE a == Built(c)
<1>1. a.rules = [i \in DOMAIN c.rules |->
                   NewAccessControlRule(ValidatedRule(c.rules[i]))]
  BY DEF Built, NewAuthorizer, ValidateRules, ValidateAccessControl
<1>2. DOMAIN c.rules \subseteq Nat \ {0}
  BY ConfigsAssumption
<1>3. ASSUME NEW r PROVE Flagged(NewAccessControlRule(r))
  BY DEF Flagged, NewAccessControlRule
<1> HIDE DEF a
<1>4. Numbered(a)
  BY <1>1, <1>2, <1>3 DEF Numbered
<1> QED
  BY <1>1, <1>4 DEF a

\* isAuthzResult forbids an anonymous subject only by a rule, or a default
\* policy, that is not about subjects.
LEMMA ForbiddenAnonymous ==
    ASSUME NEW a, NEW s, NEW o, Decision(a, 0, s, o) = "forbidden"
    PROVE  /\ GetRequiredLevel(a, s, o).policy = "deny"
           /\ ~GetRequiredLevel(a, s, o).hasSubjects
BY DEF Decision, isAuthzResult

\* The level a request needs is settled by the rule that is applied to it.
LEMMA RequiredByRule ==
    ASSUME NEW a, NEW s, NEW t, NEW o,
           AppliedRule(a, s, o) = AppliedRule(a, t, o)
    PROVE  GetRequiredLevel(a, s, o) = GetRequiredLevel(a, t, o)
BY DEF GetRequiredLevel

\* Forbidden is final for every configuration: isAuthzResult's conclusion
\* that a subject can not get access by authenticating is right.
THEOREM ForbiddenFinal == Spec => []ForbiddenIsFinal
<1>1. IInv => ForbiddenIsFinal
  <2> SUFFICES ASSUME IInv, Started, NEW s \in Identities, NEW o \in Objects
               PROVE  /\ Decision(authorizer, 0, Anonymous(s), o) = "forbidden"
                         => \A l \in 1 .. 2 :
                              Decision(authorizer, l, s, o) = "forbidden"
                      /\ Decision(authorizer, 1, s, o) = "forbidden"
                         => Decision(authorizer, 2, s, o) = "forbidden"
    BY DEF ForbiddenIsFinal
  <2>1. Numbered(authorizer)
    BY BuiltRules DEF IInv, Started, Running
  <2>2. ASSUME Decision(authorizer, 0, Anonymous(s), o) = "forbidden",
               NEW l \in 1 .. 2
        PROVE  Decision(authorizer, l, s, o) = "forbidden"
    <3>1. /\ GetRequiredLevel(authorizer, Anonymous(s), o).policy = "deny"
          /\ ~GetRequiredLevel(authorizer, Anonymous(s), o).hasSubjects
      BY <2>2, ForbiddenAnonymous
    <3>2. AppliedRule(authorizer, Anonymous(s), o) # 0 =>
            ~authorizer.rules[AppliedRule(authorizer, Anonymous(s), o)].hasSubjects
      BY <3>1 DEF GetRequiredLevel
    <3>3. AppliedRule(authorizer, s, o)
            = AppliedRule(authorizer, Anonymous(s), o)
      BY <2>1, <3>2, SameRule
    <3>4. GetRequiredLevel(authorizer, s, o).policy = "deny"
      BY <3>1, <3>3, RequiredByRule
    <3> QED
      BY <3>4 DEF Decision, isAuthzResult
  <2>3. ASSUME Decision(authorizer, 1, s, o) = "forbidden"
        PROVE  Decision(authorizer, 2, s, o) = "forbidden"
    BY <2>3 DEF Decision, isAuthzResult
  <2> QED
    BY <2>2, <2>3
<1> QED
  BY <1>1, IInvHolds, PTL

----------------------------------------------------------------------------
\* No bypass rule has the user or group named matches in its resources, which
\* validateBypass does not look at.
ResourcesPlain ==
    \A c \in Configs : \A i \in DOMAIN c.rules :
        c.rules[i].policy = "bypass" => ~HasNames(c.rules[i].resources)

\* A rule keeps its policy when it is built, or denies.
LEMMA BuiltPolicy ==
    ASSUME NEW r
    PROVE  LET policy == NewAccessControlRule(ValidatedRule(r)).policy
           IN  policy = r.policy \/ policy = "deny"
<1>1. ValidatedRule(r).policy = r.policy
  BY DEF ValidatedRule
<1>2. ASSUME NEW v
      PROVE  NewAccessControlRule(v).policy = v.policy \/ NewAccessControlRule(v).policy = "deny"
  BY DEF NewAccessControlRule
<1> QED
  BY <1>1, <1>2

\* A bypass rule that validateBypass accepts is not about subjects.
LEMMA BypassNotFlagged ==
    ASSUME NEW r, NEW c, ValidRule(r, c), ~HasNames(r.resources),
           NewAccessControlRule(ValidatedRule(r)).policy = "bypass"
    PROVE  ~NewAccessControlRule(ValidatedRule(r)).hasSubjects
<1>1. r.policy = "bypass"
  BY DEF NewAccessControlRule, ValidatedRule
<1>2. ValidBypass(r)
  BY <1>1 DEF ValidRule
<1>3. ASSUME NEW d \in r.domains PROVE NewAccessControlDomain(d).names = {}
  BY <1>2 DEF ValidBypass, NewAccessControlDomain, Matcher
<1>4. ~HasNames({NewAccessControlDomain(d) : d \in r.domains})
  BY <1>3 DEF HasNames
<1>5. NewSubjects(r.subjects) = {}
  BY <1>2 DEF ValidBypass, NewSubjects
<1> QED
  BY <1>4, <1>5 DEF NewAccessControlRule, ValidatedRule

\* With plain resources, what bypasses authentication does so for everyone at
\* the address, logged in or not.
THEOREM BypassForAnyone ==
    ASSUME ResourcesPlain PROVE Spec => []BypassIsForAnyone
<1>1. IInv => BypassIsForAnyone
  <2> SUFFICES ASSUME IInv, Started, NEW s \in Identities, NEW o \in Objects,
                      Decision(authorizer, 0, Anonymous(s), o) = "authorized"
               PROVE  Decision(authorizer, 1, s, o) = "authorized"
    BY DEF BypassIsForAnyone
  <2>1. /\ config \in Configs /\ Valid(config)
        /\ authorizer = Built(config)
    BY DEF IInv, Started, Running
  <2>2. Numbered(authorizer)
    BY <2>1, BuiltRules
  <2>3. GetRequiredLevel(authorizer, Anonymous(s), o).policy = "bypass"
    BY DEF Decision, isAuthzResult
  <2> DEFINE i == AppliedRule(authorizer, Anonymous(s), o)
  <2>4. ASSUME i # 0 PROVE ~authorizer.rules[i].hasSubjects
    <3> DEFINE A == {j \in DOMAIN authorizer.rules :
                       IsMatch(authorizer.rules[j], Anonymous(s), o)}
    <3>1. A # {} /\ i = First(A)
      BY <2>4 DEF AppliedRule
    <3>2. A \subseteq Nat
      BY <2>2 DEF Numbered
    <3>3. i \in DOMAIN authorizer.rules
      BY <3>1, <3>2, FirstOf
    <3>4. authorizer.rules[i].policy = "bypass"
      BY <2>3, <2>4 DEF GetRequiredLevel
    <3> HIDE DEF i
    <3>5. /\ i \in DOMAIN config.rules
          /\ authorizer.rules[i]
               = NewAccessControlRule(ValidatedRule(config.rules[i]))
      BY <2>1, <3>3, BuiltRules
    <3>6. ValidRule(config.rules[i], config)
      BY <2>1, <3>5 DEF Valid
    <3>7. config.rules[i].policy = "bypass"
      BY <3>4, <3>5, BuiltPolicy
    <3>8. ~HasNames(config.rules[i].resources)
      BY <2>1, <3>5, <3>7 DEF ResourcesPlain
    <3> QED
      BY <3>4, <3>5, <3>6, <3>8, BypassNotFlagged
  <2>5. AppliedRule(authorizer, s, o) = i
    BY <2>2, <2>4, SameRule
  <2>6. GetRequiredLevel(authorizer, s, o).policy = "bypass"
    BY <2>3, <2>5, RequiredByRule
  <2> QED
    BY <2>6 DEF Decision, isAuthzResult
<1> QED
  BY <1>1, IInvHolds, PTL

----------------------------------------------------------------------------
\* What makes NoLoginLoop inductive: the portal only sends a browser back
\* that has the factors the object needs.
Enough ==
    reply = "redirect" =>
        \/ level = 2
        \/ /\ level = 1
           /\ GetRequiredLevel(authorizer, SubjectOf(visitor, ip), object).policy
                # "two_factor"

\* Enough is kept by every step.
LEMMA EnoughHolds == Spec => []Enough
<1>1. Init => Enough
  BY DEF Init, Enough
<1>2. Enough /\ [Next]_vars => Enough'
  <2> SUFFICES ASSUME Enough, [Next]_vars PROVE Enough'
    OBVIOUS
  <2>0. ASSUME NEW l, NEW r PROVE isAuthzResult(l, r) # "redirect"
    BY DEF isAuthzResult
  <2>1. CASE Start
    BY <2>1 DEF Enough, Start
  <2>2. CASE Refuse
    BY <2>2 DEF Enough, Refuse
  <2>3. ASSUME NEW o \in Objects, Handler(o) PROVE Enough'
    BY <2>0, <2>3 DEF Enough, Handler, Decision
  <2>4. ASSUME NEW o \in Objects, NEW header \in BOOLEAN,
               Handler_Error(o, header)
        PROVE  Enough'
    BY <2>0, <2>4 DEF Enough, Handler_Error
  <2>5. ASSUME NEW u \in Users, Handle1FAResponse(u) PROVE Enough'
    BY <2>5 DEF Enough, Handle1FAResponse
  <2>6. CASE Handle2FAResponse
    BY <2>6 DEF Enough, Handle2FAResponse
  <2>7. CASE UNCHANGED vars
    BY <2>7 DEF Enough, vars
  <2> QED
    BY <2>1, <2>2, <2>3, <2>4, <2>5, <2>6, <2>7 DEF Next
<1> QED
  BY <1>1, <1>2, PTL DEF Spec

\* A built authorizer only asks for one of the four policies.
LEMMA RequiredPolicies ==
    ASSUME NEW c \in Configs, Valid(c), NEW s, NEW o
    PROVE  GetRequiredLevel(Built(c), s, o).policy \in Policies
<1> DEFINE a == Built(c)
           A == {j \in DOMAIN a.rules : IsMatch(a.rules[j], s, o)}
<1>1. a.default \in Policies
  BY DEF Built, NewAuthorizer, ValidateRules, ValidateAccessControl, Valid
<1>2. \A i \in DOMAIN a.rules : a.rules[i].policy \in Policies
  <2>1. ASSUME NEW r PROVE NewAccessControlRule(r).policy \in Policies
    BY DEF NewAccessControlRule, Policies
  <2> HIDE DEF a
  <2>2. \A i \in DOMAIN c.rules :
          a.rules[i] = NewAccessControlRule(ValidatedRule(c.rules[i]))
    BY BuiltRules DEF a
  <2>3. DOMAIN a.rules = DOMAIN c.rules
    BY BuiltRules DEF a
  <2> QED
    BY <2>1, <2>2, <2>3, Zenon
<1>3. A \subseteq Nat
  BY BuiltRules DEF Numbered
<1> HIDE DEF a
<1>4. A # {} => First(A) \in DOMAIN a.rules
  BY <1>3, FirstOf
<1> QED
  BY <1>1, <1>2, <1>4 DEF GetRequiredLevel, AppliedRule, a

\* The portal never sends a browser back to an object for which the
\* authorization endpoint sends it to the portal.
THEOREM LoginNeverLoops == Spec => []NoLoginLoop
<1>1. IInv /\ Enough => NoLoginLoop
  <2> SUFFICES ASSUME IInv, Enough, reply = "redirect"
               PROVE  Decision(authorizer, level, SubjectOf(visitor, ip), object)
                        # "unauthorized"
    BY DEF NoLoginLoop
  <2> DEFINE required ==
               GetRequiredLevel(authorizer, SubjectOf(visitor, ip), object)
  <2>1. config \in Configs /\ Valid(config) /\ authorizer = Built(config)
    BY DEF IInv, Running
  <2>2. required.policy \in Policies
    BY <2>1, RequiredPolicies
  <2>3. \/ level = 2
        \/ level = 1 /\ required.policy # "two_factor"
    BY DEF Enough
  <2> HIDE DEF required
  <2>4. isAuthzResult(level, required) # "unauthorized"
    BY <2>2, <2>3 DEF isAuthzResult, Policies
  <2> QED
    BY <2>4 DEF Decision, required
<1> QED
  BY <1>1, IInvHolds, EnoughHolds, PTL

----------------------------------------------------------------------------
(* RulesSound, for configurations whose query operators are in lower case.   *)

\* A query item has its four fields, and no operator that validateQuery only
\* recognises by folding its case: NewAccessControlQueryObjectMatcher does not.
LowerCase ==
    \A c \in Configs : \A i \in DOMAIN c.rules : \A all \in c.rules[i].query : \A q \in all :
        /\ q = [key |-> q.key, operator |-> q.operator, type |-> q.type, value |-> q.value]
        /\ Fold(q.operator) = q.operator

\* The applied rule is the first one that matches.
LEMMA AppliedIsFirst ==
    ASSUME NEW a, DOMAIN a.rules \subseteq Nat \ {0}, NEW s, NEW o, NEW i \in DOMAIN a.rules,
           IsMatch(a.rules[i], s, o),
           \A j \in DOMAIN a.rules : IsMatch(a.rules[j], s, o) => i <= j
    PROVE  AppliedRule(a, s, o) = i
<1> DEFINE H == {j \in DOMAIN a.rules : IsMatch(a.rules[j], s, o)}
<1>1. i \in H /\ H \subseteq Nat
  OBVIOUS
<1>2. AppliedRule(a, s, o) = First(H)
  BY <1>1 DEF AppliedRule
<1>3. \A j \in H : i <= j
  OBVIOUS
<1> HIDE DEF H
<1>4. First(H) \in H /\ First(H) <= i
  BY <1>1, FirstOf
<1>5. i <= First(H) /\ First(H) \in Nat /\ i \in Nat
  BY <1>1, <1>3, <1>4
<1> QED
  BY <1>2, <1>4, <1>5

\* A rule that is applied is one of the rules, and matches.
LEMMA AppliedMatches ==
    ASSUME NEW a, DOMAIN a.rules \subseteq Nat \ {0}, NEW s, NEW o, AppliedRule(a, s, o) # 0
    PROVE  /\ AppliedRule(a, s, o) \in DOMAIN a.rules
           /\ IsMatch(a.rules[AppliedRule(a, s, o)], s, o)
<1> DEFINE H == {j \in DOMAIN a.rules : IsMatch(a.rules[j], s, o)}
<1>1. H # {} /\ AppliedRule(a, s, o) = First(H) /\ H \subseteq Nat
  BY DEF AppliedRule
<1>2. First(H) \in H
  BY <1>1, FirstOf
<1> QED
  BY <1>1, <1>2

\* Second factors are enabled where a rule may ask for one.
LEMMA EnabledWhereAsked ==
    ASSUME NEW c \in Configs, NEW s, NEW o,
           GetRequiredLevel(Built(c), s, o).policy = "two_factor"
    PROVE  Built(c).mfa
<1> DEFINE a == Built(c)
           i == AppliedRule(a, s, o)
<1>1. /\ a.mfa <=> \/ a.default = "two_factor"
                   \/ \E j \in DOMAIN c.rules : c.rules[j].policy = "two_factor"
                   \/ "two_factor" \in c.clientPolicies
      /\ a.mfa \in BOOLEAN
  BY DEF Built, NewAuthorizer, ValidateRules, ValidateAccessControl, ValidatedRule
<1>2. /\ DOMAIN a.rules = DOMAIN c.rules /\ DOMAIN a.rules \subseteq Nat \ {0}
      /\ \A j \in DOMAIN c.rules : a.rules[j] = NewAccessControlRule(ValidatedRule(c.rules[j]))
  BY BuiltRules DEF Numbered
<1> HIDE DEF a
<1>3. GetRequiredLevel(a, s, o).policy = "two_factor"
  BY DEF a
<1>4. CASE i = 0
  BY <1>1, <1>3, <1>4 DEF GetRequiredLevel, a
<1>5. CASE i # 0
  <2>1. i \in DOMAIN c.rules
    BY <1>2, <1>5, AppliedMatches
  <2>2. a.rules[i].policy = "two_factor"
    BY <1>3, <1>5 DEF GetRequiredLevel
  <2>3. c.rules[i].policy = "two_factor"
    BY <2>1, <2>2, <1>2, BuiltPolicy
  <2> QED
    BY <2>1, <2>3, <1>1 DEF a
<1> QED
  BY <1>4, <1>5

\* A rule that needs no compiling is built the same with or without it.
LEMMA ExplicitRule ==
    ASSUME NEW r, \A all \in r.query : \A q \in all :
                    q.operator \in {"present", "absent", "equal", "not equal"}
    PROVE  NewAccessControlRule(ValidatedRule(r)) = NewAccessControlRule(r)
<1>1. \A all \in r.query : \A q \in all : Compiled(DefaultOperator(q)) = q
  BY DEF Compiled, DefaultOperator
<1>2. \A all \in r.query : {Compiled(DefaultOperator(q)) : q \in all} = all
  <2> TAKE all \in r.query
  <2>1. \A q \in all : Compiled(DefaultOperator(q)) = q
    BY <1>1
  <2>2. \A x : x \in {Compiled(DefaultOperator(q)) : q \in all} <=> x \in all
    BY <2>1, Zenon
  <2> QED
    BY <2>2, Zenon
<1>3. {{Compiled(DefaultOperator(q)) : q \in all} : all \in r.query} = r.query
  BY <1>2, Zenon
<1> DEFINE v == ValidatedRule(r)
<1>4. /\ v.domains = r.domains /\ v.resources = r.resources /\ v.query = r.query
      /\ v.methods = r.methods /\ v.networks = r.networks
      /\ v.subjects = r.subjects /\ v.policy = r.policy
  BY <1>3 DEF ValidatedRule
<1> HIDE DEF v
<1>5. NewAccessControlRule(v) = NewAccessControlRule(r)
  BY <1>4, Zenon DEF NewAccessControlRule
<1> QED
  BY <1>5 DEF v

\* The command tells matches from potential matches; the server does not.
LEMMA MatchIsPotential ==
    ASSUME NEW r, NEW s, NEW o
    PROVE  /\ IsMatch(r, s, o) <=> RuleMatch(r, s, o) \/ RulePotentialMatch(r, s, o)
           /\ ~(RuleMatch(r, s, o) /\ RulePotentialMatch(r, s, o))
BY Zenon DEF IsMatch, RuleMatch, RulePotentialMatch, MatchesSubjects

\* What check-policy reports is the rule the server applies.
LEMMA CheckAgrees ==
    ASSUME NEW c \in Configs, Explicit(c), NEW s, NEW o
    PROVE  AccessControlCheck(c, s, o) = AppliedRule(Built(c), s, o)
<1> DEFINE a == NewAuthorizer(ValidateAccessControl(c))
           D == DOMAIN a.rules
           shown == NotSkipped(a, s, o)
           applied == {i \in shown : RuleMatch(a.rules[i], s, o)}
           potential == {i \in shown : RulePotentialMatch(a.rules[i], s, o)}
<1>1. a.rules = [i \in DOMAIN c.rules |-> NewAccessControlRule(c.rules[i])]
  BY DEF NewAuthorizer, ValidateAccessControl
<1>2. AppliedRule(Built(c), s, o) = AppliedRule(a, s, o)
  <2>1. Built(c).rules = [i \in DOMAIN c.rules |->
                            NewAccessControlRule(ValidatedRule(c.rules[i]))]
    BY DEF Built, NewAuthorizer, ValidateRules, ValidateAccessControl
  <2>2. \A i \in DOMAIN c.rules :
          NewAccessControlRule(ValidatedRule(c.rules[i])) = NewAccessControlRule(c.rules[i])
    BY ExplicitRule DEF Explicit
  <2>3. Built(c).rules = a.rules
    BY <1>1, <2>1, <2>2
  <2> QED
    BY <2>3, Zenon DEF AppliedRule
<1>3. PICK n \in Nat : D = 1 .. n
  BY <1>1, ConfigsAssumption
<1>4. AccessControlCheck(c, s, o) =
        CASE applied # {} /\ (potential = {} \/ First(potential) > Last(applied)) -> Last(applied)
          [] potential # {} /\ (applied = {} \/ First(potential) <= Last(applied)) ->
               First(potential)
          [] OTHER -> 0
  BY DEF AccessControlCheck
<1>5. shown = {i \in D : \A j \in 1 .. i - 1 : ~RuleMatch(a.rules[j], s, o)}
  BY DEF NotSkipped
<1>6. \A i \in D : /\ IsMatch(a.rules[i], s, o) <=> \/ RuleMatch(a.rules[i], s, o)
                                                    \/ RulePotentialMatch(a.rules[i], s, o)
                   /\ ~(RuleMatch(a.rules[i], s, o) /\ RulePotentialMatch(a.rules[i], s, o))
  BY MatchIsPotential
<1>7. /\ D \subseteq Nat \ {0} /\ applied \subseteq D
      /\ potential \subseteq D /\ potential \subseteq Nat
  <2>1. shown \subseteq D
    BY <1>5, Zenon
  <2> HIDE DEF a, shown
  <2> QED
    BY <2>1, <1>3
<1> HIDE DEF a, shown
<1>8. CASE \E i \in D : RuleMatch(a.rules[i], s, o)
  <2> DEFINE M == {i \in D : RuleMatch(a.rules[i], s, o)}
             f == First(M)
  <2>1. f \in M /\ \A j \in M : f <= j
    <3>1. M \subseteq Nat /\ M # {}
      BY <1>7, <1>8
    <3> QED
      BY <3>1, FirstOf
  <2> HIDE DEF f
  <2>2. f \in D /\ f \in Nat /\ RuleMatch(a.rules[f], s, o)
        /\ \A j \in D : RuleMatch(a.rules[j], s, o) => f <= j
    BY <2>1, <1>7
  <2>3. shown = {i \in D : i <= f}
    <3>1. ASSUME NEW i \in D
          PROVE  (\A j \in 1 .. i - 1 : ~RuleMatch(a.rules[j], s, o)) <=> i <= f
      <4>1. i \in Nat /\ f \in Nat /\ f >= 1 /\ i <= n /\ D = 1 .. n
        BY <1>3, <2>2
      <4>2. ASSUME i <= f PROVE \A j \in 1 .. i - 1 : ~RuleMatch(a.rules[j], s, o)
        <5> TAKE j \in 1 .. i - 1
        <5>1. j \in D /\ ~(f <= j)
          BY <4>1, <4>2
        <5> QED
          BY <5>1, <2>2
      <4>3. ASSUME ~(i <= f) PROVE f \in 1 .. i - 1
        BY <4>1, <4>3
      <4> QED
        BY <4>2, <4>3, <2>2
    <3> QED
      BY <3>1, <1>5
  <2>4. applied = {f}
    <3>1. \A i \in D : i <= f /\ f <= i => i = f
      BY <1>3, <2>2
    <3> QED
      BY <2>2, <2>3, <3>1, <1>3
  <2>5. Last(applied) = f
    BY <2>2, <2>4 DEF Last
  <2>6. CASE potential = {}
    <3>1. \A j \in D : IsMatch(a.rules[j], s, o) => f <= j
      <4> TAKE j \in D
      <4> HAVE IsMatch(a.rules[j], s, o)
      <4>1. RuleMatch(a.rules[j], s, o) \/ j \notin shown
        BY <2>6, <1>6
      <4> QED
        BY <4>1, <2>2, <2>3, <1>3
    <3>2. AppliedRule(a, s, o) = f
      BY <3>1, <2>2, <1>6, <1>7, AppliedIsFirst
    <3> QED
      BY <3>2, <1>2, <1>4, <2>4, <2>5, <2>6
  <2>7. CASE potential # {}
    <3> DEFINE g == First(potential)
    <3>1. g \in potential /\ \A j \in potential : g <= j
      BY <2>7, <1>7, FirstOf
    <3> HIDE DEF g
    <3>2. g \in D /\ g <= f /\ RulePotentialMatch(a.rules[g], s, o) /\ g \in Nat
      BY <3>1, <2>3, <1>7
    <3>3. \A j \in D : IsMatch(a.rules[j], s, o) => g <= j
      <4> TAKE j \in D
      <4> HAVE IsMatch(a.rules[j], s, o)
      <4>1. CASE j \in potential
        BY <4>1, <3>1
      <4>2. CASE j \notin potential
        <5>1. RuleMatch(a.rules[j], s, o) \/ ~(j <= f)
          BY <4>2, <1>6, <2>3
        <5>2. f <= j
          BY <5>1, <2>2, <1>3
        <5> QED
          BY <5>2, <3>2, <2>2, <1>3
      <4> QED
        BY <4>1, <4>2
    <3>4. AppliedRule(a, s, o) = g
      BY <3>2, <3>3, <1>6, <1>7, AppliedIsFirst
    <3>5. ~(g > f)
      <4>1. g \in Nat /\ f \in Nat /\ g <= f
        BY <3>2, <2>2, Zenon
      <4> QED
        BY <4>1
    <3> QED
      BY <3>4, <3>5, <3>2, <1>2, <1>4, <2>4, <2>5, <2>7 DEF g
  <2> QED
    BY <2>6, <2>7
<1>9. CASE ~\E i \in D : RuleMatch(a.rules[i], s, o)
  <2>1. shown = D
    <3>1. \A i \in D : \A j \in 1 .. i - 1 : j \in D
      BY <1>3
    <3> QED
      BY <3>1, <1>5, <1>9
  <2>2. applied = {} /\ potential = {i \in D : IsMatch(a.rules[i], s, o)}
    BY <2>1, <1>6, <1>9
  <2>3. AppliedRule(a, s, o) = IF potential = {} THEN 0 ELSE First(potential)
    BY <2>2 DEF AppliedRule
  <2> QED
    BY <2>2, <2>3, <1>2, <1>4
<1> QED
  BY <1>8, <1>9

\* Matching an item looks at its operator, key and value.
LEMMA SameItem ==
    ASSUME NEW p, NEW q, NEW o, p.operator = q.operator, p.key = q.key, p.value = q.value,
           p.operator \in Operators
    PROVE  MatchesItem(p, o) <=> MatchesItem(q, o)
BY DEF MatchesItem, Operators

\* An item that was validated has a matcher, which matches what it means.
LEMMA ItemMatcher ==
    ASSUME NEW q, NEW o, ValidItem(q), q.operator \in Operators \cup {""},
           q = [key |-> q.key, operator |-> q.operator, type |-> q.type, value |-> q.value]
    PROVE  LET p == Compiled(DefaultOperator(q))
           IN  HasMatcher(p) /\ (MatchesItem(p, o) => ItemMet(q, o))
<1> DEFINE op == DefaultOperator(q).operator
           d == [key |-> q.key, operator |-> op, type |-> q.type, value |-> q.value]
           e == [q EXCEPT !.operator = op]
           p == Compiled(DefaultOperator(q))
<1>1. DefaultOperator(q) = d /\ op \in Operators
  <2>1. q.key # Empty
    BY DEF ValidItem
  <2>2. CASE q.operator = ""
    BY <2>1, <2>2 DEF DefaultOperator, Operators
  <2>3. CASE q.operator # ""
    BY <2>3 DEF DefaultOperator
  <2> QED
    BY <2>2, <2>3
<1>2. /\ e.operator = op /\ e.key = q.key /\ e.value = q.value
      /\ d.operator = op /\ d.key = q.key /\ d.value = q.value /\ d.type = q.type
  OBVIOUS
<1> HIDE DEF op, d, e
<1>3. Fold(op) = op
  BY <1>1 DEF Fold, Operators
<1>4. CASE q.type = "nil" \/ (q.type = "string" /\ op \notin {"pattern", "not pattern"})
  <2>1. p = d
    BY <1>1, <1>2, <1>4 DEF Compiled
  <2>2. HasMatcher(d)
    BY <1>1, <1>2, <1>4 DEF HasMatcher, ValidItem, Operators, op
  <2>3. MatchesItem(d, o) <=> MatchesItem(e, o)
    BY <1>1, <1>2, SameItem
  <2> QED
    BY <2>1, <2>2, <2>3, <1>3 DEF ItemMet, op, e
<1>5. CASE q.type = "string" /\ op \in {"pattern", "not pattern"}
  <2> DEFINE k == [d EXCEPT !.type = "regexp"]
  <2>1. p = k
    BY <1>1, <1>2, <1>5 DEF Compiled
  <2>2. k.operator = op /\ k.key = q.key /\ k.value = q.value /\ k.type = "regexp"
    BY <1>2 DEF d
  <2> HIDE DEF k
  <2>3. HasMatcher(k)
    BY <2>2, <1>5 DEF HasMatcher
  <2>4. MatchesItem(k, o) <=> MatchesItem(e, o)
    BY <1>1, <1>2, <2>2, SameItem
  <2> QED
    BY <2>1, <2>3, <2>4, <1>3 DEF ItemMet, op, e
<1>6. q.type \in {"nil", "string"}
  BY DEF ValidItem
<1> QED
  BY <1>4, <1>5, <1>6

\* A rule that matches has the query criteria of the configuration met.
LEMMA QueryMet ==
    ASSUME LowerCase, NEW c \in Configs, Valid(c), NEW s, NEW o, NEW i \in DOMAIN c.rules,
           IsMatch(Built(c).rules[i], s, o)
    PROVE  \/ c.rules[i].query = {}
           \/ \E all \in c.rules[i].query : \A q \in all : ItemMet(q, o)
<1> DEFINE Q == c.rules[i].query
           r == Built(c).rules[i]
           Set(all) == {p \in {Compiled(DefaultOperator(q)) : q \in all} : HasMatcher(p)}
<1>1. r.query = {Set(all) : all \in Q}
  <2>1. r = NewAccessControlRule(ValidatedRule(c.rules[i]))
    BY BuiltRules
  <2>2. r.query = NewAccessControlQuery(ValidatedRule(c.rules[i]).query)
    <3>1. \A x : NewAccessControlRule(x).query = NewAccessControlQuery(x.query)
      BY DEF NewAccessControlRule
    <3> HIDE DEF r
    <3> QED
      BY <2>1, <3>1
  <2>3. ValidatedRule(c.rules[i]).query =
          {{Compiled(DefaultOperator(q)) : q \in all} : all \in Q}
    BY DEF ValidatedRule
  <2> QED
    BY <2>2, <2>3 DEF NewAccessControlQuery
<1>2. MatchesQuery(r, o)
  BY DEF IsMatch, MatchesRequest
<1>3. CASE r.query = {}
  BY <1>1, <1>3
<1>4. CASE \E m \in r.query : \A p \in m : MatchesItem(p, o)
  <2>1. PICK all \in Q : \A p \in Set(all) : MatchesItem(p, o)
    BY <1>1, <1>4
  <2>2. ASSUME NEW q \in all PROVE ItemMet(q, o)
    <3>1. ValidRule(c.rules[i], c)
      BY DEF Valid
    <3>2. ValidItem(q)
      BY <3>1 DEF ValidRule
    <3>3. /\ q = [key |-> q.key, operator |-> q.operator, type |-> q.type, value |-> q.value]
          /\ Fold(q.operator) = q.operator
      BY Zenon DEF LowerCase
    <3>6. q.operator \in Operators \cup {""}
      BY <3>2, <3>3 DEF ValidItem
    <3>4. /\ HasMatcher(Compiled(DefaultOperator(q)))
          /\ MatchesItem(Compiled(DefaultOperator(q)), o) => ItemMet(q, o)
      BY <3>2, <3>3, <3>6, ItemMatcher
    <3>5. Compiled(DefaultOperator(q)) \in Set(all)
      BY <3>4
    <3> QED
      BY <3>4, <3>5, <2>1
  <2> QED
    BY <2>2
<1> QED
  BY <1>2, <1>3, <1>4 DEF MatchesQuery

\* The variables keep their types.
LEMMA AccessTypes == Spec => []TypeOKAccess
<1>1. Init => TypeOKAccess
  BY ObjectsAssumption DEF Init, TypeOKAccess, NoAuthorizer, NoObject, Policies
<1>2. TypeOKAccess /\ [Next]_vars => TypeOKAccess'
  <2> SUFFICES ASSUME TypeOKAccess, [Next]_vars PROVE TypeOKAccess'
    OBVIOUS
  <2>0. ASSUME NEW l, NEW r
        PROVE  isAuthzResult(l, r) \in {"authorized", "unauthorized", "forbidden"}
    BY DEF isAuthzResult
  <2>1. CASE Start
    <3>1. /\ config \in Configs /\ Valid(config) /\ authorizer' = Built(config)
          /\ reply' = "started" /\ UNCHANGED <<config, ip, visitor, level, object>>
      BY <2>1 DEF Start, TypeOKAccess
    <3>2. Built(config).default \in Policies
      BY <3>1 DEF Built, NewAuthorizer, ValidateRules, ValidateAccessControl, Valid
    <3>3. \A i \in DOMAIN Built(config).rules : Built(config).rules[i].policy \in Policies
      <4>1. ASSUME NEW r PROVE NewAccessControlRule(r).policy \in Policies
        BY DEF NewAccessControlRule, Policies
      <4> QED
        BY <4>1, <3>1, BuiltRules, Zenon
    <3> QED
      BY <3>1, <3>2, <3>3 DEF TypeOKAccess
  <2>2. CASE Refuse
    BY <2>2 DEF TypeOKAccess, Refuse
  <2>3. ASSUME NEW o \in Objects, Handler(o) PROVE TypeOKAccess'
    BY <2>0, <2>3 DEF TypeOKAccess, Handler, Decision
  <2>4. ASSUME NEW o \in Objects, NEW header \in BOOLEAN, Handler_Error(o, header)
        PROVE  TypeOKAccess'
    BY <2>0, <2>4 DEF TypeOKAccess, Handler_Error
  <2>5. ASSUME NEW u \in Users, Handle1FAResponse(u) PROVE TypeOKAccess'
    BY <2>5, VisitorsAssumption DEF TypeOKAccess, Handle1FAResponse
  <2>6. CASE Handle2FAResponse
    <3>1. level = 1 /\ level' = 2 /\ UNCHANGED <<config, authorizer, ip, visitor, object>>
          /\ reply' \in {"redirect", "portal"}
      BY <2>6 DEF Handle2FAResponse
    <3>2. level # 0 /\ level' # 0 /\ level' \in 0 .. 2
      BY <3>1
    <3>3. visitor # Empty
      BY <3>2, Zenon DEF TypeOKAccess
    <3> QED
      BY <3>1, <3>2, <3>3, Zenon DEF TypeOKAccess
  <2>7. CASE UNCHANGED vars
    BY <2>7 DEF TypeOKAccess, vars
  <2> QED
    BY <2>1, <2>2, <2>3, <2>4, <2>5, <2>6, <2>7 DEF Next
<1> QED
  BY <1>1, <1>2, PTL DEF Spec

\* The rules mean what their documentation says, for every configuration with plain
\* bypass resources and operators in lower case: bypass is for anyone, second factors are
\* enabled where a rule asks for one, check-policy reports the rule the server
\* applies, and a rule is applied only when its query criteria are met.
THEOREM RulesAlwaysSound ==
    ASSUME ResourcesPlain, LowerCase PROVE Spec => []RulesSound
<1>1. IInv => SecondFactorEnabled /\ CheckPolicyAgrees /\ AppliedQueryMet
  <2> SUFFICES ASSUME IInv, Started
               PROVE  SecondFactorEnabled /\ CheckPolicyAgrees /\ AppliedQueryMet
    BY Zenon DEF SecondFactorEnabled, CheckPolicyAgrees, AppliedQueryMet
  <2>1. config \in Configs /\ Valid(config) /\ authorizer = Built(config)
    BY DEF IInv, Started, Running
  <2>2. SecondFactorEnabled
    BY <2>1, EnabledWhereAsked DEF SecondFactorEnabled
  <2>3. CheckPolicyAgrees
    BY <2>1, CheckAgrees, Zenon DEF CheckPolicyAgrees
  <2>4. AppliedQueryMet
    <3> SUFFICES ASSUME NEW s \in Identities, NEW o \in Objects,
                        AppliedRule(authorizer, s, o) # 0
                 PROVE  LET query == config.rules[AppliedRule(authorizer, s, o)].query
                        IN  \/ query = {}
                            \/ \E all \in query : \A q \in all : ItemMet(q, o)
      BY DEF AppliedQueryMet
    <3> DEFINE i == AppliedRule(authorizer, s, o)
    <3>1. DOMAIN Built(config).rules = DOMAIN config.rules
          /\ DOMAIN Built(config).rules \subseteq Nat \ {0}
      BY <2>1, BuiltRules DEF Numbered
    <3>2. i \in DOMAIN config.rules /\ IsMatch(Built(config).rules[i], s, o)
      BY <2>1, <3>1, AppliedMatches
    <3> HIDE DEF i
    <3>3. \/ config.rules[i].query = {}
          \/ \E all \in config.rules[i].query : \A q \in all : ItemMet(q, o)
      BY <2>1, <3>2, QueryMet, Zenon
    <3> QED
      BY <3>3 DEF i
  <2> QED
    BY <2>2, <2>3, <2>4
<1>2. TypeOKAccess /\ BypassIsForAnyone /\ SecondFactorEnabled /\ CheckPolicyAgrees
        /\ AppliedQueryMet => RulesSound
  BY DEF RulesSound
<1> QED
  BY <1>1, <1>2, AccessTypes, BypassForAnyone, IInvHolds, PTL
=============================================================================
