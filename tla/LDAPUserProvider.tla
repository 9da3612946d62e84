-------------------------- MODULE LDAPUserProvider --------------------------
(***************************************************************************)
(* The user provider of a directory server (ldap_user_provider.go,         *)
(* ldap_user_provider_lifecycle.go, ldap_util.go): calls that take a       *)
(* client, search the user, then bind, search the groups or set the        *)
(* password, one message at a time, while administrators change the        *)
(* directory.  How the pool makes and checks its clients is LDAPClientPool.*)
(*                                                                         *)
(* A filter is a sequence of parts, each a placeholder or what stands for  *)
(* it; an attribute of an entry is its list of values; "" is no value.     *)
(***************************************************************************)
EXTENDS Naturals, SequencesExt, TLC

CONSTANTS
    Setups,      \* provider configurations, with the users of the directory
    Callers,     \* goroutines that call the provider
    Secrets,     \* passwords
    MaxChanges,  \* bound on the changes of administrators
    None, Failed

VARIABLES setup, provider, dir, free, call, changes

----------------------------------------------------------------------------
(* Construction.                                                           *)

Placeholders == {"{input}", "{username}", "{dn}", "{memberof:dn}", "{memberof:rdn}",
                 "{date-time}", "{attr}"}   \* one for the kinds of time, one for the attributes

\* strings.ReplaceAll.
Substituted(filter, old, new) ==
    FlattenSeq([i \in DOMAIN filter |-> IF filter[i] = old THEN new ELSE <<filter[i]>>])

Attributes(c, roles) == {c.attributes[r] : r \in roles \cap DOMAIN c.attributes} \ {""}

BaseRoles == {"username", "mail", "display_name", "member_of"}
TextRoles == {"given_name", "street", "country"}
URIRoles == {"profile", "website"}
ExtendedRoles == TextRoles \cup URIRoles \cup {"locale"}

\* The attributes asked for are those the profile is read from.
parseDynamicUsersConfiguration(c) ==
    [filter |-> Substituted(c.usersFilter, "{attr}", <<"username attribute">>),
     attributes |-> Attributes(c, BaseRoles),
     extended |-> Attributes(c, BaseRoles \cup ExtendedRoles) \cup DOMAIN c.extra]

parseDynamicGroupsConfiguration(c) ==
    [filter |-> Substituted(c.groupsFilter, "{attr}", <<"username attribute">>),
     replaces |-> Placeholders \cap ToSet(c.groupsFilter)]

NewLDAPUserProviderWithFactory(c) ==
    [users |-> parseDynamicUsersConfiguration(c), groups |-> parseDynamicGroupsConfiguration(c)]

resolveUsersFilter(input) ==
    Substituted(Substituted(provider.users.filter, "{input}", <<input>>), "{date-time}", <<"now">>)

\* Every value of memberOf in a term of its own; without values a term remains,
\* with nothing to compare.
MemberOfTerms(profile) == IF profile.memberOf = {} THEN <<"nothing">> ELSE SetToSeq(profile.memberOf)

resolveGroupsFilter(input, profile) ==
    LET replace(filter, old, new) ==
            IF old \in provider.groups.replaces THEN Substituted(filter, old, new) ELSE filter
    IN  replace(replace(replace(replace(replace(provider.groups.filter,
            "{input}", <<input>>), "{username}", <<profile.username>>), "{dn}", <<profile.dn>>),
            "{memberof:dn}", MemberOfTerms(profile)), "{memberof:rdn}", MemberOfTerms(profile))

----------------------------------------------------------------------------
(* Discovery.                                                              *)

ldapGetLDAPVersionDiscoveryFromLDAPEntry(values) ==
    IF \A i \in DOMAIN values : values[i] \in {"2", "3"} THEN values ELSE <<>>
ldapGetControlsDiscoveryFromLDAPEntry(values) ==
    [hints |-> "hints" \in ToSet(values), deprecated |-> "deprecated hints" \in ToSet(values)]
ldapGetExtensionDiscoveryFromLDAPEntry(values) ==
    [pwdModify |-> "pwd modify" \in ToSet(values), tls |-> "tls" \in ToSet(values)]

ldapGetFunctionalityDiscoveryFromLDAPEntry(values) == Len(values) = 1 /\ values[1] \in {"1", "2"}

ValuesOf(entry, attribute) == IF attribute \in DOMAIN entry THEN entry[attribute] ELSE <<>>

ldapGetDiscoveryFromLDAPEntry(root) ==
    [controls |-> ldapGetControlsDiscoveryFromLDAPEntry(ValuesOf(root, "supportedControl")),
     extensions |-> ldapGetExtensionDiscoveryFromLDAPEntry(ValuesOf(root, "supportedExtension")),
     versions |-> ldapGetLDAPVersionDiscoveryFromLDAPEntry(ValuesOf(root, "supportedLDAPVersion")),
     vendor |-> IF ValuesOf(root, "vendorName") # <<>> THEN "named"
                ELSE IF ldapGetFunctionalityDiscoveryFromLDAPEntry(ValuesOf(root, "domainFunctionality"))
                     THEN "Microsoft"
                ELSE IF "OpenLDAProotDSE" \in ToSet(ValuesOf(root, "objectClass")) THEN "OpenLDAP" ELSE ""]

\* No discovery without a single root entry.
ldapGetFeatureSupportFromClient ==
    IF Len(setup.roots) # 1 THEN ldapGetDiscoveryFromLDAPEntry(<<>>)
    ELSE ldapGetDiscoveryFromLDAPEntry(setup.roots[1])

----------------------------------------------------------------------------
(* Searches.                                                               *)

\* The server gives the attributes that were asked for.
Requested(entry, attributes) ==
    [entry EXCEPT !.values = [a \in DOMAIN entry.values \cap attributes |-> entry.values[a]]]

ldapEntriesContainsEntry(entry, entries) == \E i \in DOMAIN entries : entries[i].dn = entry.dn

\* The entries of a referred server are added unless their name is there.
searchReferral(entries, result) ==
    result \o SelectSeq(entries, LAMBDA e : ~ldapEntriesContainsEntry(e, result))

\* A referral is an error unless it is followed.
search(here, there) ==
    CASE dir.refers /\ ~setup.permitReferrals -> Failed
      [] dir.refers /\ setup.permitReferrals -> IF there = Failed THEN Failed ELSE searchReferral(there, here)
      [] OTHER -> here

getValuesFromEntry(entry, attribute) ==
    IF attribute = "" THEN <<>> ELSE ValuesOf(entry.values, attribute)
getValueFromEntry(entry, attribute) ==
    LET values == getValuesFromEntry(entry, attribute) IN IF values = <<>> THEN "" ELSE values[1]

AttributeOf(role) == IF role \in DOMAIN setup.attributes THEN setup.attributes[role] ELSE ""

getUserProfileResultToProfile(entry) ==
    LET names == getValuesFromEntry(entry, AttributeOf("username"))
    IN  IF Len(names) # 1 THEN Failed
        ELSE IF names[1] = "" \/ entry.dn = "" THEN Failed
        ELSE [dn |-> entry.dn, username |-> names[1],
              display |-> getValueFromEntry(entry, AttributeOf("display_name")),
              emails |-> getValuesFromEntry(entry, AttributeOf("mail")),
              memberOf |-> ToSet(getValuesFromEntry(entry, AttributeOf("member_of")))]

\* A number or a truth value must parse; one without a value is left out.
getExtraValueFromEntry(entry, attribute, type) ==
    LET value == getValueFromEntry(entry, attribute)
    IN  CASE type = "string" -> value
          [] value = "" -> None
          [] type = "integer" -> IF value \in {"1", "2"} THEN value ELSE Failed
          [] type = "boolean" -> IF value \in {"true", "false"} THEN value ELSE Failed

getExtraValueMultiFromEntry(entry, attribute, type) ==
    LET values == getValuesFromEntry(entry, attribute)
        parses == CASE type = "string" -> TRUE
                    [] type = "integer" -> \A i \in DOMAIN values : values[i] \in {"1", "2"}
                    [] type = "boolean" -> \A i \in DOMAIN values : values[i] \in {"true", "false"}
    IN  IF parses THEN values ELSE Failed

Extra(entry, attribute) ==
    LET p == setup.extra[attribute]
    IN  IF p.multi THEN getExtraValueMultiFromEntry(entry, attribute, p.type)
        ELSE getExtraValueFromEntry(entry, attribute, p.type)

getUserProfileResultToProfileExtended(entry) ==
    LET base == getUserProfileResultToProfile(entry)
        extra == [a \in DOMAIN setup.extra |-> Extra(entry, a)]
    IN  IF base = Failed \/ \E a \in DOMAIN extra : extra[a] = Failed THEN Failed
        ELSE base @@ [text |-> [r \in ExtendedRoles |-> getValueFromEntry(entry, AttributeOf(r))],
                      extra |-> [a \in {b \in DOMAIN extra : extra[b] # None} |-> extra[a]]]

parseAttributeURI(value) == value \in {"https://x", "http://x"}

\* An entry as it is now: memberOf follows the groups.
Entry(e) == [e EXCEPT !.values = ("memberOf" :> SetToSeq(dir.member)) @@ @]

\* The users found, of which there must be one.
Found(attributes, convert(_)) ==
    LET result == search([i \in DOMAIN dir.users |-> Requested(Entry(dir.users[i]), attributes)],
                         [i \in DOMAIN dir.referred |-> Requested(Entry(dir.referred[i]), attributes)])
    IN  CASE result = Failed -> Failed
          [] result = <<>> -> None
          [] OTHER -> IF Len(result) > 1 THEN Failed ELSE convert(result[1])

getUserProfile == Found(provider.users.attributes, getUserProfileResultToProfile)
getUserProfileExtended == Found(provider.users.extended, getUserProfileResultToProfileExtended)

----------------------------------------------------------------------------
(* Groups.                                                                 *)

\* The server's side of a group filter: a part that names the group, or one of
\* its members, matches it.
Matches(filter, group) ==
    \E i \in DOMAIN filter :
        \/ filter[i] \in {"any group", group.dn}
        \/ group.dn \in dir.member /\ filter[i] \in {"alice", "dn"}

getUserGroupFromEntry(entry) ==
    LET names == ValuesOf(entry.values, "cn")
    IN  IF Len(names) = 1 THEN names[1] ELSE ""

GroupNames(entries) == {getUserGroupFromEntry(entries[i]) : i \in DOMAIN entries} \ {""}

getUserGroupsRequestFilter(result) == IF result = Failed THEN Failed ELSE GroupNames(result)

getUserGroupsRequestMemberOf(result, profile) ==
    IF result = Failed THEN Failed
    ELSE GroupNames(SelectSeq(result,
            LAMBDA e : DOMAIN e.values # {} /\ e.dn \in profile.memberOf))

getUserGroups(profile) ==
    LET filter == resolveGroupsFilter("alice", profile)
        result == search(SelectSeq(setup.groups, LAMBDA g : Matches(filter, g)), <<>>)
    IN  CASE setup.mode = "filter" -> getUserGroupsRequestFilter(result)
          [] setup.mode = "memberof" -> getUserGroupsRequestMemberOf(result, profile)

----------------------------------------------------------------------------
(* Calls.                                                                  *)

vars == <<setup, provider, dir, free, call, changes>>

Idle == [at |-> "idle", op |-> None, held |-> 0, old |-> None, new |-> None, profile |-> None,
         bind |-> None, answer |-> None, groups |-> {}, had |-> {}, right |-> {}, wrote |-> FALSE]

Init ==
    /\ setup \in Setups
    /\ provider = NewLDAPUserProviderWithFactory(setup)
    /\ \E users \in setup.users, secret \in Secrets, member \in SUBSET {g.dn : g \in ToSet(setup.groups)} :
           dir = [users |-> users, referred |-> setup.referred, refers |-> setup.refers,
                  member |-> member, secret |-> secret]
    /\ free = setup.count
    /\ call = [c \in Callers |-> Idle]
    /\ changes = 0

\* A client of the pool goes back to it; another one is closed.
Released(n) == IF setup.pooled THEN free + n ELSE free

Set(c, fields) == call' = [call EXCEPT ![c] = fields @@ @]

\* Every client that was obtained is released as the function returns.
Return(c, answer) ==
    /\ call' = [call EXCEPT ![c] = [held |-> 0, at |-> "done", answer |-> answer] @@ @]
    /\ free' = Released(call[c].held)
    /\ UNCHANGED <<setup, provider, dir, changes>>

Begin(c) ==
    /\ call[c].at = "idle"
    /\ \E op \in setup.ops, old \in Secrets \cup {None}, new \in Secrets :
          /\ op \notin {"change", "update"} => new = CHOOSE s \in Secrets : TRUE
          /\ op \notin {"change", "check"} => old = None
          /\ Set(c, [at |-> "client", op |-> op, old |-> old, new |-> new,
                     had |-> dir.member, right |-> {dir.secret}])
    /\ UNCHANGED <<setup, provider, dir, free, changes>>

\* A client with the configured options comes from the pool, unless its timeout
\* passes first, or is dialed where there is no pool.
GetClient(c) ==
    /\ call[c].at \in {"client", "client for check"}
    /\ \/ /\ setup.pooled => free > 0
          /\ free' = IF setup.pooled THEN free - 1 ELSE free
          /\ Set(c, [held |-> call[c].held + 1,
                     at |-> IF call[c].at = "client" THEN "profile" ELSE "profile for check"])
          /\ UNCHANGED <<setup, provider, dir, changes>>
       \/ setup.pooled /\ free = 0 /\ Return(c, "error")

Profile(c) ==
    /\ call[c].at \in {"profile", "profile for check"}
    /\ LET profile == IF call[c].op = "extended" THEN getUserProfileExtended ELSE getUserProfile
       IN  IF profile \in {None, Failed} THEN Return(c, IF profile = None THEN "not found" ELSE "error")
           ELSE /\ Set(c, IF call[c].at = "profile for check" THEN [at |-> "bind", bind |-> profile.dn]
                          ELSE [profile |-> profile, bind |-> profile.dn,
                                at |-> CASE call[c].op = "check" -> "bind"
                                         [] call[c].op = "update" -> "set"
                                         [] call[c].op = "change" -> "client for check"
                                         [] OTHER -> "groups"])
                /\ UNCHANGED <<setup, provider, dir, free, changes>>

Groups(c) ==
    /\ call[c].at = "groups"
    /\ LET groups == getUserGroups(call[c].profile)
       IN  IF groups = Failed THEN Return(c, "error")
           ELSE Set(c, [groups |-> groups, at |-> IF call[c].op = "details" THEN "found" ELSE "parse"])
                /\ UNCHANGED <<setup, provider, dir, free, changes>>

GetDetails(c) == call[c].at = "found" /\ Return(c, "ok")

\* The addresses and the locale must parse.
GetDetailsExtended(c) ==
    LET text == call[c].profile.text
        parses == /\ \A r \in URIRoles : text[r] = "" \/ parseAttributeURI(text[r])
                  /\ text["locale"] \in {"", "en"}
    IN  call[c].at = "parse" /\ Return(c, IF parses THEN "ok" ELSE "error")

HasEntry(dn) == \E e \in ToSet(dir.users) \cup ToSet(dir.referred) : e.dn = dn

\* The bind is made on a connection of its own, outside of the pool; without the
\* option to permit it, one with an empty password (None) is refused.
ldapDialBindOpts(dn, password) == password # None /\ HasEntry(dn) /\ password = dir.secret

CheckUserPassword(c) ==
    /\ call[c].at = "bind" /\ call[c].op = "check"
    /\ Return(c, IF ldapDialBindOpts(call[c].bind, call[c].old) THEN "ok" ELSE "refused")

\* The check of the old password holds a second client until it returns.
ChangePassword(c) ==
    /\ call[c].at = "bind" /\ call[c].op = "change"
    /\ CASE ~ldapDialBindOpts(call[c].bind, call[c].old) -> Return(c, "incorrect")
         [] OTHER -> IF call[c].old = call[c].new THEN Return(c, "weak")
                     ELSE /\ Set(c, [at |-> "set", held |-> call[c].held - 1])
                          /\ free' = Released(1)
                          /\ UNCHANGED <<setup, provider, dir, changes>>

\* How the password is written: only the extension carries the old password,
\* which is left empty by UpdatePassword.
Method ==
    CASE setup.implementation = "activedirectory" -> "unicodePwd"
      [] OTHER -> IF ldapGetFeatureSupportFromClient.extensions.pwdModify THEN "extension" ELSE "userPassword"

\* The server's answer to a write.
Results(c) ==
    {"success", "constraint", "lost"}
        \cup IF ~HasEntry(call[c].profile.dn) THEN {"no such object"} ELSE {}
        \cup IF Method = "extension" /\ call[c].op = "change" /\ call[c].old # dir.secret
             THEN {"invalid credentials"} ELSE {}

Possible(c, result) ==
    /\ "no such object" \in Results(c) => result = "no such object"
    /\ "invalid credentials" \in Results(c) => result # "success"
    /\ result \in Results(c)

\* A referral is followed once; whatever fails there is reported as the referral.
modify(result) ==
    IF ~dir.refers THEN result
    ELSE IF ~setup.permitReferrals THEN "referral"
    ELSE IF result = "success" THEN "success" ELSE "referral"

pwdModify(result) ==
    IF ~dir.refers THEN result
    ELSE IF ~setup.permitReferrals THEN "referral"
    ELSE IF result = "success" THEN "success" ELSE "referral"

Classified(code) ==
    CASE code = "success" -> "ok"
      [] code = "invalid credentials" -> "incorrect"
      [] code = "constraint" -> "weak"
      [] OTHER -> "failed"

\* The write; its answer may be lost after it was made.
setPassword(c) ==
    /\ call[c].at = "set"
    /\ \E result \in {"success", "constraint", "lost", "no such object", "invalid credentials"} :
       LET code == IF Method = "extension" THEN pwdModify(result) ELSE modify(result)
           follows == dir.refers => setup.permitReferrals
       IN  /\ Possible(c, result)
           /\ \E written \in IF follows /\ result = "success" THEN {TRUE}
                            ELSE IF follows /\ result = "lost" THEN BOOLEAN ELSE {FALSE} :
                 /\ dir' = IF written THEN [dir EXCEPT !.secret = call[c].new] ELSE dir
                 /\ call' = [d \in Callers |->
                       LET after == IF written THEN [call[d] EXCEPT !.right = @ \cup {call[c].new}] ELSE call[d]
                       IN  IF d # c THEN after
                           ELSE [held |-> 0, at |-> "done", wrote |-> written,
                                 answer |-> IF call[c].op = "change" THEN Classified(code)
                                            ELSE IF code = "success" THEN "ok" ELSE "error"] @@ after]
           /\ free' = Released(call[c].held)
    /\ UNCHANGED <<setup, provider, changes>>

Answered(c) ==
    /\ call[c].at = "done"
    /\ call' = [call EXCEPT ![c] = Idle]
    /\ UNCHANGED <<setup, provider, dir, free, changes>>

\* An administrator sets the password, changes the groups, or the entries.
Administer ==
    /\ changes < MaxChanges
    /\ changes' = changes + 1
    /\ dir' \in {[dir EXCEPT !.secret = p] : p \in Secrets}
              \cup {[dir EXCEPT !.member = m] : m \in SUBSET {g.dn : g \in ToSet(setup.groups)}}
              \cup {[dir EXCEPT !.users = u] : u \in setup.users}
    /\ call' = [c \in Callers |-> IF call[c].at = "idle" THEN call[c]
                                 ELSE [call[c] EXCEPT !.had = @ \cup dir'.member,
                                                      !.right = @ \cup {dir'.secret}]]
    /\ UNCHANGED <<setup, provider, free>>

Step(c) ==
    \/ Begin(c) \/ GetClient(c) \/ Profile(c) \/ Groups(c) \/ GetDetails(c) \/ GetDetailsExtended(c)
    \/ CheckUserPassword(c) \/ ChangePassword(c) \/ setPassword(c) \/ Answered(c)

Next == (\E c \in Callers : Step(c)) \/ Administer

----------------------------------------------------------------------------
(* Properties.                                                             *)

Done(c, ops, answers) == call[c].at = "done" /\ call[c].op \in ops /\ call[c].answer \in answers

\* Whatever way a call ends, the clients it took are back, the second one of a
\* password change included (the deferred ReleaseClient calls).
ClientsReturned ==
    /\ setup.pooled => free + FoldSet(LAMBDA c, n : n + call[c].held, 0, Callers) = setup.count
    /\ \A c \in Callers : call[c].at \in {"idle", "done"} => call[c].held = 0

\* Between the two searches of GetDetails the groups may change, but no group is
\* reported that the user was not in at some time of the call, in either mode of
\* the group search (getUserGroups).
GroupsWereHeld ==
    \A c \in Callers : Done(c, {"details", "extended"}, {"ok"}) =>
        \A n \in call[c].groups : \E g \in ToSet(setup.groups) :
            g.dn \in call[c].had /\ getUserGroupFromEntry(g) = n

\* A password that was accepted, or replaced, was the right one at some time of
\* the call, whatever was written meanwhile; it is replaced by another one; and
\* a change refused as incorrect or weak wrote nothing (CheckUserPassword,
\* ChangePassword, setPassword).
PasswordsRight ==
    \A c \in Callers :
        /\ Done(c, {"check", "change"}, {"ok"}) => call[c].old \in call[c].right
        /\ Done(c, {"change"}, {"ok"}) => call[c].wrote /\ call[c].new # call[c].old
        /\ Done(c, {"check", "change"}, {"incorrect", "weak", "refused", "not found"}) => ~call[c].wrote

\* The search asks for every attribute that the profile is made of, under any
\* assignment of attributes to roles; the extended profile agrees with the plain
\* one; and no placeholder survives in a filter (parseDynamicUsersConfiguration,
\* parseDynamicGroupsConfiguration, getUserProfileResultToProfileExtended).
ProfilesComplete ==
    /\ \A e \in ToSet(dir.users) \cup ToSet(dir.referred) :
        LET plain == getUserProfileResultToProfile(Requested(Entry(e), provider.users.attributes))
            full == getUserProfileResultToProfileExtended(Requested(Entry(e), provider.users.extended))
        IN  /\ full = getUserProfileResultToProfileExtended(Entry(e))
            /\ full # Failed => \A f \in {"dn", "username", "display", "emails", "memberOf"} : full[f] = plain[f]
            /\ plain # Failed => Placeholders \cap ToSet(resolveGroupsFilter("alice", plain)) = {}
    /\ Placeholders \cap ToSet(resolveUsersFilter("alice")) = {}

ProviderInv == ClientsReturned /\ GroupsWereHeld /\ PasswordsRight /\ ProfilesComplete
=============================================================================
