-------------------------- MODULE MCUserProviders ---------------------------
(***************************************************************************)
(* The user backends for TLC: the file database, the connection pool of    *)
(* the LDAP backend, and the calls of that backend.  Which of them runs is *)
(* chosen at the start.                                                    *)
(***************************************************************************)
EXTENDS FileUserDatabase, Sequences, TLC

CONSTANTS Clients, NoClient, None, Failed

VARIABLES part, pool, size, closing, wake, conn, starting, closer, at, client, then,
          setup, provider, dir, free, call, changes

poolVars == <<pool, size, closing, wake, conn, starting, closer, at, client, then>>

\* Pools of one client, which the two workers contend for, and of two.
Pool1 == INSTANCE LDAPClientPool WITH
    Workers <- Writers, pc <- at, Count <- 1, CloseTimeout <- TRUE
Pool2 == INSTANCE LDAPClientPool WITH
    Workers <- Writers, pc <- at, Count <- 2, CloseTimeout <- TRUE

providerVars == <<setup, provider, dir, free, call, changes>>

\* Users of the directory: one as it should be, one without, with an empty or
\* with two values of the username attribute, and one whose attributes do not
\* parse; Extended roles share attributes with others.
User(dn, names, others) == [dn |-> dn, values |-> ("uid" :> names) @@ others]
Alice == User("dn", <<"alice">>, "cn" :> <<"Alice">> @@ "mail" :> <<"a", "b">> @@ "url" :> <<"https://x">>
                                 @@ "lang" :> <<"en">> @@ "age" :> <<"1">> @@ "flags" :> <<"true", "false">>)
Odd == User("dn", <<"alice">>, "url" :> <<"ftp://x">> @@ "age" :> <<"old">>)
Lists == {<<>>, <<Alice>>}
Shapes == Lists \cup {<<Odd>>, <<User("dn", <<>>, <<>>)>>, <<User("dn", <<"">>, <<>>)>>,
                      <<User("dn", <<"a", "b">>, <<>>)>>, <<User("", <<"alice">>, <<>>)>>,
                      <<User("dn", <<"alice">>, "url" :> <<"ftp://x">>)>>,
                      <<User("dn", <<"alice">>, "lang" :> <<"?">>)>>,
                      <<User("dn", <<"alice">>, "flags" :> <<"1">>)>>}
Group(dn, values) == [dn |-> dn, values |-> values]
NamedGroups == <<Group("g1", "cn" :> <<"admins">>), Group("g2", "cn" :> <<"users">>)>>
OddGroups == <<Group("g1", "cn" :> <<"admins">>), Group("g2", "cn" :> <<"x", "y">>),
               Group("g3", <<>>), Group("g4", "cn" :> <<"">>)>>

Directory(mode, filter, groups, users, ops, count) ==
    [attributes |-> [username |-> "uid", display_name |-> "cn", mail |-> "mail", member_of |-> "memberOf"],
     extra |-> <<>>, usersFilter |-> <<"{attr}", "{input}", "{date-time}">>, groupsFilter |-> filter,
     mode |-> mode, groups |-> groups, users |-> users, ops |-> ops, count |-> count, pooled |-> TRUE,
     referred |-> <<>>, refers |-> FALSE, permitReferrals |-> FALSE, implementation |-> "custom",
     roots |-> <<>>]

Root(extensions) == <<"supportedExtension" :> extensions @@ "supportedLDAPVersion" :> <<"3">>>>

\* Two callers read the groups, or change the password, as the directory changes.
Overlaps ==
    {Directory("filter", <<"{dn}">>, NamedGroups, {<<Alice>>}, {"details"}, 1),
     Directory("memberof", <<"any group">>, NamedGroups, {<<Alice>>}, {"details"}, 2)}
    \cup {[Directory("filter", <<"{username}">>, <<>>, {<<Alice>>}, {"check", "update", "change"}, n)
            EXCEPT !.roots = r] : n \in 1..2, r \in {<<>>, Root(<<"pwd modify">>)}}

\* One caller, any shape of entries, groups, attributes, referrals.
Varied ==
    {[Directory(mode, filter, OddGroups, Shapes, {"details", "extended"}, 1)
        EXCEPT !.attributes = a, !.extra = x] :
        mode \in {"filter", "memberof"},
        filter \in {<<"{input}">>, <<"{memberof:dn}">>, <<"{attr}", "{memberof:rdn}">>},
        a \in {[username |-> "uid", display_name |-> "cn", mail |-> "mail", member_of |-> "memberOf",
                profile |-> "url", locale |-> "lang", given_name |-> ""],
               [username |-> "uid", display_name |-> "uid", mail |-> "uid", member_of |-> "memberOf",
                profile |-> "url", website |-> "url", country |-> "cn"]},
        x \in {<<>>, "age" :> [multi |-> FALSE, type |-> "integer"] @@
                      "flags" :> [multi |-> TRUE, type |-> "boolean"]}}
    \cup {[Directory("filter", <<"{dn}">>, NamedGroups, Lists, {"check", "details", "update", "change"}, 2)
            EXCEPT !.refers = TRUE, !.permitReferrals = p, !.implementation = i, !.referred = r, !.pooled = p] :
            p \in BOOLEAN, i \in {"custom", "activedirectory"},
            r \in {<<>>, <<Alice>>, <<User("other", <<"alice">>, <<>>)>>}}

Both == INSTANCE LDAPUserProvider WITH
    Setups <- Overlaps, Callers <- Writers, Secrets <- Passwords, MaxChanges <- 1
One == INSTANCE LDAPUserProvider WITH
    Setups <- Varied, Callers <- {Nobody}, Secrets <- Passwords, MaxChanges <- 0

NoProvider ==
    setup = None /\ provider = None /\ dir = None /\ free = 0 /\ call = None /\ changes = 0

ASSUME PoolAssumption == Pool1!PoolAssumption /\ Pool2!PoolAssumption

Parts == {"file", "edits", "pool1", "pool2", "calls", "shapes"}

\* "file": two goroutines change accounts; "edits": one does, and another
\* program edits the file as well; "pool1" and "pool2": the connection pools.
MCInit ==
    /\ part \in Parts
    /\ Init
    /\ IF part = "pool1" THEN Pool1!Init ELSE Pool2!Init
    /\ part \notin {"file", "edits"} => file = [u \in Users |-> NoAccount]
    /\ CASE part = "calls" -> Both!Init
         [] part = "shapes" -> One!Init
         [] OTHER -> NoProvider

MCNext ==
    /\ \/ part = "file" /\ Next /\ edits' = 0 /\ UNCHANGED <<poolVars, providerVars>>
       \/ /\ part = "edits" /\ Next /\ UNCHANGED <<poolVars, providerVars>>
          /\ Cardinality({w \in Writers : pc'[w] # "idle"}) <= 1
       \/ part = "pool1" /\ Pool1!Next /\ UNCHANGED <<vars, providerVars>>
       \/ part = "pool2" /\ Pool2!Next /\ UNCHANGED <<vars, providerVars>>
       \/ part = "calls" /\ Both!Next /\ UNCHANGED <<vars, poolVars>>
       \/ part = "shapes" /\ One!Next /\ UNCHANGED <<vars, poolVars>>
    /\ UNCHANGED part

MCSpec == MCInit /\ [][MCNext]_<<vars, poolVars, providerVars, part>>

Symmetry == Permutations(Writers) \cup Permutations(Passwords)

\* The pool of the LDAP backend, of either size: the factory accounts for
\* exactly the clients pooled, checked out or being dialed, in the middle of
\* growth, refresh, release and Close; no two workers share a connection; there
\* are never more connections than pooling.count; and when the pool was closed
\* and everybody is done nothing is left open (PooledLDAPClientFactory).
\* The calls of the LDAP provider, two at a time as an administrator changes the
\* directory, and one at a time on every shape of entry: every client taken is
\* returned whatever way a call ends; no group is reported that the user was not
\* in during the call; a password accepted or replaced was the right one during
\* the call, and a change refused as incorrect or weak wrote nothing; and the
\* searches ask for every attribute the profiles are made of
\* (LDAPUserProvider, ldap_util.go).
LDAPSound ==
    /\ part = "pool1" => Pool1!TypeOKPool /\ Pool1!ConnectionsBounded
    /\ part = "pool2" => Pool2!TypeOKPool /\ Pool2!ConnectionsBounded
    /\ Pool1!SlotsExact
    /\ Pool1!Exclusive
    /\ Pool1!NothingLeaks
    /\ part = "calls" => Both!ProviderInv
    /\ part = "shapes" => One!ProviderInv
=============================================================================
