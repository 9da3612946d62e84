-------------------------- MODULE OAuth2Identifiers --------------------------
(***************************************************************************)
(* The opaque identifiers that stand for users towards OpenID Connect      *)
(* clients (the sub claim).  Authorization requests look the identifier of *)
(* a (service, sector, user) triple up and create it when there is none,   *)
(* racing with each other, with other instances and with the administrator *)
(* commands that add, generate and import identifiers in other processes.  *)
(***************************************************************************)
EXTENDS Naturals, Sequences, FiniteSets, SequencesExt

CONSTANTS
    Keys,       \* (service, sector, user) triples
    RandomIds,  \* what uuid.NewRandom may draw
    Files,      \* sequences of rows that are imported; one row is the add command
    Logins,     \* authorization requests at a time
    Commands,   \* administrator commands at a time
    NoKey, NoId

Ids == RandomIds \cup UNION {{f[i].id : i \in DOMAIN f} : f \in Files}

IdentifiersAssumption ==
    /\ NoKey \notin Keys
    /\ NoId \notin RandomIds
    /\ \A f \in Files : \A i \in DOMAIN f : f[i].key \in Keys

VARIABLES
    rows,       \* the table user_opaque_identifier
    login,      \* the authorization requests
    command,    \* the administrator commands
    drawn,      \* identifiers drawn so far: uuid.NewRandom never repeats itself
    issued      \* history: the subject each authorization was given

vars == <<rows, login, command, drawn, issued>>

Row == [key : Keys, id : Ids \ {NoId}]
NoLogin == [pc |-> "idle", key |-> NoKey, id |-> NoId]
NoCommand == [pc |-> "idle", kind |-> "none", todo |-> <<>>]

Init ==
    /\ rows = {}
    /\ login = [l \in Logins |-> NoLogin]
    /\ command = [c \in Commands |-> NoCommand]
    /\ drawn = {}
    /\ issued = {}

-----------------------------------------------------------------------------
(* The storage provider *)

\* The two unique indexes of the table.
Conflicts(row) == {s \in rows : s.key = row.key \/ s.id = row.id}

\* SaveUserOpaqueIdentifier succeeds only when neither index is violated.
Accepts(row) == Conflicts(row) = {}

\* LoadUserOpaqueIdentifierBySignature.
Known(key) == {s.id : s \in {s \in rows : s.key = key}}

-----------------------------------------------------------------------------
(* GenerateOpaqueUserID *)

\* The identifier is returned to the handler.
Give(l, key, id) ==
    /\ issued' = issued \cup {[key |-> key, id |-> id]}
    /\ login' = [login EXCEPT ![l] = NoLogin]

\* The lookup: an identifier that is found is the answer, otherwise a new one is drawn.
Load(l, key) ==
    /\ login[l].pc = "idle"
    /\ IF Known(key) # {}
       THEN /\ \E id \in Known(key) : Give(l, key, id)
            /\ UNCHANGED drawn
       ELSE \E id \in RandomIds \ drawn :
               /\ login' = [login EXCEPT ![l] = [pc |-> "save", key |-> key, id |-> id]]
               /\ drawn' = drawn \cup {id}
               /\ UNCHANGED issued
    /\ UNCHANGED <<rows, command>>

\* The insert; a unique constraint violation makes the handler look again.
Save(l) ==
    LET row == [key |-> login[l].key, id |-> login[l].id] IN
    /\ login[l].pc = "save"
    /\ IF Accepts(row)
       THEN /\ rows' = rows \cup {row}
            /\ Give(l, row.key, row.id)
       ELSE /\ login' = [login EXCEPT ![l].pc = "reload"]
            /\ UNCHANGED <<rows, issued>>
    /\ UNCHANGED <<command, drawn>>

\* The second lookup: the identifier that was saved concurrently, or an error.
Reload(l) ==
    /\ login[l].pc = "reload"
    /\ IF Known(login[l].key) # {}
       THEN \E id \in Known(login[l].key) : Give(l, login[l].key, id)
       ELSE /\ login' = [login EXCEPT ![l].pc = "failed"]
            /\ UNCHANGED issued
    /\ UNCHANGED <<rows, command, drawn>>

\* Any other storage error ends the request; the user starts again.
Fail(l) ==
    /\ login[l].pc \in {"save", "reload", "failed"}
    /\ login' = [login EXCEPT ![l] = NoLogin]
    /\ UNCHANGED <<rows, command, drawn, issued>>

-----------------------------------------------------------------------------
(* The commands *)

\* storage user identifiers import and add: the file or the flags are read.
Import(c, file) ==
    /\ command[c].pc = "idle"
    /\ command' = [command EXCEPT ![c] = [pc |-> "save", kind |-> "import", todo |-> file]]
    /\ UNCHANGED <<rows, login, drawn, issued>>

\* The triples that have no identifier when generate loads the table.
Missing == {key \in Keys : Known(key) = {}}

\* storage user identifiers generate: the known identifiers are loaded once, and the
\* triples among them are skipped.
Generate(c) ==
    /\ command[c].pc = "idle"
    /\ command' = [command EXCEPT ![c] =
          [pc |-> "save", kind |-> "generate",
           todo |-> SetToSeq({[key |-> key, id |-> NoId] : key \in Missing})]]
    /\ UNCHANGED <<rows, login, drawn, issued>>

\* The next row is inserted, a generated one with a new identifier; the first error
\* ends the command and leaves what it has inserted.
Insert(c) ==
    /\ command[c].pc = "save"
    /\ command[c].todo # <<>>
    /\ LET next == Head(command[c].todo) IN
       \E id \in IF next.id = NoId THEN RandomIds \ drawn ELSE {next.id} :
          LET row == [key |-> next.key, id |-> id] IN
          /\ drawn' = IF next.id = NoId THEN drawn \cup {id} ELSE drawn
          /\ IF Accepts(row)
             THEN /\ rows' = rows \cup {row}
                  /\ command' = [command EXCEPT ![c].todo = Tail(@)]
             ELSE /\ command' = [command EXCEPT ![c].pc = "refused"]
                  /\ UNCHANGED rows
    /\ UNCHANGED <<login, issued>>

\* Every row was inserted: the command reports success.
Succeed(c) ==
    /\ command[c].pc = "save"
    /\ command[c].todo = <<>>
    /\ command' = [command EXCEPT ![c].pc = "done"]
    /\ UNCHANGED <<rows, login, drawn, issued>>

\* The command is killed, or it has ended and another one is run.
Leave(c) ==
    /\ command[c].pc # "idle"
    /\ command' = [command EXCEPT ![c] = NoCommand]
    /\ UNCHANGED <<rows, login, drawn, issued>>

Next ==
    \/ \E l \in Logins :
          \/ \E key \in Keys : Load(l, key)
          \/ Save(l)
          \/ Reload(l)
          \/ Fail(l)
    \/ \E c \in Commands :
          \/ \E file \in Files : Import(c, file)
          \/ Generate(c)
          \/ Insert(c)
          \/ Succeed(c)
          \/ Leave(c)

Spec == Init /\ [][Next]_vars

-----------------------------------------------------------------------------
\* The variables have the values the handlers and the commands give them.
TypeOK ==
    /\ rows \subseteq Row
    /\ \A l \in Logins :
          \/ login[l] = NoLogin
          \/ /\ login[l].pc \in {"save", "reload", "failed"}
             /\ login[l].key \in Keys
             /\ login[l].id \in drawn
    /\ \A c \in Commands : command[c].pc \in {"idle", "save", "refused", "done"}
    /\ drawn \subseteq RandomIds
    /\ issued \subseteq Row

\* A user has one subject in a sector for all time, and no two users share one,
\* whichever requests and commands raced to create it.
OneSubjectPerUser ==
    \A a, b \in issued : a.key = b.key <=> a.id = b.id

\* A subject that was handed out can be resolved to its user: UserDetailerFromSubject
\* dereferences the row it loads without checking that there is one.
SubjectsResolve == issued \subseteq rows

\* GetSubject fails only when the identifier it drew belongs to somebody else, never
\* because another request or command saved the same user first.
FailsOnCollision ==
    \A l \in Logins : login[l].pc = "failed" =>
        \E s \in rows : s.id = login[l].id /\ s.key # login[l].key

\* When generate reports success every triple it was asked for has an identifier,
\* although it loaded the known ones only once.
GeneratedAll ==
    \A c \in Commands : command[c].pc = "done" /\ command[c].kind = "generate" =>
        \A key \in Keys : Known(key) # {}
==============================================================================
