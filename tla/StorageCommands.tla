-------------------------- MODULE StorageCommands --------------------------
(***************************************************************************)
(* The `authelia storage user ...` and `authelia storage bans list`        *)
(* commands, run by an administrator beside a portal that serves requests: *)
(* exports and lists that page through a table, imports that save row by   *)
(* row, the generation and deletion of one-time password configurations    *)
(* and the deletion of WebAuthn credentials.                               *)
(*                                                                         *)
(* One command runs, on one table.  `rows` is the table in the order a     *)
(* query without ORDER BY returns it: by row id on SQLite and MySQL, where *)
(* a replaced row gets a new id, and in heap order on PostgreSQL, where a  *)
(* written row may land anywhere.  A row has a unique key: the user of a   *)
(* TOTP configuration, the key id of a WebAuthn credential, the id of a    *)
(* ban or of an opaque identifier.                                         *)
(***************************************************************************)
EXTENDS Naturals, Sequences, SequencesExt, FiniteSets

CONSTANTS Users,     \* usernames
          Kids,      \* WebAuthn key ids, ids of bans and identifiers
          Values,    \* secrets of TOTP configurations
          Limit,     \* the size of a page
          MaxRows,   \* bound: rows of the table
          MaxWrites, \* bound: requests of the portal during a command
          None

VARIABLES table,     \* the table the command is about
          engine,    \* "rowid" or "heap"
          rows,      \* the table, in scan order
          file,      \* the rows in the export file, or None
          cmd,       \* the running command, or None once it is over
          result,    \* how it ended, None before
          stayed,    \* ghost: rows stored, unmoved, since the command started
          met,       \* ghost: rows stored at any time since then
          shifted,   \* ghost: a row was removed or moved since then
          writes     \* requests of the portal so far

PagingAssumption == Limit \in Nat \ {0} /\ MaxRows \in Nat /\ MaxWrites \in Nat

Descriptions == {"key", "spare"}

RowsOf(t) == CASE t = "totp"        -> [key : Users, user : Users, val : Values]
               [] t = "webauthn"    -> [key : Kids, user : Users, val : Descriptions]
               [] t \in {"bans", "identifiers"} -> [key : Kids, user : Users, val : {None}]

\* Rows the table can hold: a configuration is keyed by its user, and a user's
\* credentials have different descriptions (unique index).
Legal(s) ==
  /\ table = "totp" => \A i \in DOMAIN s : s[i].key = s[i].user
  /\ \A i, j \in DOMAIN s : i # j =>
       /\ s[i].key # s[j].key
       /\ table = "webauthn" => <<s[i].user, s[i].val>> # <<s[j].user, s[j].val>>

Without(s, k) == SelectSeq(s, LAMBDA r : r.key # k)

\* The tables after writing r, over the row with its key if there is one.
Written(s, r) ==
  LET rest == Without(s, r.key)
  IN IF engine = "rowid" THEN {Append(rest, r)}
     ELSE {InsertAt(rest, i, r) : i \in 1 .. Len(rest) + 1}

\* Several pages of the table, of one page, and none.
InitRows == {s \in BoundedSeq(RowsOf(table), MaxRows) : Legal(s)}

InitCommands ==
  /\ table \in {"totp", "webauthn", "bans", "identifiers"}
  /\ engine \in {"rowid", "heap"}
  /\ rows \in InitRows
  /\ file \in {None} \cup {s \in BoundedSeq(RowsOf(table), 2) : Len(s) = 2 /\ Legal(<<s[1]>>) /\ Legal(<<s[2]>>)}
  /\ cmd = [op |-> "none"] /\ result = None
  /\ stayed = {} /\ met = {} /\ shifted = FALSE /\ writes = 0

-----------------------------------------------------------------------------
(* The ghosts follow every change of the table. *)
Follow(new) ==
  /\ rows' = new
  /\ stayed' = stayed \cap Range(new)
  /\ met' = met \cup Range(new)
  /\ shifted' = (shifted \/ ~IsPrefix(rows, new))

Started(c) ==
  /\ cmd = [op |-> "none"]
  /\ cmd' = c
  /\ stayed' = Range(rows) /\ met' = Range(rows) /\ shifted' = FALSE
  /\ UNCHANGED <<table, engine, rows, file, result, writes>>

End(r) == cmd' = None /\ result' = r

Untouched == UNCHANGED <<rows, stayed, met, shifted>>

Idle == cmd \in {[op |-> "none"], None}

-----------------------------------------------------------------------------
(* The portal, while the command runs. *)

\* SaveTOTPConfiguration (an upsert), SaveWebAuthnCredential (an insert), a
\* new ban or a new identifier.
Save(r) ==
  /\ ~Idle /\ writes < MaxWrites /\ Len(Without(rows, r.key)) < MaxRows
  /\ r \in RowsOf(table)
  /\ table # "totp" => r.key \notin {rows[i].key : i \in DOMAIN rows}
  /\ \E new \in Written(rows, r) : Legal(new) /\ Follow(new)
  /\ writes' = writes + 1
  /\ UNCHANGED <<table, engine, file, cmd, result>>

\* A sign-in with the factor (UpdateTOTPConfigurationSignIn,
\* UpdateWebAuthnCredentialSignIn) writes its row again where it is on SQLite
\* and MySQL, and anywhere in a PostgreSQL heap.
SignIn(i) ==
  /\ ~Idle /\ writes < MaxWrites
  /\ table \in {"totp", "webauthn"} /\ engine = "heap"
  /\ \E new \in Written(rows, rows[i]) :
       /\ rows' = new
       /\ stayed' = stayed \ (IF new = rows THEN {} ELSE {rows[i]})
       /\ met' = met
       /\ shifted' = (shifted \/ new # rows)
  /\ writes' = writes + 1
  /\ UNCHANGED <<table, engine, file, cmd, result>>

\* DeleteTOTPConfiguration, DeleteWebAuthnCredential; a ban that expires or is
\* revoked is left out by the query.
RemoveRow(i) ==
  /\ ~Idle /\ writes < MaxWrites /\ table # "identifiers"
  /\ Follow(Without(rows, rows[i].key))
  /\ writes' = writes + 1
  /\ UNCHANGED <<table, engine, file, cmd, result>>

-----------------------------------------------------------------------------
(* Commands that page through the table.  All run on a schema that is up   *)
(* to date (CheckSchema), and each first looks at where it would write: a  *)
(* YAML export refuses an existing file, a CSV export overwrites it.       *)

PagedCommands ==
  [totp |-> {"totp export", "totp export uri", "totp export csv", "totp export png"},
   webauthn |-> {"webauthn export", "webauthn list", "webauthn verify"},
   bans |-> {"bans list ip", "bans list user"}]

StartPaging(op) == Started([op |-> op, page |-> 0, out |-> <<>>])

StorageUserWebAuthnExport == table = "webauthn" /\ file = None /\ StartPaging("webauthn export")
StorageUserWebAuthnListAll == table = "webauthn" /\ StartPaging("webauthn list")
StorageUserWebAuthnVerify == table = "webauthn" /\ StartPaging("webauthn verify")
StorageUserTOTPExport == table = "totp" /\ file = None /\ StartPaging("totp export")
StorageUserTOTPExportURI == table = "totp" /\ StartPaging("totp export uri")
StorageUserTOTPExportCSV == table = "totp" /\ StartPaging("totp export csv")
StorageUserTOTPExportPNG == table = "totp" /\ StartPaging("totp export png")
StorageBansList == table = "bans" /\ \E op \in PagedCommands.bans : StartPaging(op)

\* LIMIT limit OFFSET limit * page, in the order of the scan.
Page(page) == SubSeq(rows, Limit * page + 1, LET end == Limit * (page + 1)
                                             IN IF end < Len(rows) THEN end ELSE Len(rows))

LoadTOTPConfigurations(page) == Page(page)
LoadWebAuthnCredentials(page) == Page(page)
LoadBannedUsers(page) == Page(page)
LoadBannedIPs(page) == Page(page)

\* One round of a command's loop, given the page it read: a short page is the
\* last.  Then no output at all may be an error, and the output may go to the
\* file.
Round(op, page, emptyFails, writesFile) ==
  /\ cmd # None /\ cmd.op = op
  /\ LET out == cmd.out \o page
     IN IF Len(page) = Limit
        THEN /\ cmd' = [cmd EXCEPT !.page = @ + 1, !.out = out]
             /\ UNCHANGED <<file, result>>
        ELSE IF emptyFails /\ out = <<>>
        THEN End([error |-> TRUE]) /\ UNCHANGED file
        ELSE /\ End([error |-> FALSE, op |-> op, out |-> out])
             /\ file' = IF writesFile THEN out ELSE file
  /\ Untouched /\ UNCHANGED <<table, engine, writes>>

RunTOTPExport == Round("totp export", LoadTOTPConfigurations(cmd.page), TRUE, TRUE)
RunTOTPExportURI == Round("totp export uri", LoadTOTPConfigurations(cmd.page), FALSE, FALSE)
RunTOTPExportCSV == Round("totp export csv", LoadTOTPConfigurations(cmd.page), FALSE, TRUE)
RunTOTPExportPNG == Round("totp export png", LoadTOTPConfigurations(cmd.page), FALSE, FALSE)
RunWebAuthnExport == Round("webauthn export", LoadWebAuthnCredentials(cmd.page), TRUE, TRUE)
RunWebAuthnListAll == Round("webauthn list", LoadWebAuthnCredentials(cmd.page), TRUE, FALSE)
RunWebAuthnVerify == Round("webauthn verify", LoadWebAuthnCredentials(cmd.page), TRUE, FALSE)
RunBansListIP == Round("bans list ip", LoadBannedIPs(cmd.page), FALSE, FALSE)
RunBansListUser == Round("bans list user", LoadBannedUsers(cmd.page), FALSE, FALSE)

\* `user identifiers export`: LoadUserOpaqueIdentifiers is one query.
StorageUserIdentifiersExport ==
  /\ cmd = [op |-> "none"] /\ table = "identifiers" /\ file = None /\ rows # <<>>
  /\ file' = rows /\ stayed' = Range(rows) /\ met' = Range(rows) /\ shifted' = FALSE
  /\ End([error |-> FALSE, op |-> "identifiers export", out |-> rows])
  /\ UNCHANGED <<table, engine, rows, writes>>

\* `user webauthn list <user>`: one query, an error when nothing is found.
StorageUserWebAuthnList(u) ==
  /\ cmd = [op |-> "none"] /\ table = "webauthn"
  /\ LET own == SelectSeq(rows, LAMBDA r : r.user = u)
     IN End(IF own = <<>> THEN [error |-> TRUE]
            ELSE [error |-> FALSE, op |-> "own", out |-> own])
  /\ stayed' = Range(rows) /\ met' = Range(rows) /\ shifted' = FALSE
  /\ UNCHANGED <<table, engine, rows, file, writes>>

-----------------------------------------------------------------------------
(* Imports: the records of the file are saved one by one, in no            *)
(* transaction, until one is refused.                                      *)

StartImport ==
  /\ table \in {"totp", "webauthn"} /\ file # None /\ file # <<>>
  /\ Started([op |-> "import", todo |-> file])

\* SaveTOTPConfiguration replaces the user's configuration, and a WebAuthn
\* credential is inserted, unless its key id or its description is taken.
ImportRow ==
  /\ cmd # None /\ cmd.op = "import" /\ cmd.todo # <<>>
  /\ LET r == Head(cmd.todo)
         new == {s \in Written(rows, r) : Legal(s)}
         taken == table = "webauthn" /\ r.key \in {rows[i].key : i \in DOMAIN rows}
     IN IF taken \/ new = {}
        THEN End([error |-> TRUE]) /\ Untouched
        ELSE /\ \E s \in new : Follow(s)
             /\ cmd' = [cmd EXCEPT !.todo = Tail(@)] /\ UNCHANGED result
  /\ UNCHANGED <<table, engine, file, writes>>

ImportEnd ==
  /\ cmd # None /\ cmd.op = "import" /\ cmd.todo = <<>>
  /\ End([error |-> FALSE, op |-> "import", out |-> file])
  /\ Untouched /\ UNCHANGED <<table, engine, file, writes>>

-----------------------------------------------------------------------------
(* `user totp generate` and `user totp delete`: the configuration is       *)
(* looked up, and written or deleted in a statement of its own.            *)

HasTOTP(u) == \E i \in DOMAIN rows : rows[i].user = u

TOTPGenerateCheck(u, force) ==
  /\ table = "totp" /\ (force \/ ~HasTOTP(u))
  /\ Started([op |-> "generate", user |-> u, force |-> force])

TOTPGenerateSave ==
  /\ cmd # None /\ cmd.op = "generate"
  /\ \E v \in Values :
       \E new \in Written(rows, [key |-> cmd.user, user |-> cmd.user, val |-> v]) : Follow(new)
  /\ End([error |-> FALSE, op |-> "generate", out |-> <<>>])
  /\ UNCHANGED <<table, engine, file, writes>>
\* The image of --path is written first, and fails when the file exists or
\* cannot be written: nothing is saved.
TOTPGenerateImageFails ==
  /\ cmd # None /\ cmd.op = "generate"
  /\ End([error |-> TRUE]) /\ Untouched /\ UNCHANGED <<table, engine, file, writes>>

TOTPDeleteCheck(u) == table = "totp" /\ HasTOTP(u) /\ Started([op |-> "delete", user |-> u])

TOTPDeleteRun ==
  /\ cmd # None /\ cmd.op = "delete"
  /\ Follow(Without(rows, cmd.user))
  /\ End([error |-> FALSE, op |-> "delete", out |-> <<>>])
  /\ UNCHANGED <<table, engine, file, writes>>

\* `user webauthn delete`: by key id, whoever owns it; by user and description;
\* or all of the user's, which is also what a blank description deletes.
WebAuthnTargets(flag, u, kid, description) ==
  {r \in Range(rows) : IF flag = "kid" THEN r.key = kid
                       ELSE r.user = u /\ (flag = "all" \/ description \in {"", r.val})}

WebAuthnDelete(flag, u, kid, description) ==
  /\ cmd = [op |-> "none"] /\ table = "webauthn"
  /\ LET gone == WebAuthnTargets(flag, u, kid, description)
     IN /\ rows' = SelectSeq(rows, LAMBDA r : r \notin gone)
        /\ End([error |-> FALSE, op |-> "delete", flag |-> flag, user |-> u, kid |-> kid,
                description |-> description])
  /\ stayed' = Range(rows') /\ met' = Range(rows) /\ shifted' = FALSE
  /\ UNCHANGED <<table, engine, file, writes>>

-----------------------------------------------------------------------------
NextCommands ==
  \/ StorageUserWebAuthnExport \/ StorageUserWebAuthnListAll \/ StorageUserWebAuthnVerify
  \/ StorageUserTOTPExport \/ StorageUserTOTPExportURI \/ StorageUserTOTPExportCSV
  \/ StorageUserTOTPExportPNG \/ StorageBansList \/ StorageUserIdentifiersExport
  \/ RunTOTPExport \/ RunTOTPExportURI \/ RunTOTPExportCSV \/ RunTOTPExportPNG
  \/ RunWebAuthnExport \/ RunWebAuthnListAll \/ RunWebAuthnVerify
  \/ RunBansListIP \/ RunBansListUser
  \/ StartImport \/ ImportRow \/ ImportEnd
  \/ TOTPGenerateSave \/ TOTPGenerateImageFails \/ TOTPDeleteRun
  \/ \E u \in Users : \/ StorageUserWebAuthnList(u) \/ TOTPDeleteCheck(u)
                      \/ \E force \in BOOLEAN : TOTPGenerateCheck(u, force)
  \/ \E flag \in {"all", "description", "kid"}, u \in Users, kid \in Kids,
        description \in Descriptions \cup {""} : WebAuthnDelete(flag, u, kid, description)
  \/ \E r \in RowsOf(table) : Save(r)
  \/ \E i \in DOMAIN rows : SignIn(i) \/ RemoveRow(i)

-----------------------------------------------------------------------------
Output ==
  IF \/ result = None
     \/ result.error
     \/ result.op \notin UNION {PagedCommands[t] : t \in DOMAIN PagedCommands} \cup {"identifiers export"}
  THEN None ELSE result.out

\* Whatever the portal writes meanwhile, a finished export or list shows only
\* rows that were stored while it ran, and none of those stored all along is
\* missing or shown twice, unless a row was removed or moved under its pages
\* (LIMIT and OFFSET without ORDER BY): registrations alone never disturb it
\* where rows are scanned by their ids.
PagesComplete ==
  Output # None =>
    /\ Range(Output) \subseteq met
    /\ ~shifted => /\ stayed \subseteq Range(Output)
                   /\ \A i, j \in DOMAIN Output : i # j => Output[i].key # Output[j].key

\* An export file is never left empty by an export that succeeded, and holds
\* what the command showed.
ExportWritten ==
  (result # None /\ ~result.error /\ result.op \in {"totp export", "webauthn export", "identifiers export"})
    => file = result.out /\ file # <<>>

\* An import that succeeded and was not interfered with has stored every record
\* of its file, the last one of each user where configurations are replaced.
ImportStoresAll ==
  (result # None /\ ~result.error /\ result.op = "import" /\ writes = 0) =>
    \A i \in DOMAIN file :
      \/ file[i] \in Range(rows)
      \/ table = "totp" /\ \E j \in i + 1 .. Len(file) : file[j].user = file[i].user

TypeOKCommands ==
  /\ Legal(rows) /\ Range(rows) \subseteq RowsOf(table) /\ Len(rows) <= MaxRows + 2
  /\ result = None \/ cmd = None

\* What a command's own step does to rows it was not asked to touch.  An import
\* of WebAuthn credentials keeps every stored one (SaveWebAuthnCredential
\* inserts); a generation without --force keeps every configuration that was
\* there when it looked (runStorageUserTOTPGenerate); a deletion removes only
\* the named user's rows or the named key, and with a description only that one
\* (runStorageUserWebAuthnDelete).
CommandKept ==
  cmd' # cmd =>
    /\ cmd.op = "import" /\ table = "webauthn" => Range(rows) \subseteq Range(rows')
    /\ cmd.op = "generate" /\ ~cmd.force => stayed \subseteq Range(rows')
    /\ cmd.op = "delete" => \A r \in Range(rows) \ Range(rows') : r.user = cmd.user
    /\ (cmd.op = "none" /\ rows' # rows) =>
         \A r \in Range(rows) \ Range(rows') :
           IF result'.flag = "kid" THEN r.key = result'.kid
           ELSE /\ r.user = result'.user
                /\ (result'.flag = "description" /\ result'.description # "" => r.val = result'.description)
=============================================================================
