---------------------------- MODULE ConfigLoading ----------------------------
(***************************************************************************)
(* How the configuration is put together (internal/configuration and the   *)
(* loading steps of internal/commands/context.go): the paths are chosen,   *)
(* every source is loaded and merged over the ones before it, deprecated   *)
(* keys are mapped to their replacements, the result is decoded and its    *)
(* keys are checked.  Everything is loaded twice from the same sources,    *)
(* first for the definitions only and then, with these, for the rest; the  *)
(* files may be edited meanwhile.                                          *)
(*                                                                         *)
(* The content of a source is a function from the keys it has to values.   *)
(* A file also has a state: it may be missing, refused by its filter or    *)
(* malformed.  The items of a list are functions of their own ("items").   *)
(***************************************************************************)
EXTENDS Naturals, Sequences, SequencesExt, FiniteSets, TLC

CONSTANTS Setups,          \* [how, default, paths, dirs, dirOf, order, unknown, fs, filters, vars,
                           \*  secrets, flags, editable]: how the process may be started
          Contents,        \* what an edit may leave a file as
          Defaults,        \* the values every configuration starts from
          CommandDefaults, \* the values the command starts from
          MaxEdits,        \* bound: edits of the files while they are loaded
          Nil

VARIABLES setup,           \* how the process was started
          fs,              \* the files on disk: file -> [state, keys, items]
          edits, moved,    \* edits so far; whether a file appeared in a directory or left it
          stage,           \* what runs: "ensure", "choose", "define", "load", "keys", "end"
          at,              \* the next source
          sources,         \* the sources, in order
          cached,          \* the file contents the sources keep (FilteredFile.data)
          own,             \* source -> what it has loaded (Source.koanf)
          ko,              \* the merged configuration of this pass
          errors, warnings,
          definitions,     \* the networks of the first pass
          final            \* the decoded configuration

vars == <<setup, fs, edits, moved, stage, at, sources, cached, own, ko, errors, warnings, definitions, final>>

EmptyMap == [keys |-> <<>>, items |-> Nil]

\* Merge: the keys of the later source win, a list is replaced as a whole.
Merge(later, earlier) ==
    [keys |-> later.keys @@ earlier.keys, items |-> IF later.items = Nil THEN earlier.items ELSE later.items]

(***************************************************************************)
(* Deprecated keys.  auto: mapped to new; otherwise kept with an error, or *)
(* with a warning when it has its own handling, or dropped with a warning  *)
(* when it has no replacement.                                             *)
(***************************************************************************)
deprecations ==
    [logs_level |-> [new |-> "level", auto |-> TRUE, handled |-> FALSE],
     log_level  |-> [new |-> "level", auto |-> TRUE, handled |-> FALSE],
     old_secret |-> [new |-> "secret", auto |-> TRUE, handled |-> FALSE],
     trusted    |-> [new |-> "certificates", auto |-> FALSE, handled |-> FALSE],
     issuer     |-> [new |-> "jwks", auto |-> FALSE, handled |-> TRUE],
     feature    |-> [new |-> "", auto |-> FALSE, handled |-> FALSE]]

\* The keys mapped together, and what stands in for the ones that are not given.  The SMTP and SQL
\* sections take the default's host with its port.
deprecationsMKM ==
    <<[host |-> "smtp_host", port |-> "smtp_port", new |-> "smtp_address", fallback |-> <<"localhost:25", 25>>],
      [host |-> "server_host", port |-> "server_port", new |-> "server_address", fallback |-> <<"any", 9091>>]>>

\* schema.Keys: issuer_private_key and its chain are still keys.
Keys == {"level", "secret", "certificates", "jwks", "issuer", "smtp_address", "server_address",
         "def", "acl", "rule", "old_file"}

\* IsSecretKey: by suffix, lists and maps apart.
IsSecretKey(k) == k \in {"secret", "old_secret"}

(***************************************************************************)
(* Choosing the files: named by a flag ("explicit"), by the environment or *)
(* by nobody ("implicit", loadXEnvCLIStringSliceValue).                    *)
(***************************************************************************)
\* ConfigEnsureExistsRunE: the default configuration is written where none exists, and the process ends.
EnsureConfigurationExists ==
    LET first == setup.paths[1]
        skip == \/ setup.how = "explicit"
                \/ setup.how = "environment" /\ Len(setup.paths) = 1 /\ ~setup.default
        there == first \in setup.dirs \/ fs[first].state # "missing"
    IN  /\ stage = "ensure"
        /\ stage' = IF skip \/ there THEN "choose" ELSE "created"
        /\ fs' = IF skip \/ there THEN fs ELSE [fs EXCEPT ![first].state = "ok"]
        /\ UNCHANGED <<setup, edits, moved, at, sources, cached, own, ko, errors, warnings, definitions, final>>

\* loadXNormalizedPaths: a missing file is left out only when nobody named it, and a file in a
\* directory that is loaded too is refused.
NormalizedPaths ==
    SelectSeq(setup.paths, LAMBDA p : ~(setup.how = "implicit" /\ p \notin setup.dirs /\ fs[p].state = "missing"))

PathsRefused ==
    \E i, j \in DOMAIN NormalizedPaths :
        /\ NormalizedPaths[i] \in setup.dirs
        /\ NormalizedPaths[j] \in DOMAIN fs
        /\ setup.dirOf[NormalizedPaths[j]] = NormalizedPaths[i]

\* loadXEnvCLIConfigFilterNames and NewFileFilters.
FiltersRefused ==
    LET names == IF setup.filters.old # Nil THEN setup.filters.old ELSE setup.filters.names
    IN  \/ setup.filters.old # Nil /\ setup.filters.named
        \/ \E i \in DOMAIN names : names[i] # "template"
        \/ \E i, j \in DOMAIN names : i # j /\ names[i] = names[j]
        \/ "template" \in {names[i] : i \in DOMAIN names} /\ setup.filters.values = "bad"

NewDefaultSourcesWithDefaults(paths) ==
    <<"defaults", "command", "defaults">> \o paths \o <<"environment", "secrets", "flags">>

Choose ==
    /\ stage = "choose"
    /\ IF PathsRefused \/ FiltersRefused
         THEN stage' = "refused" /\ UNCHANGED <<sources, at, own, warnings>>
         ELSE /\ sources' = NewDefaultSourcesWithDefaults(NormalizedPaths)
              /\ own' = [s \in {sources'[i] : i \in DOMAIN sources'} |-> EmptyMap]
              /\ at' = 1 /\ stage' = "define"
              /\ warnings' = warnings \cup (IF setup.filters.old # Nil THEN {"filters"} ELSE {})
    /\ UNCHANGED <<setup, fs, edits, moved, cached, ko, errors, definitions, final>>

(***************************************************************************)
(* Loading one source.  A result is what the source has now, what it keeps *)
(* of its files, and the errors; a source that fails is not merged.        *)
(***************************************************************************)
\* FilteredFile.ReadBytes: what was read and filtered once is not read again.
ReadBytes(f, cache) == IF cache[f] # Nil THEN cache[f] ELSE fs[f]

Kept(f, cache) ==
    IF cache[f] = Nil /\ fs[f].state \in {"ok", "malformed"} THEN [cache EXCEPT ![f] = fs[f]] ELSE cache

LoadFile(f, r) ==
    LET data == ReadBytes(f, r.cache)
    IN  IF r.failed THEN r
        ELSE [own |-> IF data.state = "ok" THEN Merge([keys |-> data.keys, items |-> data.items], r.own) ELSE r.own,
              cache |-> Kept(f, r.cache), failed |-> data.state # "ok"]

\* The files of a directory, in the order of their names; other extensions and subdirectories are skipped.
Entries(d) == SelectSeq(setup.order, LAMBDA f : setup.dirOf[f] = d /\ fs[f].state # "missing" /\ f \notin setup.unknown)

LoadPath(p) ==
    LET start == [own |-> own[p], cache |-> cached, failed |-> FALSE]
    IN  IF p \in setup.dirs THEN FoldLeft(LAMBDA r, f : LoadFile(f, r), start, Entries(p))
        ELSE IF fs[p].state = "missing" THEN [start EXCEPT !.failed = TRUE]
        ELSE LoadFile(p, start)

\* koanfEnvironmentCallback: a variable is a key, a deprecated key that is mapped, or kept by its own name.
EnvironmentKey(k) ==
    IF k \in Keys \/ (k \in DOMAIN deprecations /\ deprecations[k].auto)
       \/ \E i \in DOMAIN deprecationsMKM : k \in {deprecationsMKM[i].host, deprecationsMKM[i].port}
      THEN k ELSE "AUTHELIA_" \o k

LoadEnvironment ==
    LET names == DOMAIN setup.vars
    IN  [keys |-> [k \in {EnvironmentKey(n) : n \in names} |->
                        setup.vars[CHOOSE n \in names : EnvironmentKey(n) = k]],
         items |-> Nil]

\* koanfEnvironmentSecretsCallback and loadSecret: an unreadable file is an error and no value.
SecretNames == {n \in DOMAIN setup.secrets : IsSecretKey(n)}
Unreadable == {n \in SecretNames : fs[setup.secrets[n]].state # "ok"}

LoadSecrets ==
    [keys |-> [n \in SecretNames \ Unreadable |-> fs[setup.secrets[n]].keys["secret"]], items |-> Nil]

\* koanfCommandLineWithMappingCallback: the flags that were given.
LoadFlags == [keys |-> setup.flags, items |-> Nil]

Loaded(s) ==
    CASE s = "defaults"    -> [own |-> [keys |-> Defaults, items |-> Nil], cache |-> cached, failed |-> FALSE]
      [] s = "command"     -> [own |-> [keys |-> CommandDefaults, items |-> Nil], cache |-> cached, failed |-> FALSE]
      [] s = "environment" -> [own |-> Merge(LoadEnvironment, own[s]), cache |-> cached, failed |-> FALSE]
      [] s = "secrets"     -> [own |-> Merge(LoadSecrets, own[s]), cache |-> cached, failed |-> FALSE]
      [] s = "flags"       -> [own |-> Merge(LoadFlags, own[s]), cache |-> cached, failed |-> FALSE]
      [] OTHER             -> LoadPath(s)

\* SecretsSource.Merge: a secret that something else has set already is an error.
SecretErrors(o) == {<<"defined", k>> : k \in {k \in DOMAIN o.keys : k \in DOMAIN ko.keys /\ ko.keys[k] # ""}}

loadSources ==
    /\ stage \in {"define", "load"} /\ at <= Len(sources)
    /\ LET s == sources[at]
           r == Loaded(s)
       IN  /\ own' = [own EXCEPT ![s] = r.own]
           /\ cached' = r.cache
           /\ ko' = IF r.failed THEN ko ELSE Merge(r.own, ko)
           /\ errors' = errors \cup (IF r.failed THEN {<<"source", s>>} ELSE {})
                               \cup (IF s = "secrets"
                                       THEN SecretErrors(r.own) \cup {<<"unreadable", n>> : n \in Unreadable}
                                       ELSE {})
    /\ at' = at + 1
    /\ UNCHANGED <<setup, fs, edits, moved, stage, sources, warnings, definitions, final>>

(***************************************************************************)
(* Mapping deprecated keys.  The keys are visited in any order: of several *)
(* deprecated spellings of one key the first that is visited is mapped.    *)
(***************************************************************************)
AutoMapped(keys) == {k \in DOMAIN keys : k \in DOMAIN deprecations /\ deprecations[k].auto}

\* The spelling that is visited first, for every key that is only given by deprecated ones.
Visits(keys) ==
    LET unset == {deprecations[k].new : k \in AutoMapped(keys)} \ DOMAIN keys
    IN  {v \in [unset -> AutoMapped(keys)] : \A n \in unset : deprecations[v[n]].new = n}

koanfRemapKeysStandard(keys, visited) ==
    LET removed == {k \in DOMAIN keys : k \in DOMAIN deprecations /\ ~deprecations[k].auto
                                        /\ ~deprecations[k].handled /\ deprecations[k].new = ""}
        kept == DOMAIN keys \ (AutoMapped(keys) \cup removed)
        replaced == {k \in kept : k \in DOMAIN deprecations /\ ~deprecations[k].handled}
        noted == AutoMapped(keys) \cup removed \cup {k \in kept : k \in DOMAIN deprecations /\ deprecations[k].handled}
    IN  [keys |-> [k \in kept \cup DOMAIN visited |-> IF k \in kept THEN keys[k] ELSE keys[visited[k]]],
         errors |-> {<<"replaced", k>> : k \in replaced}, warnings |-> noted]

\* The items of a list: an old subkey never replaces the new one.
koanfRemapKeysMapped(items) ==
    IF items = Nil \/ "old" \notin DOMAIN items THEN [items |-> items, warnings |-> {}]
    ELSE [items |-> [k \in (DOMAIN items \ {"old"}) \cup {"new"} |->
                        IF k = "new" /\ "new" \notin DOMAIN items THEN items["old"] ELSE items[k]],
          warnings |-> {"items.old"}]

\* getHostPort: a port that is no number is an error, one that is unset or out of range is the default's.
getHostPort(m, keys) ==
    LET port == IF m.port \in DOMAIN keys THEN keys[m.port] ELSE 0
        host == IF m.host \in DOMAIN keys THEN keys[m.host] ELSE ""
    IN  IF port = Nil THEN {}
        ELSE {<<IF host = "" THEN m.fallback[1] ELSE host,
                IF port \in 1..65535 THEN port ELSE m.fallback[2]>>}

RemapMulti(m, r) ==
    LET given == {m.host, m.port} \cap DOMAIN r.keys
        address == getHostPort(m, r.keys)
    IN  IF given = {} THEN r
        ELSE IF m.new \in DOMAIN r.keys THEN [r EXCEPT !.errors = @ \cup {<<"both", m.new>>}]
        ELSE IF address = {} THEN [r EXCEPT !.errors = @ \cup {<<"port", m.new>>}]
        ELSE [r EXCEPT !.keys = (m.new :> (CHOOSE a \in address : TRUE))
                                   @@ [k \in DOMAIN r.keys \ given |-> r.keys[k]],
                       !.warnings = @ \cup given]

koanfRemapKeysMultiMapped(r) == FoldLeft(LAMBDA x, m : RemapMulti(m, x), r, deprecationsMKM)

koanfRemapKeys(visited) == koanfRemapKeysMultiMapped(koanfRemapKeysStandard(ko.keys, visited))

(***************************************************************************)
(* The two passes.                                                         *)
(***************************************************************************)
\* mapDefinitions: a network is defined in one of two sections, not in both.
mapDefinitions(keys) == IF "def" \in DOMAIN keys THEN keys["def"]
                        ELSE IF "acl" \in DOMAIN keys THEN keys["acl"] ELSE Nil

DefinitionErrors(keys) == IF {"def", "acl"} \subseteq DOMAIN keys THEN {<<"both", "network">>} ELSE {}

LoadDefinitions ==
    /\ stage = "define" /\ at > Len(sources)
    /\ \E visited \in Visits(ko.keys) :
         LET r == koanfRemapKeys(visited)
         IN  /\ definitions' = mapDefinitions(r.keys)
             /\ errors' = errors \cup r.errors \cup DefinitionErrors(r.keys)
             /\ warnings' = warnings \cup r.warnings
    /\ ko' = EmptyMap /\ at' = 1 /\ stage' = "load"
    /\ UNCHANGED <<setup, fs, edits, moved, sources, cached, own, final>>

\* unmarshal: a rule's network is looked up in the definitions of the first pass, and a host with a
\* port of its own is no address.
DecodeErrors(keys) ==
      {<<"decode", k>> : k \in {k \in DOMAIN keys \cap {"smtp_address", "server_address"} : keys[k][1] = "localhost:25"}}
    \cup (IF "rule" \in DOMAIN keys /\ keys["rule"] = "named" /\ definitions = Nil THEN {<<"decode", "rule">>} ELSE {})

LoadAdvanced ==
    /\ stage = "load" /\ at > Len(sources)
    /\ \E visited \in Visits(ko.keys) :
         LET r == koanfRemapKeys(visited)
             i == koanfRemapKeysMapped(ko.items)
         IN  /\ final' = [keys |-> r.keys, items |-> i.items, definitions |-> mapDefinitions(r.keys),
                          rule |-> IF "rule" \in DOMAIN r.keys /\ r.keys["rule"] = "named" THEN definitions ELSE Nil]
             /\ errors' = errors \cup r.errors \cup DefinitionErrors(r.keys) \cup DecodeErrors(r.keys)
             /\ warnings' = warnings \cup r.warnings \cup i.warnings
    /\ stage' = "keys"
    /\ UNCHANGED <<setup, fs, edits, moved, at, sources, cached, own, ko, definitions>>

\* ValidateKeys: an unknown key is an error, an unknown variable of the environment a warning.
FromEnvironment(k) == \E n \in DOMAIN setup.vars : k = "AUTHELIA_" \o n
Remapped(k) == \E i \in DOMAIN deprecationsMKM : k \in {deprecationsMKM[i].host, deprecationsMKM[i].port}

ValidateKeys ==
    /\ stage = "keys"
    /\ LET unknown == {k \in DOMAIN final.keys \ Keys : ~Remapped(k)}
       IN  /\ warnings' = warnings \cup {k \in unknown : FromEnvironment(k)}
           /\ errors' = errors \cup {<<"unexpected", k>> : k \in {k \in unknown : ~FromEnvironment(k)}}
    /\ stage' = "end"
    /\ UNCHANGED <<setup, fs, edits, moved, at, sources, cached, own, ko, definitions, final>>

\* Somebody edits, adds or removes a file while the sources are loaded.
Edit(f, c) ==
    /\ stage \in {"define", "load"} /\ edits < MaxEdits
    /\ fs[f] # c
    /\ fs' = [fs EXCEPT ![f] = c]
    /\ edits' = edits + 1
    /\ moved' = (moved \/ (setup.dirOf[f] # Nil /\ "missing" \in {c.state, fs[f].state}))
    /\ UNCHANGED <<setup, stage, at, sources, cached, own, ko, errors, warnings, definitions, final>>

Init ==
    /\ setup \in Setups
    /\ fs = setup.fs
    /\ edits = 0 /\ moved = FALSE
    /\ stage = "ensure" /\ at = 0
    /\ sources = <<>> /\ own = <<>>
    /\ cached = [f \in DOMAIN fs |-> Nil]
    /\ ko = EmptyMap /\ errors = {} /\ warnings = {}
    /\ definitions = Nil /\ final = Nil

Next ==
    \/ EnsureConfigurationExists \/ Choose \/ loadSources
    \/ LoadDefinitions \/ LoadAdvanced \/ ValidateKeys
    \/ \E f \in setup.editable, c \in Contents : Edit(f, c)

Spec == Init /\ [][Next]_vars

-----------------------------------------------------------------------------
Accepted == stage = "end" /\ errors = {}

\* Every key of an accepted configuration has the value of the source that comes last: defaults, files in
\* their order, environment, secrets, flags.  A deprecated spelling only counts when no source has the key.
Precedence ==
    Accepted =>
      LET Giving(k) == {i \in DOMAIN sources : k \in DOMAIN own[sources[i]].keys}
          Winner(k) == own[sources[CHOOSE i \in Giving(k) : \A j \in Giving(k) : j <= i]].keys[k]
          Spellings(k) == {d \in DOMAIN deprecations : deprecations[d].new = k /\ Giving(d) # {}}
      IN  \A k \in DOMAIN final.keys \ {"smtp_address", "server_address"} :
              IF Giving(k) # {} THEN final.keys[k] = Winner(k)
              ELSE final.keys[k] \in {Winner(d) : d \in Spellings(k)}

\* The names the rules use mean what the accepted configuration defines, whatever happened to the files
\* between the two passes, unless a file was added to a directory or removed from it.
DefinitionsAgree ==
    Accepted /\ ~moved /\ "rule" \in DOMAIN final.keys =>
      (final.keys["rule"] = "named" => final.rule = final.definitions)

\* A file contributes one version of itself, never a mixture of two.
OneVersion ==
    Accepted => \A i \in DOMAIN sources :
        sources[i] \in DOMAIN fs => own[sources[i]].keys = cached[sources[i]].keys

\* A key that some source gives is in the configuration, or a warning or an error is about it.
NothingLost ==
    stage = "end" =>
      \A i \in DOMAIN sources : \A k \in DOMAIN own[sources[i]].keys :
          k \in DOMAIN final.keys \/ k \in warnings \/ errors # {}

\* A secret is not set by any source before the secrets.
SecretsAlone ==
    Accepted => \A n \in SecretNames : \A i \in DOMAIN sources :
        sources[i] \notin {"secrets", "flags"} /\ n \in DOMAIN own[sources[i]].keys => own[sources[i]].keys[n] = ""

\* Hosts and ports that are mapped to an address keep what was given.
AddressesMapped ==
    Accepted => \A j \in DOMAIN deprecationsMKM :
        LET m == deprecationsMKM[j]
            Giving(k) == {i \in DOMAIN sources : k \in DOMAIN own[sources[i]].keys}
            Winner(k) == own[sources[CHOOSE i \in Giving(k) : \A l \in Giving(k) : l <= i]].keys[k]
        IN  /\ Giving(m.host) # {} => final.keys[m.new][1] = Winner(m.host)
            /\ (Giving(m.port) # {} /\ Winner(m.port) \in 1..65535) => final.keys[m.new][2] = Winner(m.port)

LoadingSound ==
    /\ Precedence /\ DefinitionsAgree /\ OneVersion
    /\ NothingLost /\ SecretsAlone /\ AddressesMapped
=============================================================================
