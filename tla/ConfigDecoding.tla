--------------------------- MODULE ConfigDecoding ---------------------------
(***************************************************************************)
(* How the values of the merged configuration become typed options         *)
(* (internal/configuration/decode_hooks.go and the parsers it calls): the  *)
(* decoder hands every value and the type of its option to a list of       *)
(* hooks, each hook sees what the one before it returned, and one of them  *)
(* remembers something from one option to the next.                        *)
(*                                                                         *)
(* A datum is a record with its Go kind: "string" and its text, "strings"  *)
(* and a sequence of texts, a number and its seconds, or "value" once it   *)
(* is decoded.  A text that is a proper spelling of a value of some type   *)
(* is the name of that type; parsers of other packages accept exactly the  *)
(* proper spellings.  Texts that are digits or addresses have a kind of    *)
(* their own, "digits" and "url", and an address is the record of its URL. *)
(***************************************************************************)
EXTENDS Integers, FiniteSets, Sequences, SequencesExt

CONSTANTS Fields,          \* the options decoded: [type, pointer, datum]
          Definitions,     \* the named networks: name -> set of networks
          Second,          \* how many units a second has
          MaxUnits,        \* the longest duration, in units (the code's 2^63 - 1 ns)
          Nil              \* a nil pointer, an absent part of an address

VARIABLES expectedType,    \* what StringToAddressHookFunc's closure remembers
          decoded          \* the option just decoded and its outcome, Nil between two

vars == <<expectedType, decoded>>

Text(t) == [kind |-> "string", text |-> t]
Value(type, pointer, v) == [kind |-> "value", type |-> type, pointer |-> pointer, value |-> v]
Failed == [kind |-> "error"]

(***************************************************************************)
(* Addresses (schema/types_address.go): a text is the URL's scheme (Nil    *)
(* when it names none), user info, host, port (Nil, or -1 for one that is  *)
(* no 16-bit number), path, umask ("bad" is not octal) and fragment.       *)
(***************************************************************************)
TCPSchemes == {"tcp", "tcp4", "tcp6"}
UDPSchemes == {"udp", "udp4", "udp6"}
ProtocolPorts == [ldap |-> 389, ldaps |-> 636, smtp |-> 25, submission |-> 587, submissions |-> 465]

ValidateListener(a) == a.scheme \in TCPSchemes \cup UDPSchemes \cup {"unix", "fd"}

\* validateTCPUDP and validateProtocol: the port that is set, or none at all when it is no number.
PortOf(u, default) ==
    CASE u.port = -1  -> {}
      [] u.port = Nil -> {IF u.user = Nil THEN default ELSE Nil}
      [] OTHER        -> {u.port}

validateUnixSocket(u) ==
    /\ u.path # "" \/ u.scheme = "ldapi" \/ u.user # Nil
    /\ u.host = "" \/ u.user = ""
    /\ u.umask # "bad"

validateFD(u) == u.host = "3" /\ u.umask # "bad"

\* validate: the address of a URL, or nothing.  A scheme no branch knows is left to the validators.
Addresses(u) ==
    LET Set(port, host) ==
            [scheme |-> u.scheme, user |-> u.user, host |-> host, port |-> port, path |-> u.path,
             umask |-> u.umask, fragment |-> FALSE]
    IN  IF \/ u.umask # Nil /\ u.scheme \notin {"unix", "fd"}
           \/ u.fragment
           \/ u.user # Nil /\ (u.scheme # "unix" \/ u.user # "")
        THEN {}
        ELSE CASE u.scheme \in {"unix", "ldapi"} ->
                    {Set(IF u.host = "" /\ u.port = Nil THEN Nil ELSE p, u.host) :
                        p \in IF validateUnixSocket(u) THEN PortOf(u, 0) ELSE {}}
               [] u.scheme \in TCPSchemes \cup UDPSchemes -> {Set(p, u.host) : p \in PortOf(u, 0)}
               [] u.scheme \in DOMAIN ProtocolPorts ->
                    {Set(p, u.host) : p \in PortOf(u, ProtocolPorts[u.scheme])}
               [] u.scheme = "fd" -> IF validateFD(u) THEN {Set(u.port, u.host)} ELSE {}
               [] OTHER -> {Set(u.port, u.host)}

NewAddressDefault(d, schemeDefault, schemeDefaultPath) ==
    CASE d.kind = "url" ->
           Addresses(IF d.url.scheme # Nil THEN d.url
                     ELSE [d.url EXCEPT !.scheme = IF d.url.host = "" /\ d.url.port = Nil /\ d.url.path # ""
                                                     THEN schemeDefaultPath ELSE schemeDefault])
      [] d.kind = "string" ->
           IF d.text # "empty" THEN {}
           ELSE {[scheme |-> "tcp", user |-> Nil, host |-> "", port |-> 0, path |-> "", umask |-> Nil,
                  fragment |-> FALSE]}

(***************************************************************************)
(* Parsers.                                                                *)
(***************************************************************************)
\* mail.ParseAddress, url.Parse, regexp.Compile, uuid.Parse, language.Parse, tls version names...
Parses(type, text) == text = type

PrivateKeys == {"rsa", "ecdsa", "ed25519"}

\* One PEM block with nothing after it.
ParseX509FromPEM(text) == text \in PrivateKeys \cup {"public", "certificate"}

NewX509CertificateChain(text) == text \in {"certificate", "chain"}

Wrapped(n) == ((n + MaxUnits + 1) % (2 * (MaxUnits + 1))) - (MaxUnits + 1)

Seconds(n) == Wrapped(n * Second)

\* ParseDurationString: digits are seconds; a spelling with units is the library's to parse.
ParseDurationString(d) == CASE d.kind = "digits" -> {Seconds(d.seconds)}
                            [] d.text = "duration" -> {Second}
                            [] OTHER -> {}

Numeric == {"int", "float"}
Textual == {"string", "digits"}

DecodeTimeDuration(d) ==
    CASE d.kind \in Textual -> ParseDurationString(d)
      [] d.kind = "int"    -> {Seconds(d.seconds)}
      [] d.kind = "float"  -> {IF d.seconds * Second > MaxUnits THEN MaxUnits ELSE Seconds(d.seconds)}

(***************************************************************************)
(* The hooks.  One that is not for this datum and this type returns the    *)
(* datum as it is.                                                         *)
(***************************************************************************)
\* A text for an option of the type, a pointer to it or not.
Takes(f, type) == f.datum.kind = "string" /\ f.type = type

Parsed(f, ok) == IF ok THEN Value(f.type, f.pointer, f.datum.text) ELSE Failed

\* An empty text: no value behind a pointer, otherwise the zero value or an error.
Emptied(f, zero) ==
    CASE f.pointer -> Value(f.type, TRUE, Nil)
      [] zero      -> Value(f.type, FALSE, "zero")
      [] OTHER     -> Failed

StringToMailAddressHookFunc(f) ==
    IF ~Takes(f, "mail") THEN f.datum
    ELSE IF f.datum.text = "empty" THEN Emptied(f, TRUE) ELSE Parsed(f, Parses("mail", f.datum.text))

StringToURLHookFunc(f) ==
    IF ~Takes(f, "url") THEN f.datum
    ELSE IF f.datum.text = "empty" THEN Emptied(f, TRUE) ELSE Parsed(f, Parses("url", f.datum.text))

\* injectCIFlag: a pattern matches whatever the case unless its own flags say "-i".
injectCIFlag(text) == IF text = "pattern" THEN "pattern-i" ELSE text

StringToRegexpHookFunc(f) ==
    IF ~Takes(f, "regexp") /\ ~Takes(f, "regexpCI") THEN f.datum
    ELSE IF f.datum.text = "empty" THEN Emptied(f, FALSE)
    ELSE IF f.datum.text \notin {"pattern", "pattern-i", "pattern-case"} THEN Failed
    ELSE Value(f.type, f.pointer,
               IF f.type = "regexpCI" THEN injectCIFlag(f.datum.text) ELSE f.datum.text)

\* The type that is matched last is kept, and Address itself only matches while nothing else has.
AddressDefaults == [tcpaddress  |-> <<"tcp", "unix">>,  udpaddress  |-> <<"udp", "unix">>,
                    ldapaddress |-> <<"ldaps", "ldapi">>, smtpaddress |-> <<"smtp", "unix">>,
                    address     |-> <<"tcp", "unix">>]

Recognised(f, expected) ==
    /\ f.datum.kind \in {"string", "url"}
    /\ f.type \in {expected} \cup (DOMAIN AddressDefaults \ {"address"})

StringToAddressHookFunc(f, expected) ==
    IF ~Recognised(f, expected) THEN f.datum
    ELSE LET d == AddressDefaults[f.type]
             as == NewAddressDefault(f.datum, d[1], d[2])
         IN  IF as = {} THEN Failed ELSE Value(f.type, f.pointer, CHOOSE a \in as : TRUE)

\* Only pointers: no option is a certificate or a private key of one kind itself.
StringToX509CertificateHookFunc(f) ==
    IF ~Takes(f, "x509") \/ ~f.pointer THEN f.datum
    ELSE IF f.datum.text = "empty" THEN Emptied(f, FALSE)
    ELSE Parsed(f, ParseX509FromPEM(f.datum.text) /\ f.datum.text = "certificate")

StringToX509CertificateChainHookFunc(f) ==
    IF ~Takes(f, "x509chain") THEN f.datum
    ELSE IF f.datum.text = "empty" THEN Emptied(f, TRUE)
    ELSE Parsed(f, NewX509CertificateChain(f.datum.text))

StringToPrivateKeyHookFunc(f) ==
    IF ~f.pointer \/ ~(\E t \in PrivateKeys : Takes(f, t)) THEN f.datum
    ELSE IF f.datum.text = "empty" THEN Emptied(f, FALSE)
    ELSE Parsed(f, ParseX509FromPEM(f.datum.text) /\ f.datum.text = f.type)

StringToCryptoPrivateKeyHookFunc(f) ==
    IF ~Takes(f, "privatekey") THEN f.datum
    ELSE Parsed(f, ParseX509FromPEM(f.datum.text) /\ f.datum.text \in PrivateKeys)

\* A text that is no PEM block may be the base64 of a symmetric key; the empty text is that of an empty one.
StringToCryptographicKeyHookFunc(f) ==
    IF ~Takes(f, "key") THEN f.datum
    ELSE Parsed(f, ParseX509FromPEM(f.datum.text) \/ f.datum.text \in {"base64", "empty"})

StringToTLSVersionHookFunc(f) ==
    IF ~Takes(f, "tls") THEN f.datum ELSE Parsed(f, Parses("tls", f.datum.text))

\* A text that does not look like a digest is a password in the clear.
StringToPasswordDigestHookFunc(f) ==
    IF ~Takes(f, "digest") THEN f.datum
    ELSE CASE f.datum.text = "empty"      -> Emptied(f, FALSE)
           [] f.datum.text = "bad-digest" -> Failed
           [] f.datum.text = "digest"     -> Value("digest", f.pointer, "digest")
           [] OTHER                       -> Value("digest", f.pointer, "plaintext")

StringToLanguageTagHookFunc(f) ==
    IF ~Takes(f, "language") THEN f.datum
    ELSE IF f.datum.text = "empty" THEN Emptied(f, FALSE) ELSE Parsed(f, Parses("language", f.datum.text))

\* ParseHostCIDR: an address or a network; a name is looked up first.
StringToIPNetworksHookFunc(f) ==
    LET Networks(t) == IF t \in DOMAIN Definitions THEN {Definitions[t]}
                       ELSE IF t = "network" THEN {{t}} ELSE {}
        texts == IF f.datum.kind = "strings" THEN f.datum.texts ELSE <<f.datum.text>>
    IN  IF f.type # "networks" \/ f.datum.kind \notin {"string", "strings"} THEN f.datum
        ELSE IF \E i \in DOMAIN texts : Networks(texts[i]) = {} THEN Failed
        ELSE Value("networks", FALSE, UNION {UNION Networks(texts[i]) : i \in DOMAIN texts})

StringToUUIDHookFunc(f) ==
    IF ~Takes(f, "uuid") THEN f.datum
    ELSE IF f.datum.text = "empty" THEN Emptied(f, FALSE) ELSE Parsed(f, Parses("uuid", f.datum.text))

ToTimeDurationHookFunc(f) ==
    IF f.type # "duration" \/ f.datum.kind \notin Textual \cup Numeric THEN f.datum
    ELSE IF DecodeTimeDuration(f.datum) = {} THEN Failed
    ELSE Value("duration", f.pointer, CHOOSE n \in DecodeTimeDuration(f.datum) : TRUE)

\* "always" and "disable" are no durations.
ToRefreshIntervalDurationHookFunc(f) ==
    IF f.type # "refresh" \/ f.datum.kind \notin Textual \cup Numeric THEN f.datum
    ELSE IF f.datum.kind = "string" /\ f.datum.text \in {"always", "disable"}
      THEN Value("refresh", f.pointer, f.datum.text)
    ELSE IF DecodeTimeDuration(f.datum) = {} THEN Failed
    ELSE Value("refresh", f.pointer, CHOOSE n \in DecodeTimeDuration(f.datum) : TRUE)

\* mapstructure.StringToSliceHookFunc(","): a text for a list is split at its commas.
StringToSlice(f) ==
    IF f.type # "networks" \/ f.datum.kind # "string" THEN f.datum
    ELSE [kind |-> "strings", texts |-> IF f.datum.text = "empty" THEN <<>> ELSE <<f.datum.text>>]

Hooks == 1..17

Hook(i, f, expected) ==
    CASE i = 1  -> StringToSlice(f)
      [] i = 2  -> StringToMailAddressHookFunc(f)
      [] i = 3  -> StringToURLHookFunc(f)
      [] i = 4  -> StringToRegexpHookFunc(f)
      [] i = 5  -> StringToAddressHookFunc(f, expected)
      [] i = 6  -> StringToX509CertificateHookFunc(f)
      [] i = 7  -> StringToX509CertificateChainHookFunc(f)
      [] i = 8  -> StringToPrivateKeyHookFunc(f)
      [] i = 9  -> StringToCryptoPrivateKeyHookFunc(f)
      [] i = 10 -> StringToCryptographicKeyHookFunc(f)
      [] i = 11 -> StringToTLSVersionHookFunc(f)
      [] i = 12 -> StringToPasswordDigestHookFunc(f)
      [] i = 13 -> StringToLanguageTagHookFunc(f)
      [] i = 14 -> StringToIPNetworksHookFunc(f)
      [] i = 15 -> StringToUUIDHookFunc(f)
      [] i = 16 -> ToTimeDurationHookFunc(f)
      [] i = 17 -> ToRefreshIntervalDurationHookFunc(f)

\* Each hook is given what the one before it returned; an error ends it.
DecodeHooksComposeAll(f, expected) ==
    FoldLeft(LAMBDA d, i : IF d = Failed THEN d ELSE Hook(i, [f EXCEPT !.datum = d], expected),
             f.datum, [i \in Hooks |-> i])

(***************************************************************************)
(* Decoding one option after the other with the same hooks.                *)
(***************************************************************************)
Init == expectedType = "address" /\ decoded = Nil

Decode(f) ==
    /\ decoded = Nil
    /\ decoded' = [field |-> f, outcome |-> DecodeHooksComposeAll(f, expectedType)]
    /\ expectedType' = IF Recognised(f, expectedType) THEN f.type ELSE expectedType

\* The decoder stores the outcome, or collects the error, and goes on to the next option.
Store == decoded # Nil /\ decoded' = Nil /\ UNCHANGED expectedType

Next == Store \/ \E f \in Fields : Decode(f)

Spec == Init /\ [][Next]_vars

-----------------------------------------------------------------------------
\* The type of a decoded value is the option's, and only an empty text leaves a pointer nil.
RightType(f, o) ==
    o.kind = "value" =>
      /\ o.type = f.type /\ o.pointer = f.pointer
      /\ o.value = Nil => f.pointer /\ f.datum = Text("empty")

\* No text or number reaches an option of another type undecoded.
NeverRaw(o) == o.kind \in {"value", "error"}

\* Apart from the splitting of lists one hook acts on an option, so the order of the hooks is free.
OneHook(f) == Cardinality({i \in Hooks \ {1} : Hook(i, f, "address") # f.datum}) = 1

\* What an option is decoded to does not depend on the options decoded before it.
OrderFree(f, o) == o = DecodeHooksComposeAll(f, "address")

\* A duration the code can hold is the same from digits, an integer or a float; a longer float is cut off.
DurationsAgree(f, o) ==
    f.type \in {"duration", "refresh"} /\ f.datum.kind \in {"digits", "int", "float"} =>
      LET n == f.datum.seconds * Second
      IN  /\ n \in -MaxUnits..MaxUnits => o.value = n
          /\ n > MaxUnits /\ f.datum.kind = "float" => o.value = MaxUnits

\* An address without a scheme gets one its role accepts, an accepted port is known and printing the
\* address and parsing it again, as the mapping of deprecated host and port options does, changes nothing.
AddressesUsable(f, o) ==
    f.datum.kind = "url" /\ o.kind = "value" =>
      LET a == o.value
          role == [tcpaddress |-> TCPSchemes, udpaddress |-> UDPSchemes, ldapaddress |-> {"ldap", "ldaps"},
                   smtpaddress |-> {"smtp", "submission", "submissions"}]
      IN  /\ f.datum.url.scheme = Nil /\ f.datum.url.host # "" => a.scheme \in role[f.type]
          /\ a.scheme \in UNION {role[t] : t \in DOMAIN role} => a.port \in Nat /\ Addresses(a) = {a}
          /\ ValidateListener(a) /\ a.scheme = "fd" => a.host = "3"

\* Decoding gives every option a value of its type or an error, whatever was decoded before.
DecodingSound ==
    decoded # Nil =>
      LET f == decoded.field
          o == decoded.outcome
      IN  /\ NeverRaw(o) /\ RightType(f, o) /\ OneHook(f) /\ OrderFree(f, o)
          /\ DurationsAgree(f, o) /\ AddressesUsable(f, o)
=============================================================================
