-------------------------- MODULE UserPreferences --------------------------
(***************************************************************************)
(* What is stored of a user's preferences between logins: the second       *)
(* factor method shown first (handlers/handler_user_info.go) and the       *)
(* device Duo notifies (handlers/handler_sign_duo.go,                      *)
(* handler_register_duo_device.go).  The portal writes both tables on its  *)
(* own as well, from what it read some calls earlier, while the user's     *)
(* other tabs change them.                                                 *)
(*                                                                         *)
(* Requests are one user's.  What a permitted login does to the session is *)
(* the "duo" handler of UserSession.  The answers of Duo are external; any *)
(* storage call may fail.                                                  *)
(***************************************************************************)
EXTENDS Naturals, FiniteSets

CONSTANTS Requests, Devices, NoDevice, NoRow

VARIABLES
    disabled, fallback,   \* configuration: disabled methods, default method
    registered,           \* of totp and webauthn: what the user registered
    method,               \* row of user_preferences
    device,               \* row of duo_devices: <<device, method>>
    request,              \* what each request in flight knows
    answer                \* the last answer given

vars == <<disabled, fallback, registered, method, device, request, answer>>
config == <<disabled, fallback, registered>>

Methods == {"totp", "webauthn", "mobile_push"}

PossibleMethods == {"push"}

Capabilities == {"push", "phone"}

Nothing == [at |-> "idle", stored |-> NoDevice, offered |-> {}, use |-> NoDevice,
            read |-> NoRow, chosen |-> ""]

NoAnswer == <<"none", "", {}>>

AvailableSecondFactorMethods == Methods \ disabled

Init ==
    /\ disabled \in SUBSET Methods
    /\ fallback \in Methods \cup {""}
    /\ registered \in SUBSET {"totp", "webauthn"}
    /\ method \in {NoRow, "totp", "mobile_push"}
    /\ device \in {NoDevice} \cup (Devices \X PossibleMethods)
    /\ request = [r \in Requests |-> Nothing]
    /\ answer = NoAnswer

At(r, where) == request[r].at = where

Goto(r, next) ==
    /\ request' = [request EXCEPT ![r] = next]
    /\ answer' = NoAnswer

Answer(r, what) ==
    /\ request' = [request EXCEPT ![r] = Nothing]
    /\ answer' = what

Reply(r, result) == Answer(r, <<result, "", {}>>)

----------------------------------------------------------------------------
(* The preferred method.                                                   *)

\* No column of a user without a row is read.
LoadUserInfo ==
    IF method = NoRow
    THEN [method |-> "", has |-> {}]
    ELSE [method |-> method,
          has |-> registered \cup (IF device = NoDevice THEN {} ELSE {"mobile_push"})]

FirstOf(methods) ==
    CASE "totp" \in methods -> "totp"
      [] "webauthn" \in methods -> "webauthn"
      [] OTHER -> "mobile_push"

setMethod(has, methods) ==
    CASE has \cap methods # {} -> FirstOf(has \cap methods)
      [] has \cap methods = {} /\ fallback \in methods -> fallback
      [] OTHER -> FirstOf(methods)

SetDefaultPreferred2FAMethod(info, methods) ==
    CASE methods = {} -> info.method
      [] methods # {} /\ info.method = "" /\ fallback \in methods -> fallback
      [] info.method # "" /\ info.method \in methods -> info.method
      [] OTHER -> setMethod(info.has, methods)

UserInfoPOST(r) ==
    /\ At(r, "idle")
    /\ \/ method = NoRow /\ Goto(r, [Nothing EXCEPT !.at = "insert"])
       \/ Goto(r, [Nothing EXCEPT !.at = "info"])      \* found, or not readable
    /\ UNCHANGED <<config, method, device>>

\* A failure is logged and the request goes on.
InsertEmptyPreference(r) ==
    /\ At(r, "insert")
    /\ method' \in {"", method}
    /\ Goto(r, [Nothing EXCEPT !.at = "info"])
    /\ UNCHANGED <<config, device>>

Info(m, has) == <<"info", m, has \ disabled>>

SetDefault_Always(r) ==
    LET chosen == setMethod(LoadUserInfo.has, AvailableSecondFactorMethods)
    IN  /\ At(r, "info")
        /\ Goto(r, [Nothing EXCEPT !.at = "default", !.chosen = chosen,
                                   !.read = LoadUserInfo])
        /\ UNCHANGED <<config, method, device>>

\* The method read is replaced where it is not available any more.
SetDefault(r) ==
    LET chosen == SetDefaultPreferred2FAMethod(LoadUserInfo,
                                               AvailableSecondFactorMethods)
    IN  /\ At(r, "info")
        /\ \/ Reply(r, "refused")
           \/ chosen = LoadUserInfo.method /\ Answer(r, Info(chosen, LoadUserInfo.has))
           \/ /\ chosen # LoadUserInfo.method
              /\ Goto(r, [Nothing EXCEPT !.at = "default", !.chosen = chosen,
                                         !.read = LoadUserInfo])
        /\ UNCHANGED <<config, method, device>>

SaveDefault(r) ==
    /\ At(r, "default")
    /\ \/ UNCHANGED method /\ Reply(r, "refused")
       \/ /\ method' = request[r].chosen
          /\ Answer(r, Info(request[r].chosen, request[r].read.has))
    /\ UNCHANGED <<config, device>>

\* Unlike the POST, this shows what is registered for disabled methods too.
UserInfoGET(r) ==
    /\ At(r, "idle")
    /\ \/ Reply(r, "refused")
       \/ Answer(r, <<"userinfo", LoadUserInfo.method, LoadUserInfo.has>>)
    /\ UNCHANGED <<config, method, device>>

MethodPreferencePOST(r) ==
    /\ At(r, "idle")
    /\ \/ UNCHANGED method /\ Reply(r, "refused")
       \/ /\ \E m \in AvailableSecondFactorMethods : method' = m
          /\ Reply(r, "ok")
    /\ UNCHANGED <<config, device>>

----------------------------------------------------------------------------
(* The preferred device.                                                   *)

\* What Duo says of the user before a login: a result, and with "auth" what
\* each of the user's devices can do.
PreAuthAnswers ==
    [result : {"allow", "deny", "enroll", "error"}, devices : {{}}]
      \cup [result : {"auth"}, devices : SUBSET (Devices \X Capabilities)]

FilterSupportedDevices(devices) == devices \cap (Devices \X PossibleMethods)

DuoPreAuth(a) == FilterSupportedDevices(a.devices)

DuoGET(r) ==
    /\ At(r, "idle")
    /\ \/ Reply(r, "auth")
       \/ device # NoDevice /\ Answer(r, <<"auth", "", {device}>>)
    /\ UNCHANGED <<config, method, device>>

DuoDevicesGET(r) ==
    /\ At(r, "idle")
    /\ \E a \in PreAuthAnswers :
         Answer(r, CASE a.result = "error" -> <<"refused", "", {}>>
                     [] a.result = "auth" /\ DuoPreAuth(a) = {} -> <<"enroll", "", {}>>
                     [] OTHER -> <<a.result, "", DuoPreAuth(a)>>)
    /\ UNCHANGED <<config, method, device>>

\* Any device is taken; the method must be a possible one.
DuoDevicePOST(r) ==
    /\ At(r, "idle")
    /\ \/ UNCHANGED device /\ Reply(r, "refused")
       \/ device' \in Devices \X PossibleMethods /\ Reply(r, "ok")
    /\ UNCHANGED <<config, method>>

DuoDeviceDELETE(r) ==
    /\ At(r, "idle")
    /\ \/ UNCHANGED device /\ Reply(r, "refused")
       \/ device' = NoDevice /\ Reply(r, "ok")
    /\ UNCHANGED <<config, method>>

\* Every failure to read the preferred device counts as having none.
DuoPOST(r) ==
    /\ At(r, "idle")
    /\ \E stored \in {device, NoDevice} :
         Goto(r, [Nothing EXCEPT !.at = "preauth", !.stored = stored])
    /\ UNCHANGED <<config, method, device>>

\* A preferred device is only removed if one was found.
HandleNoDevicesAvailable(r) ==
    IF request[r].stored = NoDevice
    THEN Reply(r, "enroll")
    ELSE Goto(r, [request[r] EXCEPT !.at = "delete"])

HandleAuthResult(r, devices) ==
    CASE request[r].stored \in devices ->
           Goto(r, [request[r] EXCEPT !.at = "push", !.offered = devices,
                                      !.use = request[r].stored])
      [] request[r].stored \notin devices /\ Cardinality(devices) = 1 ->
           \E only \in devices :
             Goto(r, [request[r] EXCEPT !.at = "save", !.offered = devices,
                                        !.use = only])
      [] OTHER -> Answer(r, <<"auth", "", devices>>)

HandleDuoPreAuthResult(r) ==
    /\ At(r, "preauth")
    /\ \E a \in PreAuthAnswers :
         \/ a.result = "error" /\ Reply(r, "refused")
         \/ a.result = "allow" /\ Reply(r, "allowed")
         \/ /\ a.result = "deny"
            /\ Reply(r, IF request[r].stored = NoDevice THEN "deny" ELSE "refused")
         \/ a.result = "enroll" /\ HandleNoDevicesAvailable(r)
         \/ /\ a.result = "auth"
            /\ IF DuoPreAuth(a) = {} THEN HandleNoDevicesAvailable(r)
               ELSE HandleAuthResult(r, DuoPreAuth(a))
    /\ UNCHANGED <<config, method, device>>

DeletePreferredDuoDevice(r) ==
    /\ At(r, "delete")
    /\ \/ UNCHANGED device /\ Reply(r, "refused")
       \/ device' = NoDevice /\ Reply(r, "enroll")
    /\ UNCHANGED <<config, method>>

HandleAutoSelection(r) ==
    /\ At(r, "save")
    /\ \/ UNCHANGED device /\ Reply(r, "refused")
       \/ /\ device' = request[r].use
          /\ Goto(r, [request[r] EXCEPT !.at = "push"])
    /\ UNCHANGED <<config, method>>

\* Duo's answer to the notification.
PerformDuoAuthentication(r) ==
    /\ At(r, "push")
    /\ \E result \in {"allowed", "refused"} : Reply(r, result)
    /\ UNCHANGED <<config, method, device>>

Next == \E r \in Requests :
    \/ UserInfoPOST(r) \/ InsertEmptyPreference(r) \/ SetDefault(r) \/ SaveDefault(r)
    \/ UserInfoGET(r) \/ MethodPreferencePOST(r)
    \/ DuoGET(r) \/ DuoDevicesGET(r) \/ DuoDevicePOST(r) \/ DuoDeviceDELETE(r)
    \/ DuoPOST(r) \/ HandleDuoPreAuthResult(r) \/ DeletePreferredDuoDevice(r)
    \/ HandleAutoSelection(r) \/ PerformDuoAuthentication(r)

----------------------------------------------------------------------------
TypeOK ==
    /\ disabled \subseteq Methods /\ fallback \in Methods \cup {""}
    /\ method \in Methods \cup {"", NoRow}
    /\ device \in {NoDevice} \cup (Devices \X PossibleMethods)
    /\ \A r \in Requests :
         request[r].at \in {"idle", "insert", "info", "default", "preauth", "delete",
                            "save", "push"}

\* Duo is asked to notify only a device, with a method, that it offered for
\* this login, whatever is or was stored as the preferred one.
PushesOffered ==
    \A r \in Requests : At(r, "push") \/ At(r, "save") =>
        request[r].use \in request[r].offered

\* A method the user is told to begin with can be used, if any can, and no
\* disabled one is shown as registered.
AnswersUsable ==
    answer[1] = "info" =>
        /\ AvailableSecondFactorMethods # {} =>
             answer[2] \in AvailableSecondFactorMethods
        /\ answer[3] \cap disabled = {}

PreferencesSound == TypeOK /\ PushesOffered /\ AnswersUsable

Moves(r, where) == At(r, where) /\ request'[r] # request[r]

\* A login changes the preferred device only if Duo did not offer this device
\* for the login, although the device may have been chosen after the login had
\* read the table.  The method the user prefers is replaced by the portal only
\* if it is unavailable, or if it was chosen after the portal had read the
\* table.
ChoicesKept ==
    \A r \in Requests :
        /\ (Moves(r, "delete") \/ Moves(r, "save")) /\ device' # device =>
             device \notin request[r].offered
        /\ Moves(r, "default") /\ method' # method /\ method # NoRow =>
             \/ method \notin AvailableSecondFactorMethods
             \/ method # request[r].read.method
        /\ Moves(r, "insert") => method' \in {"", method}

PreferencesKept == [][ChoicesKept]_vars
=============================================================================
