---------------------------- MODULE OAuth2Device ----------------------------
(***************************************************************************)
(* The device authorization flow: a device polls the token endpoint with   *)
(* its device code while users enter the user code in browser tabs, answer *)
(* the consent question (POST) and approve the device (PUT).  One device   *)
(* code session; the tabs and the polls interleave at every SQL statement. *)
(* The calls the OAuth 2.0 library makes are external.                     *)
(***************************************************************************)
EXTENDS Naturals, FiniteSets

CONSTANTS
    Tabs,       \* browser tabs in which the user code is entered
    Users,
    UserOf,     \* who is signed in to each tab
    Polls,      \* concurrent polls of the token endpoint
    Serial,     \* TRUE: consent answers for one user code do not overlap
    None

DeviceAssumption ==
    /\ UserOf \in [Tabs -> Users]
    /\ Serial \in BOOLEAN
    /\ None \notin Tabs \cup Users

VARIABLES
    device,     \* the device code session row
    consent,    \* the consent session each tab's answer created
    tab,        \* the request in progress in each tab
    poll,       \* the poll in progress
    tokens      \* history: what each redemption of the device code was issued for

vars == <<device, consent, tab, poll, tokens>>

Row == [challenge : Tabs \cup {None}, subject : Users \cup {None},
        status : {"new", "approved", "denied"}, active : BOOLEAN]

NewRow == [challenge |-> None, subject |-> None, status |-> "new", active |-> TRUE]

\* CreateDeviceCodeSession has stored a new session; the user code is on the device's screen.
Init ==
    /\ device = NewRow
    /\ consent = [t \in Tabs |-> [answer |-> "none", granted |-> FALSE]]
    /\ tab = [t \in Tabs |-> [pc |-> "start", accept |-> FALSE, row |-> NewRow]]
    /\ poll = [p \in Polls |-> [pc |-> "idle", row |-> NewRow]]
    /\ tokens = {}

-----------------------------------------------------------------------------
(* POST of the consent answer *)

InPost(t) == tab[t].pc \in {"save", "answer", "update"}


\* What the handler asks of the session it loaded: active, not yet advanced, and
\* not bound to someone else.
MayAdvance(row, user) ==
    /\ row.active
    /\ row.challenge = None
    /\ row.subject \in {None, user}

\* LoadOAuth2DeviceCodeSessionByUserCode and the checks before the first write.
ConsentPOST(t, accept) ==
    /\ tab[t].pc = "start"
    /\ Serial => \A s \in Tabs \ {t} : ~InPost(s)
    /\ tab' = [tab EXCEPT ![t] = IF MayAdvance(device, UserOf[t])
                                 THEN [pc |-> "save", accept |-> accept, row |-> device]
                                 ELSE [@ EXCEPT !.pc = "ended"]]
    /\ UNCHANGED <<device, consent, poll, tokens>>

\* SaveOAuth2ConsentSession for the subject of this tab.
SaveConsent(t) ==
    /\ tab[t].pc = "save"
    /\ consent' = [consent EXCEPT ![t].answer = "asked"]
    /\ tab' = [tab EXCEPT ![t].pc = "answer"]
    /\ UNCHANGED <<device, poll, tokens>>

\* SaveOAuth2ConsentSessionResponse.
SaveAnswer(t) ==
    /\ tab[t].pc = "answer"
    /\ consent' = [consent EXCEPT ![t].answer = IF tab[t].accept THEN "authorized" ELSE "refused"]
    /\ tab' = [tab EXCEPT ![t].pc = "update"]
    /\ UNCHANGED <<device, poll, tokens>>

\* The row the handler writes: the one it loaded, with its own changes.
AnsweredRow(t) ==
    IF tab[t].accept
    THEN [tab[t].row EXCEPT !.challenge = t]
    ELSE [tab[t].row EXCEPT !.challenge = t, !.active = FALSE, !.status = "denied"]

\* UpdateOAuth2DeviceCodeSession replaces the whole row.  The portal goes on to
\* the approval when the user accepted.
UpdateDevice(t) ==
    /\ tab[t].pc = "update"
    /\ device' = AnsweredRow(t)
    /\ tab' = [tab EXCEPT ![t].pc = IF tab[t].accept THEN "put" ELSE "ended"]
    /\ UNCHANGED <<consent, poll, tokens>>

-----------------------------------------------------------------------------
(* PUT of the approval, with the flow id the answer returned *)

\* NewRFC8628UserAuthorizeRequest finds the session by its user code; the consent
\* session of the flow id belongs to the subject of the tab.
AuthorizationPUT(t) ==
    /\ tab[t].pc = "put"
    /\ tab' = [tab EXCEPT ![t].pc = IF device.active THEN "approve" ELSE "ended"]
    /\ UNCHANGED <<device, consent, poll, tokens>>

\* NewRFC8628UserAuthorizeResponse stores the approval with
\* UpdateOAuth2DeviceCodeSessionData, which leaves the active flag alone.
Approve(t) ==
    /\ tab[t].pc = "approve"
    /\ device' = [device EXCEPT !.challenge = t, !.subject = UserOf[t], !.status = "approved"]
    /\ tab' = [tab EXCEPT ![t].pc = "grant"]
    /\ UNCHANGED <<consent, poll, tokens>>

\* SaveOAuth2ConsentSessionGranted, after the approval is already visible to the device.
SaveGranted(t) ==
    /\ tab[t].pc = "grant"
    /\ consent' = [consent EXCEPT ![t].granted = TRUE]
    /\ tab' = [tab EXCEPT ![t].pc = "ended"]
    /\ UNCHANGED <<device, poll, tokens>>

\* A storage error, or a server that goes away, between any two statements.
Fail(t) ==
    /\ tab[t].pc \notin {"start", "ended"}
    /\ tab' = [tab EXCEPT ![t].pc = "ended"]
    /\ UNCHANGED <<device, consent, poll, tokens>>

-----------------------------------------------------------------------------
(* The device polls the token endpoint *)


\* A poll that waits for the consent session to be marked as granted.
Poll_Granted(p) ==
    /\ poll[p].pc = "idle"
    /\ device.active /\ device.status = "approved"
    /\ consent[device.challenge].granted
    /\ poll' = [poll EXCEPT ![p] = [pc |-> "redeem", row |-> device]]
    /\ UNCHANGED <<device, consent, tab, tokens>>

\* GetDeviceCodeSession: an inactive session is refused, one that is not yet
\* approved is told to wait.
Poll(p) ==
    /\ poll[p].pc = "idle"
    /\ device.active /\ device.status = "approved"
    /\ poll' = [poll EXCEPT ![p] = [pc |-> "redeem", row |-> device]]
    /\ UNCHANGED <<device, consent, tab, tokens>>

\* InvalidateDeviceCodeSession, committed with the tokens: only an active row is
\* affected, and no affected row is an error.
Redeem(p) ==
    /\ poll[p].pc = "redeem"
    /\ IF device.active
       THEN /\ device' = [device EXCEPT !.active = FALSE]
            /\ tokens' = tokens \cup {[poll |-> Cardinality(tokens), consent |-> poll[p].row.challenge,
                                       subject |-> poll[p].row.subject]}
       ELSE UNCHANGED <<device, tokens>>
    /\ poll' = [poll EXCEPT ![p].pc = "idle"]
    /\ UNCHANGED <<consent, tab>>

-----------------------------------------------------------------------------
Next ==
    \/ \E t \in Tabs :
        \/ \E accept \in BOOLEAN : ConsentPOST(t, accept)
        \/ SaveConsent(t)
        \/ SaveAnswer(t)
        \/ UpdateDevice(t)
        \/ AuthorizationPUT(t)
        \/ Approve(t)
        \/ SaveGranted(t)
        \/ Fail(t)
    \/ \E p \in Polls : Poll(p) \/ Redeem(p)

Spec == Init /\ [][Next]_vars

\* Both the portal and the device keep going; a storage error is not forced.
Answering(t) ==
    SaveConsent(t) \/ SaveAnswer(t) \/ UpdateDevice(t) \/ AuthorizationPUT(t) \/ Approve(t) \/ SaveGranted(t)

Fairness ==
    /\ \A t \in Tabs : WF_vars(Answering(t))
    /\ \A p \in Polls : WF_vars(Poll(p)) /\ WF_vars(Redeem(p))

FairSpec == Spec /\ Fairness

-----------------------------------------------------------------------------
(* Properties *)

\* The row is a device code session, every consent session is of a tab that
\* asked for it, and only answers that were given are granted.
TypeOKDevice ==
    /\ device \in Row
    /\ \A t \in Tabs : tab[t].row \in Row
    /\ \A t \in Tabs : consent[t].granted => consent[t].answer = "authorized"
    /\ \A p \in Polls : poll[p].row \in Row

\* A device code is redeemed at most once, by whichever poll deactivates the row;
\* no approval, however late, makes the row active again.
RedeemedOnce == Cardinality(tokens) <= 1

\* Tokens are issued for a subject who accepted: the consent session the device
\* code session names at redemption is that subject's and was authorized.
TokensRestOnConsent ==
    \A k \in tokens : k.consent # None /\ consent[k.consent].answer = "authorized"
                      /\ k.subject = UserOf[k.consent]

=============================================================================
