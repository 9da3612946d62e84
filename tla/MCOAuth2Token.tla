--------------------------- MODULE MCOAuth2Token ----------------------------
(***************************************************************************)
(* The token endpoint for TLC: the tokens of a grant, the device flow, and *)
(* the assertions clients authenticate with.  They meet in no table; which *)
(* of them runs is chosen at the start.                                    *)
(***************************************************************************)
EXTENDS OAuth2Tokens

CONSTANTS g1, g2, g3, q1, q2, q3, t1, t2, t3, u1, u2, j1, j2, None

VARIABLES part, device, consent, tab, poll, tokens, now, blacklist, checked, accepted

\* Two tabs of one user and one of another; answers overlap, or do not.
UserOf == [t \in {t1, t2, t3} |-> IF t = t3 THEN u2 ELSE u1]
Device == INSTANCE OAuth2Device WITH
    Tabs <- {t1, t2, t3}, Users <- {u1, u2}, Polls <- {q1, q2}, Serial <- TRUE
Overlap == INSTANCE OAuth2Device WITH
    Tabs <- {t1, t2, t3}, Users <- {u1, u2}, Polls <- {q1, q2}, Serial <- FALSE

\* Three assertions, two of them with the same jti and different lifetimes.
Assertions == INSTANCE OAuth2Assertions WITH
    Assertions <- {[jti |-> j1, exp |-> 1], [jti |-> j1, exp |-> 4], [jti |-> j2, exp |-> 3]},
    Requests <- {q1, q2}, req <- checked, MaxTime <- 4, Serial <- TRUE

ASSUME DeviceAssumptions == Device!DeviceAssumption /\ Overlap!DeviceAssumption
ASSUME AssertionsAssumption == Assertions!AssertionsAssumption

deviceVars == <<device, consent, tab, poll, tokens>>
assertionVars == <<now, blacklist, checked, accepted>>

NoDevice == device = 0 /\ consent = 0 /\ tab = 0 /\ poll = 0 /\ tokens = 0
NoAssertions == now = 0 /\ blacklist = 0 /\ checked = 0 /\ accepted = 0

MCInit ==
    /\ Init
    /\ \/ part \in {"plain", "hybrid"} /\ NoDevice /\ NoAssertions
       \/ part = "device" /\ Device!Init /\ NoAssertions
       \/ part = "overlap" /\ Overlap!Init /\ NoAssertions
       \/ part = "assertions" /\ Assertions!Init /\ NoDevice

\* Bounds: three requests for one grant with three tokens, or two requests for
\* a hybrid grant and a hybrid grant with old refresh tokens, with four.
Bounded ==
    IF part = "plain"
    THEN issued' <= 3 /\ \A g \in HybridGrants : code'[g] = "none"
    ELSE code'[g1] = "none" /\ req'[q3].pc = "idle"

MCNext ==
    /\ \/ part \in {"plain", "hybrid"} /\ Next /\ Bounded /\ UNCHANGED <<deviceVars, assertionVars>>
       \/ part = "device" /\ Device!Next /\ UNCHANGED <<vars, assertionVars>>
       \/ part = "overlap" /\ Overlap!Next /\ UNCHANGED <<vars, assertionVars>>
       \/ part = "assertions" /\ Assertions!Next /\ UNCHANGED <<vars, deviceVars>>
    /\ UNCHANGED part

MCSpec == MCInit /\ [][MCNext]_<<vars, deviceVars, assertionVars, part>>

Symmetry == Permutations({q1, q2})

\* A code or a refresh token is exchanged at most once (ExchangedOnce), its pair
\* does not outlive the rotation (RotatedPairDies), a revocation that reports
\* success holds (RevocationHolds), and short of one of these the client keeps
\* something it can use (LatestPairUsable), whichever statements of which
\* requests interleave or fail.
TokensSound ==
    part \in {"plain", "hybrid"} =>
        TypeOK /\ ExchangedOnce /\ RotatedPairDies /\ RevocationHolds /\ LatestPairUsable


=============================================================================
