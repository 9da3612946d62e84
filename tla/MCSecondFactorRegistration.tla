--------------------- MODULE MCSecondFactorRegistration --------------------
(***************************************************************************)
(* Instance of SecondFactorRegistration, and of SessionElevation which it  *)
(* extends.  Which handlers the overlapping requests are for is chosen at  *)
(* the start.                                                              *)
(***************************************************************************)
EXTENDS SecondFactorRegistration, TLC

CONSTANTS u1, u2, a1, a2

VARIABLE mix

MCElevations == [id : 1 .. 1, ip : {a1, a2}, expires : 0 .. 1]
MCPendings == [user : {u1, u2}, expires : 0 .. 1]

\* Bounds: the handlers that overlap, the sessions stored before and the
\* factors they were logged in with, identifiers generated, clock, and whether
\* the requests come from different addresses; at most one of the overlapping
\* requests is a login.
Mixes ==
    {[handlers |-> {"firstfactor", "elevationPOST", "elevationPUT"},
      stored |-> 1, factors |-> 1, ids |-> 3, now |-> 0, roaming |-> FALSE],
     [handlers |-> {"elevationGET", "elevationPOST", "elevationPUT",
                    "elevationDELETE", "admin"},
      stored |-> 1, factors |-> 1, ids |-> 3, now |-> 1, roaming |-> TRUE],
     [handlers |-> {"firstfactor", "totpRegisterPUT", "totpRegisterPOST", "totpDELETE"},
      stored |-> 1, factors |-> 2, ids |-> 2, now |-> 0, roaming |-> FALSE],
     [handlers |-> {"totpRegisterPUT", "totpRegisterPOST", "totpRegisterDELETE"},
      stored |-> 1, factors |-> 2, ids |-> 1, now |-> 1, roaming |-> FALSE],
     [handlers |-> {"registrationPUT", "registrationPOST", "registrationDELETE",
                    "credentialPUT"},
      stored |-> 1, factors |-> 2, ids |-> 1, now |-> 0, roaming |-> FALSE],
     [handlers |-> {"registrationPUT", "registrationPOST", "credentialDELETE"},
      stored |-> 2, factors |-> 2, ids |-> 2, now |-> 0, roaming |-> FALSE]}

MCInit ==
    /\ InitRegistration
    /\ mix \in Mixes
    /\ last = mix.stored
    /\ AuthenticationLevel(store[1]) = mix.factors

MCNext ==
    /\ NextRegistration
    /\ \A r \in Requests : op'[r] \in mix.handlers \cup {"none"}
    /\ Cardinality({r \in Requests : op'[r] = "firstfactor"}) <= 1
    /\ last' <= mix.ids
    /\ now' <= mix.now
    /\ mix.roaming \/ \A r \in Requests : ip'[r] \in {NoIP, a1}
    /\ UNCHANGED mix

MCSpec == MCInit /\ [][MCNext]_<<registrationVars, mix>>

Symmetry ==
    Permutations(Requests) \cup Permutations(Users) \cup Permutations(Registrations)
=============================================================================
