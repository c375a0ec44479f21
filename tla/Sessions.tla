------------------------------ MODULE Sessions ------------------------------
(***************************************************************************)
(* What kauth promises about login sessions, with no tokens, rows or       *)
(* requests in sight: a session starts alone, exactly once, and what has   *)
(* ended has ended for good.  One operation may end several sessions (the  *)
(* deactivation of a user, cleanup).  A token family is how the code       *)
(* represents a session; RefreshTokens and AuthorizationCodes implement    *)
(* this specification.                                                     *)
(***************************************************************************)
CONSTANT Session

VARIABLE state      \* of each session

Init == state = [s \in Session |-> "unborn"]

Start(s) ==
    /\ state[s] = "unborn"
    /\ state' = [state EXCEPT ![s] = "live"]

End(S) ==
    /\ \A s \in S : state[s] = "live"
    /\ state' = [s \in Session |-> IF s \in S THEN "dead" ELSE state[s]]

Next ==
    \/ \E s \in Session : Start(s)
    \/ \E S \in SUBSET Session : End(S)

Spec == Init /\ [][Next]_state
=============================================================================
