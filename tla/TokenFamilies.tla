---------------------------- MODULE TokenFamilies ----------------------------
(***************************************************************************)
(* What refresh tokens promise, without requests, rows, locks or walks: a  *)
(* login opens a session; a session has at most one token that can be      *)
(* exchanged at any time (its current token); exchanging it makes a token  *)
(* never used before current; once closed, by logout or by the detection   *)
(* of a replayed token, a session never has a current token again.         *)
(*                                                                         *)
(* A session is named by the token its login issued.  RefreshTokens, the   *)
(* model of the code, implements this specification.                       *)
(***************************************************************************)
CONSTANTS Users, Tokens, NULL

VARIABLES
    session_owner,  \* [Tokens -> user that opened the session, NULL: none]
    current,        \* [Tokens -> the session's exchangeable token, or NULL]
    used            \* tokens that are or were the current token of a session

vars == <<session_owner, current, used>>

TypeOK ==
    /\ session_owner \in [Tokens -> Users \cup {NULL}]
    /\ current \in [Tokens -> Tokens \cup {NULL}]
    /\ used \subseteq Tokens

Init ==
    /\ session_owner = [s \in Tokens |-> NULL]
    /\ current = [s \in Tokens |-> NULL]
    /\ used = {}

(* A login opens session s for user u; s is also its first token. *)
Open(s, u) ==
    /\ s \notin used
    /\ session_owner' = [session_owner EXCEPT ![s] = u]
    /\ current' = [current EXCEPT ![s] = s]
    /\ used' = used \cup {s}

(* The current token of session s is exchanged for the new token t. *)
Rotate(s, t) ==
    /\ current[s] # NULL
    /\ t \notin used
    /\ current' = [current EXCEPT ![s] = t]
    /\ used' = used \cup {t}
    /\ UNCHANGED session_owner

(* Session s ends: logout, or a replay of one of its earlier tokens. *)
Close(s) ==
    /\ current[s] # NULL
    /\ current' = [current EXCEPT ![s] = NULL]
    /\ UNCHANGED <<session_owner, used>>

Next ==
    \/ \E s \in Tokens, u \in Users : Open(s, u)
    \/ \E s, t \in Tokens : Rotate(s, t)
    \/ \E s \in Tokens : Close(s)

Spec == Init /\ [][Next]_vars
=============================================================================
