--------------------------- MODULE AccountDirectory --------------------------
(***************************************************************************)
(* What accounts promise, without requests, rows or hashes: an address     *)
(* belongs to the first who registers it, with the password chosen then;   *)
(* nobody takes it over and no account is lost; an account that is closed  *)
(* stays closed; only who knows the password of an account is admitted.    *)
(*                                                                         *)
(* Accounts, the model of the code, implements this specification.         *)
(***************************************************************************)
CONSTANTS Addresses, Passwords

VARIABLES
    accounts,  \* the addresses registered, each with its password
    closed,    \* addresses whose account has been deactivated
    admitted   \* accounts somebody has logged in to

vars == <<accounts, closed, admitted>>

Account(a, p) == [address |-> a, password |-> p]

Init == accounts = {} /\ closed = {} /\ admitted = {}

Register(a, p) ==
    /\ \A x \in accounts : x.address # a
    /\ accounts' = accounts \cup {Account(a, p)}
    /\ UNCHANGED <<closed, admitted>>

LogIn(a, p) ==
    /\ Account(a, p) \in accounts
    /\ admitted' = admitted \cup {Account(a, p)}
    /\ UNCHANGED <<accounts, closed>>

Deactivate(a) ==
    /\ \E x \in accounts : x.address = a
    /\ closed' = closed \cup {a}
    /\ UNCHANGED <<accounts, admitted>>

Next ==
    \E a \in Addresses :
        \/ \E p \in Passwords : Register(a, p) \/ LogIn(a, p)
        \/ Deactivate(a)

Spec == Init /\ [][Next]_vars
=============================================================================
