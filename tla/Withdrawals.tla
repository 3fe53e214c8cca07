----------------------------- MODULE Withdrawals -----------------------------
(***************************************************************************)
(* What a request of AccessControl has checked can be withdrawn before it  *)
(* uses it: a membership or a row removed, a role revoked, a permission    *)
(* taken from a role, a user deactivated, each by another request or by an *)
(* operator.  This module adds history variables that note what was        *)
(* withdrawn while a request was in flight, leaves the steps as they are,  *)
(* and states that nothing else makes a check stale.                       *)
(***************************************************************************)
EXTENDS AccessControl

VARIABLES
    withdrawn,  \* history: grants and users withdrawn since a session's request began
    caller      \* history: the user whose access token the request bears

withdrawalVars == <<vars, withdrawn, caller>>

(* The grants whose row a step removes and the users it deactivates. *)
Removed == {g \in Grants : Present(g) /\ row'[g] # row[g]} \cup (active \ active')

Note ==
    /\ withdrawn' = [s \in Sessions |->
                       IF pc'[s] = "idle" THEN {} ELSE withdrawn[s] \cup Removed]
    /\ caller' = [s \in Sessions |->
                    IF pc'[s] = "idle" THEN NULL
                    ELSE IF pc'[s] = "authorize" THEN actor'[s] ELSE caller[s]]

WithdrawalInit ==
    /\ Init
    /\ withdrawn = [s \in Sessions |-> {}]
    /\ caller = [s \in Sessions |-> NULL]
WithdrawalNext == Next /\ Note
WithdrawalSpec == WithdrawalInit /\ [][WithdrawalNext]_withdrawalVars

-----------------------------------------------------------------------------
(* The grant has a row, or lost it while the request of session s ran. *)
Held(s, g) == Present(g) \/ g \in withdrawn[s]

(* The row the request of session s has loaded or inserted for g is the row  *)
(* of g, or was removed while the request ran.                               *)
SameRow(s, g) == (Present(g) /\ found[s] = row[g]) \/ g \in withdrawn[s]

-----------------------------------------------------------------------------
(* Properties, whatever the requests and however they interleave *)

(* assign_role gives a role within an organization to a member of it, or to  *)
(* one whose membership a request in flight at the same time has removed:    *)
(* is_member is asked once, before the INSERT.                               *)
MemberOrRemoved ==
    \A s \in Sessions :
        At(s, "assign_role", "insert") /\ op[s].arg.organization # NULL =>
            Held(s, [user |-> op[s].arg.user, organization |-> op[s].arg.organization])

(* revoke_role and remove_member delete the row they found, and assign_role  *)
(* and add_member read back the row they inserted, unless another request in *)
(* flight has removed it: only then is a removal recorded that was another's,*)
(* or a grant left without its audit row.                                    *)
RowOrRemoved ==
    \A s \in Sessions :
        \/ At(s, "revoke_role", "delete") \/ At(s, "remove_member", "delete")
        \/ At(s, "assign_role", "refresh") \/ At(s, "add_member", "refresh")
        => SameRow(s, op[s].arg)

(* A request past require_permission is served for an active user who holds  *)
(* the permission its route requires through a global role, or has lost the  *)
(* role, the role's permission or is_active since get_current_user ran.      *)
AuthorizedOrWithdrawn ==
    \A s \in Sessions : pc[s] \notin {"idle", "authorize"} =>
        /\ caller[s] \in active \cup withdrawn[s]
        /\ \E q \in Roles :
              /\ Held(s, [user |-> caller[s], role |-> q, organization |-> NULL])
              /\ Held(s, [role |-> q, permission |-> Required(op[s].kind)])

-----------------------------------------------------------------------------
(* The inductive invariant: the caller is a user, and before                *)
(* require_permission answers it is the one that get_current_user loaded and *)
(* was active if that says so.                                               *)
WithdrawalInv ==
    /\ MemberOrRemoved /\ RowOrRemoved /\ AuthorizedOrWithdrawn
    /\ \A s \in Sessions : pc[s] # "idle" => caller[s] \in UserIds
    /\ \A s \in Sessions : pc[s] = "authorize" =>
          /\ caller[s] = actor[s]
          /\ is_active[s] => caller[s] \in active \cup withdrawn[s]
=============================================================================
