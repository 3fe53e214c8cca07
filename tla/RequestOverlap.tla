--------------------------- MODULE RequestOverlap ----------------------------
(***************************************************************************)
(* What a replay and a logout achieve when requests overlap.  The code's   *)
(* comments promise that either ends the session; other requests in flight *)
(* can undo that.  This module adds to RefreshTokens, whose steps stay as  *)
(* they are, a history variable that notes which requests were in flight   *)
(* together, and states the promises with the only overlaps that break     *)
(* them: a rotation committed meanwhile, or a second logout.               *)
(***************************************************************************)
EXTENDS RefreshTokens

VARIABLE met  \* history variable: the requests one has been in flight with

overlapVars == <<vars, met>>

(* Requests that are in flight after the step have met. *)
Meet == met' = [r \in Requests |->
                  IF pc'[r] \in InFlight
                  THEN met[r] \cup {q \in Requests \ {r} : pc'[q] \in InFlight}
                  ELSE met[r]]

OverlapInit == Init /\ met = [r \in Requests |-> {}]
OverlapNext == Next /\ Meet
OverlapSpec == OverlapInit /\ [][OverlapNext]_overlapVars

-----------------------------------------------------------------------------
(* Request q has rotated the token it was given. *)
Rotation(q) == token[q] # NULL /\ issued[q] # NULL /\ replaced_by[token[q]] = issued[q]

(* Request r was in flight together with a rotation in family f, or of t. *)
Outrun(r, f) == \E q \in met[r] : Rotation(q) /\ family[token[q]] = f
RotatedBeside(r, t) == \E q \in met[r] : Rotation(q) /\ token[q] = t

(* The chain of family f is no longer than a walk from its first token sees. *)
WithinReach(f) ==
    LET members == {t \in Tokens : family[t] = f}
    IN  IsFiniteSet(members) /\ Cardinality(members) <= MaxFamilyWalkSteps + 1

-----------------------------------------------------------------------------
(* Properties *)

(* A replay on record has ended its session, family_already_revoked or not   *)
(* (_handle_revoked_token: "if anything in this family is still live, it's   *)
(* killed"), unless the chain is longer than revoke_descendants walks or a   *)
(* rotation of the same family was in flight at the same time.               *)
ReplayEndsSession ==
    \A e \in audit : e.action = "REFRESH_TOKEN_REUSE_DETECTED" =>
        \/ Dead(family[e.token])
        \/ ~WithinReach(family[e.token])
        \/ Outrun(e.request, family[e.token])

(* A logout on record has ended its session, whoever else revoked the token  *)
(* first, unless a rotation of that very token was in flight at the same     *)
(* time (revoke: a token that gets here "cannot be mid-chain").              *)
LogoutEndsOrOverlaps ==
    \A e \in audit : e.action = "USER_LOGOUT" =>
        Dead(family[e.token]) \/ RotatedBeside(e.request, e.token)

(* A token is logged out on record twice only by requests that were in       *)
(* flight together (logout: "only an actual revocation is written to the     *)
(* audit log").                                                              *)
RepeatedLogoutsOverlap ==
    \A e, f \in audit :
        /\ e.action = "USER_LOGOUT" /\ f.action = "USER_LOGOUT"
        /\ e.token = f.token /\ e.request # f.request
        => e.request \in met[f.request]

-----------------------------------------------------------------------------
(* The inductive invariant *)

(* What request r has read of the rows still holds, or it was overtaken. *)
Overtaken(r) ==
    /\ pc[r] \in WalkSteps /\ candidate[r] # NULL =>
          seen[r] = replaced_by[candidate[r]] \/ Outrun(r, family[token[r]])
    /\ pc[r] = "reuse_audit" =>
          \/ Dead(family[token[r]])
          \/ ~WithinReach(family[token[r]])
          \/ Outrun(r, family[token[r]])
    /\ pc[r] = "revoke" /\ replaced_by[token[r]] # NULL => RotatedBeside(r, token[r])
    /\ pc[r] = "logout_audit" => Dead(family[token[r]]) \/ RotatedBeside(r, token[r])
    /\ pc[r] \in LogoutSteps => \A e \in audit :
          e.action = "USER_LOGOUT" /\ e.token = token[r] /\ e.request # r =>
              e.request \in met[r] /\ r \in met[e.request]

(* At any concurrency: chains have one leaf and no cycle, walks advance, and *)
(* requests in flight have met.                                              *)
OverlapInv ==
    /\ met \in [Requests -> SUBSET Requests]
    /\ \A q, r \in Requests : pc[q] \in InFlight /\ pc[r] \in InFlight /\ q # r => q \in met[r]
    /\ OneLeafPerFamily /\ ChainsAcyclic
    /\ \A r \in Requests : WalkAdvances(r) /\ Overtaken(r)
    /\ ReplayEndsSession /\ LogoutEndsOrOverlaps /\ RepeatedLogoutsOverlap
=============================================================================
