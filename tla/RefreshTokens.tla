---------------------------- MODULE RefreshTokens ----------------------------
(***************************************************************************)
(* Refresh-token families: rotation, lost-response retries, reuse          *)
(* detection, logout and account deletion, statement by statement.         *)
(* Statements run READ COMMITTED: an UPDATE picks its rows from what is    *)
(* committed when it starts, waits for the row locks of running            *)
(* transactions and checks each row again once it has the lock; a row      *)
(* committed after it started is not seen.                                 *)
(*                                                                         *)
(* A token has the id of the request that stores it, a family the id of    *)
(* the login that starts it.  Any request may present any stored token:    *)
(* responses are lost, duplicated and late.                                *)
(*                                                                         *)
(* Sources: internal/auth/{service,refresh_repo,account_repo}.go.          *)
(***************************************************************************)
EXTENDS Naturals

CONSTANTS Ops           \* requests of one customer, numbered in order of arrival

ASSUME OpsAssumption == Ops \subseteq Nat \ {0}

VARIABLES
    pc,         \* where a request is
    token,      \* the token it presents (0: none)
    tokenRows,  \* refresh_tokens, committed
    target,     \* the rows a revocation picked when it started
    parent,     \* the token a rotation replaced (ghost; 0: not by rotation)
    closed,     \* families a revocation has finished with (ghost)
    calm        \* of these, the ones no refresh was running in (ghost)

tokenVars == <<pc, token, tokenRows, target, parent, closed, calm>>

NoToken == [family |-> 0, revoked |-> TRUE, rotated |-> FALSE, recent |-> FALSE, expired |-> FALSE]

Fresh(f) == [family |-> f, revoked |-> FALSE, rotated |-> FALSE, recent |-> FALSE, expired |-> FALSE]

Stored == {t \in Ops : tokenRows[t].family # 0}
Family(f) == {t \in Stored : tokenRows[t].family = f}

TokensInit ==
    /\ pc = [q \in Ops |-> "idle"]
    /\ token = [q \in Ops |-> 0]
    /\ tokenRows = [t \in Ops |-> NoToken]
    /\ target = [q \in Ops |-> {}]
    /\ parent = [t \in Ops |-> 0]
    /\ closed = {}
    /\ calm = {}

begins(q) == pc[q] = "idle" /\ \A t \in Ops : t < q => pc[t] # "idle"

goes(q, where) == pc' = [pc EXCEPT ![q] = where]

\* A rotation holds its token's row until it commits.
locked(q, t) == \E r \in Ops \ {q} : pc[r] = "rotating" /\ token[r] = t

\* A refresh that may still store a token in family f.
refreshing(f) ==
    \E r \in Ops : pc[r] \in {"rotating", "issuing"} /\ tokenRows[token[r]].family = f

\* deleteCustomer holds the customers row, which every INSERT references.
deleting == \E r \in Ops : pc[r] = "revoking" /\ token[r] = 0

-----------------------------------------------------------------------------
\* issueTokenPair at the end of a login.
create(q) ==
    /\ begins(q)
    /\ ~deleting
    /\ tokenRows' = [tokenRows EXCEPT ![q] = Fresh(q)]
    /\ goes(q, "done")
    /\ UNCHANGED <<token, target, parent, closed, calm>>

Refresh(q, t) ==
    /\ begins(q)
    /\ token' = [token EXCEPT ![q] = t]
    /\ goes(q, "refresh")
    /\ UNCHANGED <<tokenRows, target, parent, closed, calm>>

\* Mutant: the row is not looked at again once the lock is granted.
activeRowOnce(t) == ~tokenRows[t].expired

\* WHERE revoked_at IS NULL AND expires_at > now()
activeRow(t) == ~tokenRows[t].revoked /\ ~tokenRows[t].expired

\* UPDATE refresh_tokens ... RETURNING
rotate(q) ==
    /\ pc[q] = "refresh"
    /\ ~locked(q, token[q])
    /\ goes(q, IF activeRow(token[q]) THEN "rotating" ELSE "inactive")
    /\ UNCHANGED <<token, tokenRows, target, parent, closed, calm>>

retired(t) == [tokenRows[t] EXCEPT !.revoked = TRUE, !.rotated = TRUE, !.recent = TRUE]

\* The successor's INSERT and the commit.
rotateCommit(q) ==
    LET t == token[q] IN
    /\ pc[q] = "rotating"
    /\ ~deleting
    /\ tokenRows' = [tokenRows EXCEPT ![t] = retired(t), ![q] = Fresh(tokenRows[t].family)]
    /\ parent' = [parent EXCEPT ![q] = t]
    /\ goes(q, "done")
    /\ UNCHANGED <<token, target, closed, calm>>

\* Mutant: the UPDATE is not in the successor's transaction.
rotateUndoneNot(q) == [tokenRows EXCEPT ![token[q]] = retired(token[q])]

\* The INSERT fails, or closes a wait cycle with deleteCustomer: ROLLBACK
\* takes the UPDATE back.
rotateUndone(q) == tokenRows

rotateFails(q) ==
    /\ pc[q] = "rotating"
    /\ tokenRows' = rotateUndone(q)
    /\ goes(q, "refused")
    /\ UNCHANGED <<token, target, parent, closed, calm>>

-----------------------------------------------------------------------------
\* time.Since(rotated_at) < refreshReuseGrace
withinGrace(t) == tokenRows[t].recent

\* handleInactiveRefresh: lookup, then a retry, reuse or neither.
lookup(q) ==
    LET t == token[q] IN
    /\ pc[q] = "inactive"
    /\ goes(q, IF ~tokenRows[t].rotated THEN "refused" ELSE IF withinGrace(t) THEN "grace" ELSE "revoke")
    /\ UNCHANGED <<token, tokenRows, target, parent, closed, calm>>

\* Mutant: the token is stored without looking at the family.
familyAliveAssumed(f) == TRUE

\* EXISTS (SELECT 1 ... revoked_at IS NULL AND expires_at > now())
familyAlive(f) == \E t \in Family(f) : activeRow(t)

\* issueInFamily reads ...
issueInFamily(q) ==
    /\ pc[q] = "grace"
    /\ goes(q, IF familyAlive(tokenRows[token[q]].family) THEN "issuing" ELSE "refused")
    /\ UNCHANGED <<token, tokenRows, target, parent, closed, calm>>

\* ... and inserts.
issueCommit(q) ==
    /\ pc[q] = "issuing"
    /\ ~deleting
    /\ tokenRows' = [tokenRows EXCEPT ![q] = Fresh(tokenRows[token[q]].family)]
    /\ goes(q, "done")
    /\ UNCHANGED <<token, target, parent, closed, calm>>

-----------------------------------------------------------------------------
\* Logout looks the token up; an unknown one is a no-op.
Logout(q, t) ==
    /\ begins(q)
    /\ token' = [token EXCEPT ![q] = t]
    /\ goes(q, "revoke")
    /\ UNCHANGED <<tokenRows, target, parent, closed, calm>>

unrevoked(S) == {t \in S : ~tokenRows[t].revoked}

\* revokeFamily starts: the rows of its snapshot.
revokeFamily(q) ==
    /\ pc[q] = "revoke"
    /\ target' = [target EXCEPT ![q] = unrevoked(Family(tokenRows[token[q]].family))]
    /\ goes(q, "revoking")
    /\ UNCHANGED <<token, tokenRows, parent, closed, calm>>

\* deleteCustomer's revocation of all the customer's tokens.
revokeCustomer(q) ==
    /\ begins(q)
    /\ ~deleting
    /\ target' = [target EXCEPT ![q] = unrevoked(Stored)]
    /\ goes(q, "revoking")
    /\ UNCHANGED <<token, tokenRows, parent, closed, calm>>

revokes(q) ==
    {tokenRows[t].family : t \in target[q]} \cup (IF token[q] = 0 THEN {} ELSE {tokenRows[token[q]].family})

\* It has every row lock it waited for, and commits.
revokeCommit(q) ==
    /\ pc[q] = "revoking"
    /\ \A t \in target[q] : ~locked(q, t)
    /\ tokenRows' = [t \in Ops |-> IF t \in target[q] THEN [tokenRows[t] EXCEPT !.revoked = TRUE] ELSE tokenRows[t]]
    /\ closed' = closed \cup revokes(q)
    /\ calm' = calm \cup {f \in revokes(q) : ~refreshing(f) /\ unrevoked(Family(f)) \subseteq target[q]}
    /\ goes(q, "done")
    /\ UNCHANGED <<token, target, parent>>

-----------------------------------------------------------------------------
expire(t) ==
    /\ t \in Stored /\ ~tokenRows[t].expired
    /\ tokenRows' = [tokenRows EXCEPT ![t].expired = TRUE]
    /\ UNCHANGED <<pc, token, target, parent, closed, calm>>

graceEnds(t) ==
    /\ tokenRows[t].recent
    /\ tokenRows' = [tokenRows EXCEPT ![t].recent = FALSE]
    /\ UNCHANGED <<pc, token, target, parent, closed, calm>>

\* A statement fails, the client is gone, the process restarts.
refuse(q) ==
    /\ pc[q] \notin {"idle", "done", "refused", "rotating"}
    /\ goes(q, "refused")
    /\ UNCHANGED <<token, tokenRows, target, parent, closed, calm>>

TokensNext ==
    \E q \in Ops :
        \/ create(q) \/ revokeCustomer(q)
        \/ \E t \in Stored : Refresh(q, t) \/ Logout(q, t)
        \/ rotate(q) \/ rotateCommit(q) \/ rotateFails(q)
        \/ lookup(q) \/ issueInFamily(q) \/ issueCommit(q)
        \/ revokeFamily(q) \/ revokeCommit(q)
        \/ expire(q) \/ graceEnds(q) \/ refuse(q)

TokensSpec == TokensInit /\ [][TokensNext]_tokenVars

-----------------------------------------------------------------------------
(* Properties.                                                              *)

\* Two refreshes with one token cannot both rotate it: a token has at most
\* one successor by rotation ("the loser sees it as reuse", rotate).
RotatedOnce ==
    \A q, r \in Ops : parent[q] # 0 /\ parent[q] = parent[r] => q = r

\* A refresh that fails half-way, or whose response is lost, never costs the
\* session: a family nobody revoked has a token that is not revoked.
NeverStranded ==
    \A f \in Ops \ closed : Family(f) # {} => unrevoked(Family(f)) # {}

\* A session that was revoked while no refresh of it was running stays
\* over, whatever old tokens are presented within the grace window.
ClosedStaysClosed == \A f \in calm : unrevoked(Family(f)) = {}

\* "revokes every still-active token of the family" (revokeFamily): after a
\* revocation the family has no token left.
RevokedFamilyIsDead == \A f \in closed : unrevoked(Family(f)) = {}
=============================================================================
