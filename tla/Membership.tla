------------------------------ MODULE Membership ------------------------------
(***************************************************************************)
(* Who belongs to one workspace: the memberships, the invites that lead to *)
(* them and users.current_workspace_id, as routes/workspaces/{accept,      *)
(* invites,members,index-router}.ts and the sign-in of routes/auth.ts      *)
(* write them.                                                             *)
(*                                                                         *)
(* A request is a sequence of statements, and other requests run between   *)
(* any two of them.  Only accepting an invite is a transaction: it locks   *)
(* the invite's row (FOR UPDATE), and what it writes shows at its commit.  *)
(* A user stands for the e-mail address invites are sent to.               *)
(***************************************************************************)
EXTENDS FiniteSets

CONSTANTS User,      \* users, and addresses that may become users
          Owner,     \* who created the workspace
          Invite,    \* ids of workspace_invites rows
          Request,   \* requests that may run at the same time
          NoUser, NoInvite, NoOne

ASSUME OwnerIsUser == Owner \in User
ASSUME NullsAreApart == NoUser \notin User /\ NoInvite \notin Invite /\ NoOne \notin Request

VARIABLES
  role,      \* memberships.role ("none": no row)
  hint,      \* users.current_workspace_id is this workspace
  \* workspace_invites
  to, grade, status,
  stale,     \* created_at is more than 24 hours ago
  lock,      \* the transaction that holds the row FOR UPDATE
  \* one request
  pc, who, about,
  inserts,   \* its transaction has inserted a membership
  \* history
  told       \* a revocation of the invite was answered "ok"

inviteVars == <<to, grade, status, stale>>
requestVars == <<pc, who, about, inserts>>
vars == <<role, hint, inviteVars, lock, requestVars, told>>

Pcs == {"idle", "invite", "write", "onboard", "find revoked", "revoke", "reread",
        "find resent", "resend", "find member", "set role", "find kicked", "kick",
        "unhint", "switch", "verified", "insert", "look", "commit"}

TypeOK ==
  /\ role \in [User -> {"none", "member", "admin", "owner"}]
  /\ hint \in [User -> BOOLEAN]
  /\ to \in [Invite -> User \cup {NoUser}]
  /\ grade \in [Invite -> {"member", "admin"}]
  /\ status \in [Invite -> {"none", "pending", "accepted", "revoked"}]
  /\ stale \in [Invite -> BOOLEAN]
  /\ lock \in [Invite -> Request \cup {NoOne}]
  /\ pc \in [Request -> Pcs]
  /\ who \in [Request -> User \cup {NoUser}]
  /\ about \in [Request -> Invite \cup {NoInvite}]
  /\ inserts \in [Request -> BOOLEAN]
  /\ told \in [Invite -> BOOLEAN]

Init ==
  /\ role = [u \in User |-> IF u = Owner THEN "owner" ELSE "none"]
  /\ hint = [u \in User |-> u = Owner]
  /\ to = [i \in Invite |-> NoUser]
  /\ grade = [i \in Invite |-> "member"]
  /\ status = [i \in Invite |-> "none"]
  /\ stale = [i \in Invite |-> FALSE]
  /\ lock = [i \in Invite |-> NoOne]
  /\ pc = [r \in Request |-> "idle"]
  /\ who = [r \in Request |-> NoUser]
  /\ about = [r \in Request |-> NoInvite]
  /\ inserts = [r \in Request |-> FALSE]
  /\ told = [i \in Invite |-> FALSE]

(***************************************************************************)
(* Requests                                                                *)
(***************************************************************************)
\* requireRole(['owner', 'admin']): the role is read once, when the request starts.
MayManage(a) == role[a] \in {"owner", "admin"}

Open(r, p, u, i) ==
  /\ pc[r] = "idle"
  /\ pc' = [pc EXCEPT ![r] = p]
  /\ who' = [who EXCEPT ![r] = u]
  /\ about' = [about EXCEPT ![r] = i]
  /\ UNCHANGED inserts

GoTo(r, p) ==
  /\ pc' = [pc EXCEPT ![r] = p]
  /\ UNCHANGED <<who, about, inserts>>

Close(r) ==
  /\ pc' = [pc EXCEPT ![r] = "idle"]
  /\ who' = [who EXCEPT ![r] = NoUser]
  /\ about' = [about EXCEPT ![r] = NoInvite]
  /\ inserts' = [inserts EXCEPT ![r] = FALSE]

\* A statement that writes an invite's row waits for the transaction that holds it.
Free(i) == lock[i] = NoOne

(***************************************************************************)
(* Inviting                                                                *)
(***************************************************************************)
\* POST /:id/invites, one address of the batch; the inviter's own is skipped.
AskInvite(r) == \E a, u \in User :
  /\ MayManage(a) /\ a # u
  /\ Open(r, "invite", u, NoInvite)
  /\ UNCHANGED <<role, hint, inviteVars, lock, told>>

\* The already-member filter.
CheckMember(r) ==
  /\ pc[r] = "invite"
  /\ IF role[who[r]] = "none" THEN GoTo(r, "write") ELSE Close(r)
  /\ UNCHANGED <<role, hint, inviteVars, lock, told>>

Pending(u) == {i \in Invite : to[i] = u /\ status[i] = "pending"}

\* The upsert on the partial unique index: a pending row is renewed (and gets the
\* role that setsRole allows), or there is a new one.
Upsert(u, g, setsRole) ==
  /\ \A i \in Pending(u) : Free(i)
  /\ \/ \E i \in Pending(u) :
          /\ grade' = IF setsRole THEN [grade EXCEPT ![i] = g] ELSE grade
          /\ stale' = [stale EXCEPT ![i] = FALSE]
          /\ UNCHANGED <<to, status>>
     \/ \E i \in Invite :
          /\ Pending(u) = {} /\ status[i] = "none"
          /\ to' = [to EXCEPT ![i] = u]
          /\ grade' = [grade EXCEPT ![i] = g]
          /\ status' = [status EXCEPT ![i] = "pending"]
          /\ stale' = [stale EXCEPT ![i] = FALSE]
     \/ /\ Pending(u) = {} /\ \A i \in Invite : status[i] # "none"  \* bound: out of ids
        /\ UNCHANGED inviteVars

\* mutant: the role of the body is taken as it is.
WriteAnyRole(r) ==
  /\ pc[r] = "write"
  /\ \E g \in {"member", "admin", "owner"} : Upsert(who[r], g, TRUE)
  /\ Close(r)
  /\ UNCHANGED <<role, hint, lock, told>>

WriteInvite(r) ==
  /\ pc[r] = "write"
  /\ \E g \in {"member", "admin"} : Upsert(who[r], g, TRUE)
  /\ Close(r)
  /\ UNCHANGED <<role, hint, lock, told>>

\* The owner's onboarding form invites whoever it names, members too, as members.
AskOnboarding(r) == \E u \in User :
  /\ Open(r, "onboard", u, NoInvite)
  /\ UNCHANGED <<role, hint, inviteVars, lock, told>>

WriteOnboarding(r) ==
  /\ pc[r] = "onboard"
  /\ Upsert(who[r], "member", FALSE)
  /\ Close(r)
  /\ UNCHANGED <<role, hint, lock, told>>

\* The lifetime of an invite ends.
Expire(i) ==
  /\ status[i] = "pending" /\ ~stale[i]
  /\ stale' = [stale EXCEPT ![i] = TRUE]
  /\ UNCHANGED <<role, hint, to, grade, status, lock, requestVars, told>>

\* POST /:id/invites/:inviteId/resend: mail the link again, then renew the row.
AskResend(r) == \E a \in User, i \in Invite :
  /\ MayManage(a)
  /\ Open(r, "find resent", NoUser, i)
  /\ UNCHANGED <<role, hint, inviteVars, lock, told>>

FindResent(r) ==
  /\ pc[r] = "find resent"
  /\ IF status[about[r]] = "pending" THEN GoTo(r, "resend") ELSE Close(r)
  /\ UNCHANGED <<role, hint, inviteVars, lock, told>>

TouchInvite(r) ==
  /\ pc[r] = "resend" /\ Free(about[r])
  /\ stale' = [stale EXCEPT ![about[r]] = FALSE]
  /\ Close(r)
  /\ UNCHANGED <<role, hint, to, grade, status, lock, told>>

(***************************************************************************)
(* Revoking: look, update if still pending, look again.                    *)
(***************************************************************************)
AskRevoke(r) == \E a \in User, i \in Invite :
  /\ MayManage(a)
  /\ Open(r, "find revoked", NoUser, i)
  /\ UNCHANGED <<role, hint, inviteVars, lock, told>>

AnswerRevoked(r) ==
  /\ told' = [told EXCEPT ![about[r]] = TRUE]
  /\ Close(r)

FindRevoked(r) ==
  /\ pc[r] = "find revoked"
  /\ \/ status[about[r]] = "pending" /\ GoTo(r, "revoke") /\ UNCHANGED told
     \/ status[about[r]] \in {"none", "accepted"} /\ Close(r) /\ UNCHANGED told
     \/ status[about[r]] = "revoked" /\ AnswerRevoked(r)
  /\ UNCHANGED <<role, hint, inviteVars, lock>>

\* mutant: the update without its WHERE status = 'pending'.
RevokeAnyInvite(r) ==
  /\ pc[r] = "revoke" /\ Free(about[r])
  /\ status' = [status EXCEPT ![about[r]] = "revoked"]
  /\ GoTo(r, "reread")
  /\ UNCHANGED <<role, hint, to, grade, stale, lock, told>>

RevokeInvite(r) ==
  /\ pc[r] = "revoke"
  /\ Free(about[r]) \/ status[about[r]] # "pending"
  /\ status' = IF status[about[r]] = "pending" THEN [status EXCEPT ![about[r]] = "revoked"] ELSE status
  /\ GoTo(r, "reread")
  /\ UNCHANGED <<role, hint, to, grade, stale, lock, told>>

\* mutant: "ok" without a second look.
AnswerAtOnce(r) ==
  /\ pc[r] = "reread"
  /\ AnswerRevoked(r)
  /\ UNCHANGED <<role, hint, inviteVars, lock>>

RereadInvite(r) ==
  /\ pc[r] = "reread"
  /\ IF status[about[r]] = "accepted" THEN Close(r) /\ UNCHANGED told ELSE AnswerRevoked(r)
  /\ UNCHANGED <<role, hint, inviteVars, lock>>

(***************************************************************************)
(* Managing members                                                        *)
(***************************************************************************)
\* PATCH and DELETE /:id/members/:userId of another user.
AskRole(r) == \E a, u \in User :
  /\ MayManage(a) /\ a # u
  /\ Open(r, "find member", u, NoInvite)
  /\ UNCHANGED <<role, hint, inviteVars, lock, told>>

AskKick(r) == \E a, u \in User :
  /\ MayManage(a) /\ a # u
  /\ Open(r, "find kicked", u, NoInvite)
  /\ UNCHANGED <<role, hint, inviteVars, lock, told>>

\* mutant: the owner can be managed.
ManageableMember(u) == role[u] # "none"

\* Neither a stranger nor the owner can be managed.
Manageable(u) == role[u] \notin {"none", "owner"}

FindMember(r) ==
  /\ \/ pc[r] = "find member" /\ Manageable(who[r]) /\ GoTo(r, "set role")
     \/ pc[r] = "find kicked" /\ Manageable(who[r]) /\ GoTo(r, "kick")
     \/ pc[r] \in {"find member", "find kicked"} /\ ~Manageable(who[r]) /\ Close(r)
  /\ UNCHANGED <<role, hint, inviteVars, lock, told>>

SetRole(r) ==
  /\ pc[r] = "set role"
  /\ \E g \in {"member", "admin"} :
       role' = IF role[who[r]] = "none" THEN role ELSE [role EXCEPT ![who[r]] = g]
  /\ Close(r)
  /\ UNCHANGED <<hint, inviteVars, lock, told>>

DeleteMembership(r) ==
  /\ pc[r] = "kick"
  /\ role' = [role EXCEPT ![who[r]] = "none"]
  /\ GoTo(r, "unhint")
  /\ UNCHANGED <<hint, inviteVars, lock, told>>

ClearHint(r) ==
  /\ pc[r] = "unhint"
  /\ hint' = [hint EXCEPT ![who[r]] = FALSE]
  /\ Close(r)
  /\ UNCHANGED <<role, inviteVars, lock, told>>

\* A member makes the workspace the current one: the membership is checked first.
AskSwitch(r) == \E u \in User :
  /\ role[u] # "none"
  /\ Open(r, "switch", u, NoInvite)
  /\ UNCHANGED <<role, hint, inviteVars, lock, told>>

SetHint(r) ==
  /\ pc[r] = "switch"
  /\ hint' = [hint EXCEPT ![who[r]] = TRUE]
  /\ Close(r)
  /\ UNCHANGED <<role, inviteVars, lock, told>>

\* The user turns to another workspace, or the hint is healed to one.
SwitchAway(u) ==
  /\ hint[u]
  /\ hint' = [hint EXCEPT ![u] = FALSE]
  /\ UNCHANGED <<role, inviteVars, lock, requestVars, told>>

(***************************************************************************)
(* Accepting an invite                                                     *)
(***************************************************************************)
\* Signing in by an invite's link: the invite is read before the transaction.
AskVerify(r) == \E i \in Invite :
  /\ status[i] = "pending" /\ ~stale[i]
  /\ Open(r, "verified", to[i], i)
  /\ UNCHANGED <<role, hint, inviteVars, lock, told>>

Lock(r, i) == lock' = [lock EXCEPT ![i] = r]
Unlock(r) == lock' = [lock EXCEPT ![about[r]] = NoOne]

\* mutant: the first read is trusted.
LockWithoutLooking(r) ==
  /\ pc[r] = "verified" /\ Free(about[r])
  /\ Lock(r, about[r]) /\ GoTo(r, "insert")
  /\ UNCHANGED <<role, hint, inviteVars, told>>

\* mutant: a revoked invite is taken for one that a parallel request spent.
LockSpent(r) ==
  /\ pc[r] = "verified" /\ Free(about[r])
  /\ LET i == about[r] IN
     \/ /\ status[i] = "pending"
        /\ Lock(r, i) /\ GoTo(r, "insert") /\ UNCHANGED hint
     \/ /\ status[i] # "pending"
        /\ hint' = [hint EXCEPT ![to[i]] = TRUE]
        /\ Close(r) /\ UNCHANGED lock
  /\ UNCHANGED <<role, inviteVars, told>>

\* It is read again under the lock.
LockVerified(r) ==
  /\ pc[r] = "verified" /\ Free(about[r])
  /\ LET i == about[r] IN
     \/ /\ status[i] = "pending" /\ ~stale[i]
        /\ Lock(r, i) /\ GoTo(r, "insert") /\ UNCHANGED hint
     \/ /\ status[i] = "accepted"
        /\ hint' = [hint EXCEPT ![to[i]] = TRUE]
        /\ Close(r) /\ UNCHANGED lock
     \/ /\ status[i] = "revoked" \/ (status[i] = "pending" /\ stale[i])
        /\ Close(r) /\ UNCHANGED <<hint, lock>>
  /\ UNCHANGED <<role, inviteVars, told>>

\* INSERT INTO memberships ... ON CONFLICT DO NOTHING.
InsertMembership(r) ==
  /\ pc[r] = "insert"
  /\ inserts' = [inserts EXCEPT ![r] = role[who[r]] = "none"]
  /\ pc' = [pc EXCEPT ![r] = "commit"]
  /\ UNCHANGED <<role, hint, inviteVars, lock, who, about, told>>

\* POST /invites/:inviteId/accept of a user with a session.
LockInvite(r) == \E i \in Invite :
  /\ status[i] # "none" /\ Free(i)
  /\ Open(r, "look", to[i], i)
  /\ Lock(r, i)
  /\ UNCHANGED <<role, hint, inviteVars, told>>

\* A member passes whatever the invite's state; anyone else needs a good one.
LookForMember(r) ==
  /\ pc[r] = "look"
  /\ LET joined == role[who[r]] # "none"
         good == status[about[r]] = "pending" /\ ~stale[about[r]] IN
     \/ /\ joined \/ good
        /\ inserts' = [inserts EXCEPT ![r] = ~joined]
        /\ pc' = [pc EXCEPT ![r] = "commit"]
        /\ UNCHANGED <<who, about, lock>>
     \/ /\ ~joined /\ ~good
        /\ Unlock(r) /\ Close(r)
  /\ UNCHANGED <<role, hint, inviteVars, told>>

Commit(r) ==
  /\ pc[r] = "commit"
  /\ role' = IF inserts[r] THEN [role EXCEPT ![who[r]] = grade[about[r]]] ELSE role
  /\ status' = IF status[about[r]] = "pending"
               THEN [status EXCEPT ![about[r]] = "accepted"] ELSE status
  /\ hint' = [hint EXCEPT ![who[r]] = TRUE]
  /\ Unlock(r) /\ Close(r)
  /\ UNCHANGED <<to, grade, stale, told>>

Inviting(r) == AskInvite(r) \/ CheckMember(r) \/ WriteInvite(r) \/ AskOnboarding(r)
               \/ WriteOnboarding(r) \/ AskResend(r) \/ FindResent(r) \/ TouchInvite(r)
Revoking(r) == AskRevoke(r) \/ FindRevoked(r) \/ RevokeInvite(r) \/ RereadInvite(r)
Managing(r) == AskRole(r) \/ AskKick(r) \/ FindMember(r) \/ SetRole(r)
               \/ DeleteMembership(r) \/ ClearHint(r) \/ AskSwitch(r) \/ SetHint(r)
Accepting(r) == AskVerify(r) \/ LockVerified(r) \/ InsertMembership(r) \/ LockInvite(r)
                \/ LookForMember(r) \/ Commit(r)

Next ==
  \/ \E r \in Request : Inviting(r) \/ Revoking(r) \/ Managing(r) \/ Accepting(r)
  \/ \E i \in Invite : Expire(i)
  \/ \E u \in User : SwitchAway(u)

Spec == Init /\ [][Next]_vars

(***************************************************************************)
(* Properties                                                              *)
(***************************************************************************)
\* The workspace has its owner and no other, whatever managers do to each other:
\* members.ts checks the role of its target, and writes later without a condition.
OneOwner == \A u \in User : role[u] = "owner" <=> u = Owner

\* Whoever joins spends a pending invite of their own, and gets the role it has
\* at that moment: no join by an invite that was revoked, spent or given another
\* role while the request was on its way (the two accept paths).
Joins(u) == role[u] = "none" /\ role'[u] # "none"
Spends(u, i) == /\ to[i] = u /\ role'[u] = grade[i]
                /\ status[i] = "pending" /\ status'[i] = "accepted"
JoinsSpendInvites == [][\A u \in User : Joins(u) => \E i \in Invite : Spends(u, i)]_vars

\* An invite is spent or revoked once: a revocation that loses against an accept
\* does not undo it, nor the other way round (revokeInvite, accept.ts, auth.ts).
EndsStayEnded ==
  [][\A i \in Invite : status[i] \in {"accepted", "revoked"} => status'[i] = status[i]]_vars

\* A manager who was told that an invite is revoked can rely on it: nobody has
\* joined by it, and nobody will (the second read of the revoke handler).
RevokedIsRevoked == \A i \in Invite : told[i] => status[i] = "revoked"

\* current_workspace_id points only to a workspace that let the user in once: the
\* owner's, or one of which they have spent an invite.
HintWasEarned ==
  \A u \in User : hint[u] => u = Owner \/ \E i \in Invite : to[i] = u /\ status[i] = "accepted"

===============================================================================
