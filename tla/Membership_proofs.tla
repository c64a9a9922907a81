-------------------------- MODULE Membership_proofs --------------------------
(***************************************************************************)
(* Proofs for Membership, for any number of users, invites and concurrent  *)
(* requests.  The inductive invariant Inv says what each request may rely  *)
(* on between its statements (RequestInv).  An action changes one request, *)
(* and disturbs the others only through the rows: Grows says in which      *)
(* direction rows change, and RowKept that a locked row waits.             *)
(***************************************************************************)
EXTENDS Membership, TLAPS

OnUser == {"invite", "write", "onboard", "find member", "set role", "find kicked", "kick",
           "unhint", "switch", "verified", "insert", "look", "commit"}
OnInvite == {"find revoked", "revoke", "reread", "find resent", "resend",
             "verified", "insert", "look", "commit"}
Accepts == {"verified", "insert", "look", "commit"}
Holds == {"insert", "look", "commit"}

Earned(u) == u = Owner \/ \E i \in Invite : to[i] = u /\ status[i] = "accepted"

RequestInv(r) ==
  /\ pc[r] \in OnUser => who[r] \in User
  /\ pc[r] \in OnInvite => about[r] \in Invite
  /\ pc[r] \in Accepts \cup {"revoke"} => status[about[r]] # "none"
  /\ pc[r] = "reread" => status[about[r]] \in {"accepted", "revoked"}
  /\ pc[r] \in {"set role", "kick"} => who[r] # Owner
  /\ pc[r] = "switch" => Earned(who[r])
  /\ pc[r] \in Accepts => to[about[r]] = who[r]
  /\ pc[r] \in Holds => lock[about[r]] = r
  /\ pc[r] = "insert" => status[about[r]] = "pending"
  /\ pc[r] = "commit" => status[about[r]] = "pending" \/ Earned(who[r])
  /\ inserts[r] => pc[r] = "commit" /\ status[about[r]] = "pending" /\ who[r] # Owner

Addressed == \A i \in Invite : status[i] # "none" => to[i] \in User
MembersEarned == \A u \in User : role[u] # "none" => Earned(u)

Inv ==
  /\ TypeOK
  /\ Addressed
  /\ OneOwner
  /\ MembersEarned
  /\ HintWasEarned
  /\ RevokedIsRevoked
  /\ \A r \in Request : RequestInv(r)

(***************************************************************************)
(* How rows change                                                         *)
(***************************************************************************)
\* A written invite keeps its address, and one that has ended stays so.
Grows == \A i \in Invite :
  /\ status[i] # "none" => status'[i] # "none" /\ to'[i] = to[i]
  /\ status[i] \in {"accepted", "revoked"} => status'[i] = status[i]

\* Request r is not the one that acts, and the row it holds is left alone.
Same(r) == /\ pc'[r] = pc[r] /\ who'[r] = who[r]
           /\ about'[r] = about[r] /\ inserts'[r] = inserts[r]
RowKept(r) == \A i \in Invite : lock[i] = r =>
  lock'[i] = r /\ (status[i] = "pending" => status'[i] = "pending")

LEMMA EarnedStays ==
  ASSUME Grows, NEW u \in User, Earned(u) PROVE Earned(u)'
<1>1. CASE u = Owner
  BY <1>1 DEF Earned
<1>2. CASE \E i \in Invite : to[i] = u /\ status[i] = "accepted"
  <2>1. PICK i \in Invite : to[i] = u /\ status[i] = "accepted"
    BY <1>2
  <2>2. to'[i] = u /\ status'[i] = "accepted"
    BY <2>1 DEF Grows
  <2> QED BY <2>2 DEF Earned
<1> QED BY <1>1, <1>2 DEF Earned

LEMMA OthersStay ==
  ASSUME Grows, NEW r \in Request, RequestInv(r), Same(r), RowKept(r)
  PROVE  RequestInv(r)'
<1>1. ASSUME who[r] \in User, Earned(who[r]) PROVE Earned(who[r])'
  <2>1. PICK u \in User : u = who[r] /\ u = who'[r] /\ Earned(u)
    BY <1>1 DEF Same
  <2>2. Earned(u)'
    BY <2>1, EarnedStays
  <2> QED BY <2>1, <2>2 DEF Earned
<1>3. inserts[r] => pc[r] = "commit"
  BY DEF RequestInv
<1> QED
  BY <1>1, <1>3 DEF RequestInv, Same, RowKept, Grows, OnUser, OnInvite, Accepts, Holds

\* What an action of request r owes, besides types, for the invariant to hold again.
RowsSound ==
  /\ \A i \in Invite : status'[i] # "none" => status[i] # "none" \/ to'[i] \in User
  /\ \A i \in Invite : told'[i] => told[i] \/ status'[i] = "revoked"
  /\ \A u \in User : role'[u] = "owner" <=> role[u] = "owner"
EntriesSound ==
  \A u \in User : (role'[u] # "none" \/ hint'[u]) =>
    role[u] # "none" \/ hint[u] \/ Earned(u) \/ \E i \in Invite : to'[i] = u /\ status'[i] = "accepted"

LEMMA Assemble ==
  ASSUME Inv, NEW r \in Request, TypeOK', Grows, RowsSound, EntriesSound, RequestInv(r)',
         \A q \in Request \ {r} : Same(q) /\ RowKept(q)
  PROVE  Inv'
<1>1. \A q \in Request : RequestInv(q)'
  <2>1. ASSUME NEW q \in Request \ {r} PROVE RequestInv(q)'
    BY <2>1, OthersStay DEF Inv
  <2> QED BY <2>1
<1>2. ASSUME NEW u \in User, role'[u] # "none" \/ hint'[u] PROVE Earned(u)'
  <2>1. Earned(u) => Earned(u)'
    BY EarnedStays
  <2>2. role[u] # "none" \/ hint[u] => Earned(u)
    BY DEF Inv, MembersEarned, HintWasEarned, Earned
  <2>3. (\E i \in Invite : to'[i] = u /\ status'[i] = "accepted") => Earned(u)'
    BY DEF Earned
  <2> QED BY <1>2, <2>1, <2>2, <2>3 DEF EntriesSound
<1>3. MembersEarned'
  BY <1>2 DEF MembersEarned
<1>4. HintWasEarned'
  BY <1>2 DEF HintWasEarned, Earned
<1>5. Addressed' /\ RevokedIsRevoked' /\ OneOwner'
  BY DEF Inv, Addressed, RevokedIsRevoked, OneOwner, RowsSound, Grows
<1> QED BY <1>1, <1>3, <1>4, <1>5 DEF Inv

\* Most statements only read rows.
RowsAlone == UNCHANGED <<role, hint, inviteVars, lock, told>>

LEMMA ReadsOnly ==
  ASSUME Inv, NEW r \in Request, RowsAlone, TypeOK', RequestInv(r)',
         \A q \in Request \ {r} : Same(q)
  PROVE  Inv'
<1>1. Grows /\ RowsSound /\ EntriesSound
  BY DEF RowsAlone, inviteVars, Grows, RowsSound, EntriesSound
<1>2. \A q \in Request \ {r} : Same(q) /\ RowKept(q)
  BY DEF RowsAlone, inviteVars, RowKept
<1> QED BY <1>1, <1>2, Assemble

(***************************************************************************)
(* The steps of a request                                                  *)
(***************************************************************************)
RequestTypes ==
  /\ pc \in [Request -> Pcs]
  /\ who \in [Request -> User \cup {NoUser}]
  /\ about \in [Request -> Invite \cup {NoInvite}]
  /\ inserts \in [Request -> BOOLEAN]

\* A request opens, goes on or closes alone.
LEMMA OpensAlone ==
  ASSUME TypeOK, NEW r \in Request, NEW p \in Pcs, NEW u \in User \cup {NoUser},
         NEW i \in Invite \cup {NoInvite}, Open(r, p, u, i)
  PROVE  /\ RequestTypes'
         /\ \A q \in Request \ {r} : Same(q)
         /\ pc[r] = "idle" /\ pc'[r] = p /\ who'[r] = u /\ about'[r] = i /\ inserts'[r] = inserts[r]
BY DEF TypeOK, RequestTypes, Open, Same

LEMMA GoesAlone ==
  ASSUME TypeOK, NEW r \in Request, NEW p \in Pcs, GoTo(r, p)
  PROVE  /\ RequestTypes'
         /\ \A q \in Request \ {r} : Same(q)
         /\ pc'[r] = p /\ who'[r] = who[r] /\ about'[r] = about[r] /\ inserts'[r] = inserts[r]
BY DEF TypeOK, RequestTypes, GoTo, Same

LEMMA ClosesAlone ==
  ASSUME TypeOK, NEW r \in Request, Close(r)
  PROVE  /\ RequestTypes'
         /\ \A q \in Request \ {r} : Same(q)
         /\ RequestInv(r)'
<1>1. RequestTypes' /\ \A q \in Request \ {r} : Same(q)
  BY DEF TypeOK, RequestTypes, Close, Same, Pcs
<1>2. pc'[r] = "idle" /\ inserts'[r] = FALSE
  BY DEF TypeOK, Close
<1>3. RequestInv(r)'
  BY <1>2 DEF RequestInv, OnUser, OnInvite, Accepts, Holds
<1> QED BY <1>1, <1>3

LEMMA ReadTypes ==
  ASSUME TypeOK, RowsAlone, RequestTypes' PROVE TypeOK'
BY DEF TypeOK, RowsAlone, inviteVars, RequestTypes

\* Closing without a change.
LEMMA GivesUp ==
  ASSUME Inv, NEW r \in Request, RowsAlone, Close(r) PROVE Inv'
BY ClosesAlone, ReadTypes, ReadsOnly DEF Inv

\* Opening a request that needs nothing but its user or its invite.
LEMMA OpenKeeps ==
  ASSUME Inv, NEW r \in Request, RowsAlone,
         NEW p \in {"invite", "onboard", "find member", "find kicked", "find revoked", "find resent"},
         NEW u \in User \cup {NoUser}, NEW i \in Invite \cup {NoInvite}, Open(r, p, u, i),
         p \in OnUser => u \in User, p \in OnInvite => i \in Invite
  PROVE  Inv'
<1>1. p \in Pcs
  BY DEF Pcs
<1>2. /\ RequestTypes' /\ \A q \in Request \ {r} : Same(q)
      /\ pc[r] = "idle" /\ pc'[r] = p /\ who'[r] = u /\ about'[r] = i /\ inserts'[r] = inserts[r]
  BY <1>1, OpensAlone DEF Inv
<1>3. RequestInv(r)'
  BY <1>2 DEF Inv, RequestInv, Accepts, Holds
<1> QED BY <1>2, <1>3, ReadTypes, ReadsOnly DEF Inv

\* Going on to a statement that needs nothing new.
LEMMA GoKeeps ==
  ASSUME Inv, NEW r \in Request, RowsAlone, NEW p \in {"write", "resend"}, GoTo(r, p),
         p = "write" => pc[r] = "invite", p = "resend" => pc[r] = "find resent"
  PROVE  Inv'
<1>1. p \in Pcs
  BY DEF Pcs
<1>2. /\ RequestTypes' /\ \A q \in Request \ {r} : Same(q)
      /\ pc'[r] = p /\ who'[r] = who[r] /\ about'[r] = about[r] /\ inserts'[r] = inserts[r]
  BY <1>1, GoesAlone DEF Inv
<1>3. RequestInv(r)'
  BY <1>2 DEF Inv, RequestInv, OnUser, OnInvite, Accepts, Holds
<1> QED BY <1>2, <1>3, ReadTypes, ReadsOnly DEF Inv

LEMMA InvitingReads ==
  ASSUME Inv, NEW r \in Request,
         AskInvite(r) \/ CheckMember(r) \/ AskOnboarding(r) \/ AskResend(r) \/ FindResent(r)
  PROVE  Inv'
<1>1. CASE AskInvite(r)
  BY <1>1, OpenKeeps DEF AskInvite, RowsAlone, OnInvite
<1>2. CASE CheckMember(r)
  BY <1>2, GoKeeps, GivesUp DEF CheckMember, RowsAlone
<1>3. CASE AskOnboarding(r)
  BY <1>3, OpenKeeps DEF AskOnboarding, RowsAlone, OnInvite
<1>4. CASE AskResend(r)
  BY <1>4, OpenKeeps DEF AskResend, RowsAlone, OnUser
<1>5. CASE FindResent(r)
  BY <1>5, GoKeeps, GivesUp DEF FindResent, RowsAlone
<1> QED BY <1>1, <1>2, <1>3, <1>4, <1>5

InviteTypes ==
  /\ to \in [Invite -> User \cup {NoUser}]
  /\ grade \in [Invite -> {"member", "admin"}]
  /\ status \in [Invite -> {"none", "pending", "accepted", "revoked"}]
  /\ stale \in [Invite -> BOOLEAN]

LEMMA UpsertRows ==
  ASSUME Inv, NEW u \in User, NEW g \in {"member", "admin"}, NEW b \in BOOLEAN,
         Upsert(u, g, b), UNCHANGED <<role, hint, lock, told>>
  PROVE  InviteTypes' /\ Grows /\ RowsSound /\ EntriesSound /\ \A q \in Request : RowKept(q)
<1>1. InviteTypes
  BY DEF Inv, TypeOK, InviteTypes
<1>2. CASE \E i \in Pending(u) : /\ grade' = IF b THEN [grade EXCEPT ![i] = g] ELSE grade
                                 /\ stale' = [stale EXCEPT ![i] = FALSE]
                                 /\ UNCHANGED <<to, status>>
  BY <1>1, <1>2 DEF InviteTypes, Pending, Grows, RowsSound, EntriesSound, RowKept
<1>3. CASE \E i \in Invite : /\ status[i] = "none"
                             /\ to' = [to EXCEPT ![i] = u]
                             /\ grade' = [grade EXCEPT ![i] = g]
                             /\ status' = [status EXCEPT ![i] = "pending"]
                             /\ stale' = [stale EXCEPT ![i] = FALSE]
  BY <1>1, <1>3 DEF InviteTypes, Grows, RowsSound, EntriesSound, RowKept
<1>4. CASE UNCHANGED inviteVars
  BY <1>1, <1>4 DEF inviteVars, InviteTypes, Grows, RowsSound, EntriesSound, RowKept
<1> QED BY <1>2, <1>3, <1>4 DEF Upsert

LEMMA WritesKeep ==
  ASSUME Inv, NEW r \in Request, WriteInvite(r) \/ WriteOnboarding(r)
  PROVE  Inv'
<1>1. who[r] \in User
  BY DEF Inv, RequestInv, OnUser, WriteInvite, WriteOnboarding
<1>2. PICK g \in {"member", "admin"}, b \in BOOLEAN : Upsert(who[r], g, b)
  BY DEF WriteInvite, WriteOnboarding
<1>3. Close(r) /\ UNCHANGED <<role, hint, lock, told>>
  BY DEF WriteInvite, WriteOnboarding
<1>4. InviteTypes' /\ Grows /\ RowsSound /\ EntriesSound /\ \A q \in Request : RowKept(q)
  BY <1>1, <1>2, <1>3, UpsertRows
<1>5. RequestTypes' /\ RequestInv(r)' /\ \A q \in Request \ {r} : Same(q)
  BY <1>3, ClosesAlone DEF Inv
<1>6. TypeOK'
  BY <1>3, <1>4, <1>5 DEF Inv, TypeOK, InviteTypes, RequestTypes
<1> QED BY <1>4, <1>5, <1>6, Assemble

LEMMA TouchKeeps ==
  ASSUME Inv, NEW r \in Request, TouchInvite(r)
  PROVE  Inv'
<1>1. RequestTypes' /\ RequestInv(r)' /\ \A q \in Request \ {r} : Same(q)
  BY ClosesAlone DEF Inv, TouchInvite
<1>2. TypeOK'
  BY <1>1 DEF Inv, TypeOK, RequestTypes, TouchInvite
<1>3. Grows /\ RowsSound /\ EntriesSound /\ \A q \in Request \ {r} : RowKept(q)
  BY DEF TouchInvite, Grows, RowsSound, EntriesSound, RowKept
<1> QED BY <1>1, <1>2, <1>3, Assemble

(***************************************************************************)
(* Revoking                                                                *)
(***************************************************************************)
LEMMA RevokingKeeps ==
  ASSUME Inv, NEW r \in Request, Revoking(r)
  PROVE  Inv'
<1>1. CASE AskRevoke(r)
  BY <1>1, OpenKeeps DEF AskRevoke, RowsAlone, OnUser
<1>2. ASSUME AnswerRevoked(r), UNCHANGED <<role, hint, inviteVars, lock>>,
             about[r] \in Invite, status[about[r]] = "revoked"
      PROVE  Inv'
  <2>1. RequestTypes' /\ RequestInv(r)' /\ \A q \in Request \ {r} : Same(q)
    BY <1>2, ClosesAlone DEF Inv, AnswerRevoked
  <2>2. TypeOK'
    BY <1>2, <2>1 DEF Inv, TypeOK, RequestTypes, inviteVars, AnswerRevoked
  <2>3. Grows /\ RowsSound /\ EntriesSound /\ \A q \in Request \ {r} : RowKept(q)
    BY <1>2 DEF Inv, TypeOK, AnswerRevoked, inviteVars, Grows, RowsSound, EntriesSound, RowKept
  <2> QED BY <2>1, <2>2, <2>3, Assemble
<1>3. CASE FindRevoked(r)
  <2>1. about[r] \in Invite
    BY <1>3 DEF Inv, RequestInv, OnInvite, FindRevoked
  <2>2. CASE status[about[r]] = "pending"
    <3>1. GoTo(r, "revoke") /\ RowsAlone
      BY <1>3, <2>2 DEF FindRevoked, RowsAlone
    <3>2. /\ RequestTypes' /\ \A q \in Request \ {r} : Same(q)
          /\ pc'[r] = "revoke" /\ about'[r] = about[r] /\ inserts'[r] = inserts[r]
      BY <3>1, GoesAlone DEF Inv, Pcs
    <3>3. RequestInv(r)'
      BY <1>3, <2>1, <2>2, <3>1, <3>2
      DEF Inv, RequestInv, RowsAlone, inviteVars, FindRevoked, OnUser, OnInvite, Accepts, Holds
    <3> QED BY <3>1, <3>2, <3>3, ReadTypes, ReadsOnly DEF Inv
  <2>3. CASE status[about[r]] \in {"none", "accepted"}
    BY <1>3, <2>3, GivesUp DEF FindRevoked, RowsAlone
  <2>4. CASE status[about[r]] = "revoked"
    BY <1>2, <1>3, <2>1, <2>4 DEF FindRevoked
  <2> QED BY <1>3, <2>2, <2>3, <2>4 DEF FindRevoked
<1>4. CASE RevokeInvite(r)
  <2>1. about[r] \in Invite /\ status[about[r]] # "none"
    BY <1>4 DEF Inv, RequestInv, OnInvite, RevokeInvite
  <2>2. /\ RequestTypes' /\ \A q \in Request \ {r} : Same(q)
        /\ pc'[r] = "reread" /\ about'[r] = about[r] /\ inserts'[r] = inserts[r]
    BY <1>4, GoesAlone DEF Inv, Pcs, RevokeInvite
  <2>3. TypeOK'
    BY <1>4, <2>1, <2>2 DEF Inv, TypeOK, RequestTypes, RevokeInvite
  <2>4. Grows /\ RowsSound /\ EntriesSound /\ \A q \in Request \ {r} : RowKept(q)
    <3>1. Grows /\ RowsSound /\ EntriesSound
      BY <1>4, <2>1 DEF Inv, TypeOK, RevokeInvite, Grows, RowsSound, EntriesSound
    <3>2. ASSUME NEW q \in Request, NEW i \in Invite, lock[i] = q, status[i] = "pending"
          PROVE  lock'[i] = q /\ status'[i] = "pending"
      <4>1. ~Free(i)
        BY <3>2, NullsAreApart DEF Free
      <4> QED BY <1>4, <3>2, <4>1 DEF Inv, TypeOK, RevokeInvite
    <3> QED BY <1>4, <3>1, <3>2 DEF RevokeInvite, RowKept
  <2>5. status'[about[r]] \in {"accepted", "revoked"}
    BY <1>4, <2>1 DEF Inv, TypeOK, RevokeInvite
  <2>6. RequestInv(r)'
    BY <1>4, <2>1, <2>2, <2>5 DEF Inv, RequestInv, RevokeInvite, OnUser, OnInvite, Accepts, Holds
  <2> QED BY <2>2, <2>3, <2>4, <2>6, Assemble
<1>5. CASE RereadInvite(r)
  <2>1. about[r] \in Invite /\ status[about[r]] \in {"accepted", "revoked"}
    BY <1>5 DEF Inv, RequestInv, OnInvite, RereadInvite
  <2>2. CASE status[about[r]] = "accepted"
    BY <1>5, <2>2, GivesUp DEF RereadInvite, RowsAlone
  <2>3. CASE status[about[r]] = "revoked"
    BY <1>2, <1>5, <2>1, <2>3 DEF RereadInvite
  <2> QED BY <2>1, <2>2, <2>3
<1> QED BY <1>1, <1>3, <1>4, <1>5 DEF Revoking

(***************************************************************************)
(* Managing members                                                        *)
(***************************************************************************)
LEMMA FindMemberKeeps ==
  ASSUME Inv, NEW r \in Request, FindMember(r)
  PROVE  Inv'
<1>1. RowsAlone /\ who[r] \in User
  BY DEF Inv, RequestInv, OnUser, FindMember, RowsAlone
<1>2. CASE Close(r)
  BY <1>1, <1>2, GivesUp
<1>3. ASSUME NEW p \in {"set role", "kick"}, GoTo(r, p), Manageable(who[r]),
             pc[r] \in {"find member", "find kicked"}
      PROVE  Inv'
  <2>1. /\ RequestTypes' /\ \A q \in Request \ {r} : Same(q)
        /\ pc'[r] = p /\ who'[r] = who[r] /\ inserts'[r] = inserts[r]
    BY <1>3, GoesAlone DEF Inv, Pcs
  <2>2. who[r] # Owner
    BY <1>1, <1>3 DEF Inv, OneOwner, Manageable
  <2>3. RequestInv(r)'
    BY <1>1, <1>3, <2>1, <2>2 DEF Inv, RequestInv, OnUser, OnInvite, Accepts, Holds
  <2> QED BY <1>1, <2>1, <2>3, ReadTypes, ReadsOnly DEF Inv
<1> QED BY <1>2, <1>3 DEF FindMember

\* The statements that write a membership or a hint leave the invites alone.
LEMMA InvitesAlone ==
  ASSUME UNCHANGED <<inviteVars, lock, told>>
  PROVE  /\ Grows /\ \A q \in Request : RowKept(q)
         /\ \A i \in Invite : status'[i] # "none" => status[i] # "none"
         /\ \A i \in Invite : told'[i] => told[i]
BY DEF inviteVars, Grows, RowKept

LEMMA ManagingKeeps ==
  ASSUME Inv, NEW r \in Request, Managing(r)
  PROVE  Inv'
<1>1. CASE AskRole(r)
  BY <1>1, OpenKeeps DEF AskRole, RowsAlone, OnInvite
<1>2. CASE AskKick(r)
  BY <1>2, OpenKeeps DEF AskKick, RowsAlone, OnInvite
<1>3. CASE FindMember(r)
  BY <1>3, FindMemberKeeps
<1>4. CASE SetRole(r)
  <2>1. RequestTypes' /\ RequestInv(r)' /\ \A q \in Request \ {r} : Same(q)
    BY <1>4, ClosesAlone DEF Inv, SetRole
  <2>2. who[r] \in User /\ who[r] # Owner
    BY <1>4 DEF Inv, RequestInv, OnUser, SetRole
  <2>3. TypeOK'
    BY <1>4, <2>1, <2>2 DEF Inv, TypeOK, RequestTypes, SetRole, inviteVars
  <2>4. RowsSound /\ EntriesSound
    BY <1>4, <2>2, InvitesAlone DEF Inv, TypeOK, OneOwner, SetRole, RowsSound, EntriesSound
  <2> QED BY <1>4, <2>1, <2>3, <2>4, InvitesAlone, Assemble DEF SetRole
<1>5. CASE DeleteMembership(r)
  <2>1. who[r] \in User /\ who[r] # Owner
    BY <1>5 DEF Inv, RequestInv, OnUser, DeleteMembership
  <2>2. /\ RequestTypes' /\ \A q \in Request \ {r} : Same(q)
        /\ pc'[r] = "unhint" /\ who'[r] = who[r] /\ inserts'[r] = inserts[r]
    BY <1>5, GoesAlone DEF Inv, Pcs, DeleteMembership
  <2>3. RequestInv(r)'
    BY <1>5, <2>1, <2>2 DEF Inv, RequestInv, DeleteMembership, OnUser, OnInvite, Accepts, Holds
  <2>4. TypeOK'
    BY <1>5, <2>1, <2>2 DEF Inv, TypeOK, RequestTypes, DeleteMembership, inviteVars
  <2>5. RowsSound /\ EntriesSound
    BY <1>5, <2>1, InvitesAlone DEF Inv, TypeOK, OneOwner, DeleteMembership, RowsSound, EntriesSound
  <2> QED BY <1>5, <2>2, <2>3, <2>4, <2>5, InvitesAlone, Assemble DEF DeleteMembership
<1>6. CASE ClearHint(r)
  <2>1. RequestTypes' /\ RequestInv(r)' /\ \A q \in Request \ {r} : Same(q)
    BY <1>6, ClosesAlone DEF Inv, ClearHint
  <2>2. TypeOK'
    BY <1>6, <2>1 DEF Inv, TypeOK, RequestTypes, ClearHint, inviteVars
  <2>3. RowsSound /\ EntriesSound
    BY <1>6, InvitesAlone DEF Inv, TypeOK, ClearHint, RowsSound, EntriesSound
  <2> QED BY <1>6, <2>1, <2>2, <2>3, InvitesAlone, Assemble DEF ClearHint
<1>7. CASE AskSwitch(r)
  <2>1. PICK u \in User : role[u] # "none" /\ Open(r, "switch", u, NoInvite)
    BY <1>7 DEF AskSwitch
  <2>2. /\ RequestTypes' /\ \A q \in Request \ {r} : Same(q)
        /\ pc[r] = "idle" /\ pc'[r] = "switch" /\ who'[r] = u /\ inserts'[r] = inserts[r]
    BY <2>1, OpensAlone DEF Inv, Pcs
  <2>3. RowsAlone
    BY <1>7 DEF AskSwitch, RowsAlone
  <2>4. Earned(who[r])'
    BY <2>1, <2>2, <2>3 DEF Inv, MembersEarned, Earned, RowsAlone, inviteVars
  <2>5. RequestInv(r)'
    BY <2>2, <2>4 DEF Inv, RequestInv, OnUser, OnInvite, Accepts, Holds
  <2> QED BY <2>2, <2>3, <2>5, ReadTypes, ReadsOnly DEF Inv
<1>8. CASE SetHint(r)
  <2>1. RequestTypes' /\ RequestInv(r)' /\ \A q \in Request \ {r} : Same(q)
    BY <1>8, ClosesAlone DEF Inv, SetHint
  <2>2. who[r] \in User /\ Earned(who[r])
    BY <1>8 DEF Inv, RequestInv, OnUser, SetHint
  <2>3. TypeOK'
    BY <1>8, <2>1 DEF Inv, TypeOK, RequestTypes, SetHint, inviteVars
  <2>4. RowsSound /\ EntriesSound
    BY <1>8, <2>2, InvitesAlone DEF Inv, TypeOK, SetHint, RowsSound, EntriesSound
  <2> QED BY <1>8, <2>1, <2>3, <2>4, InvitesAlone, Assemble DEF SetHint
<1> QED BY <1>1, <1>2, <1>3, <1>4, <1>5, <1>6, <1>7, <1>8 DEF Managing

(***************************************************************************)
(* Accepting                                                               *)
(***************************************************************************)
\* Only a request that is about to commit has inserted.
LEMMA NothingInserted ==
  ASSUME Inv, NEW r \in Request, pc[r] # "commit"
  PROVE  inserts[r] = FALSE
<1>1. inserts[r] \in BOOLEAN
  BY DEF Inv, TypeOK
<1>2. inserts[r] => pc[r] = "commit"
  BY DEF Inv, RequestInv
<1> QED BY <1>1, <1>2

LEMMA AskVerifyKeeps ==
  ASSUME Inv, NEW r \in Request, AskVerify(r)
  PROVE  Inv'
<1>1. PICK i \in Invite : status[i] = "pending" /\ Open(r, "verified", to[i], i)
  BY DEF AskVerify
<1>2. to[i] \in User
  BY <1>1 DEF Inv, Addressed
<1>3. /\ RequestTypes' /\ (\A q \in Request \ {r} : Same(q)) /\ pc[r] = "idle"
      /\ pc'[r] = "verified" /\ who'[r] = to[i] /\ about'[r] = i /\ inserts'[r] = inserts[r]
  BY <1>1, <1>2, OpensAlone DEF Inv, Pcs
<1>4. RowsAlone
  BY DEF AskVerify, RowsAlone
<1>5. inserts'[r] = FALSE /\ status' = status /\ to' = to
  <2>1. inserts[r] = FALSE
    BY <1>3, NothingInserted
  <2>2. status' = status /\ to' = to
    BY <1>4 DEF RowsAlone, inviteVars
  <2> QED BY <1>3, <2>1, <2>2
<1>6. RequestInv(r)'
  BY <1>1, <1>2, <1>3, <1>5 DEF RequestInv, OnUser, OnInvite, Accepts, Holds
<1> QED BY <1>3, <1>4, <1>6, ReadTypes, ReadsOnly DEF Inv

\* A row that nobody holds can be locked without harm to the others.
LEMMA LockingKeeps ==
  ASSUME Inv, NEW r \in Request, NEW i \in Invite, Free(i), Lock(r, i),
         UNCHANGED <<role, hint, inviteVars, told>>, RequestTypes', RequestInv(r)',
         \A q \in Request \ {r} : Same(q)
  PROVE  Inv'
<1>1. TypeOK'
  BY DEF Inv, TypeOK, RequestTypes, Lock, inviteVars
<1>2. Grows /\ RowsSound /\ EntriesSound
  BY DEF inviteVars, Grows, RowsSound, EntriesSound
<1>3. \A q \in Request \ {r} : RowKept(q)
  BY NullsAreApart DEF Inv, TypeOK, Free, Lock, inviteVars, RowKept
<1> QED BY <1>1, <1>2, <1>3, Assemble

LEMMA LockVerifiedKeeps ==
  ASSUME Inv, NEW r \in Request, LockVerified(r)
  PROVE  Inv'
<1>1. /\ about[r] \in Invite /\ who[r] \in User /\ to[about[r]] = who[r]
      /\ ~inserts[r]
  BY DEF Inv, RequestInv, OnUser, OnInvite, Accepts, LockVerified
<1>2. CASE status[about[r]] = "pending" /\ Lock(r, about[r]) /\ GoTo(r, "insert") /\ UNCHANGED hint
  <2>1. /\ RequestTypes' /\ \A q \in Request \ {r} : Same(q)
        /\ pc'[r] = "insert" /\ who'[r] = who[r] /\ about'[r] = about[r] /\ inserts'[r] = inserts[r]
    BY <1>2, GoesAlone DEF Inv, Pcs
  <2>2. lock'[about[r]] = r
    BY <1>1, <1>2 DEF Inv, TypeOK, Lock
  <2>3. RequestInv(r)'
    BY <1>1, <1>2, <2>1, <2>2
    DEF RequestInv, LockVerified, inviteVars, OnUser, OnInvite, Accepts, Holds
  <2> QED BY <1>1, <1>2, <2>1, <2>3, LockingKeeps DEF LockVerified
<1>3. CASE status[about[r]] = "accepted" /\ hint' = [hint EXCEPT ![to[about[r]]] = TRUE] /\ Close(r) /\ UNCHANGED lock
  <2>1. RequestTypes' /\ RequestInv(r)' /\ \A q \in Request \ {r} : Same(q)
    BY <1>3, ClosesAlone DEF Inv
  <2>2. TypeOK'
    BY <1>3, <2>1 DEF Inv, TypeOK, RequestTypes, LockVerified, inviteVars
  <2>3. RowsSound /\ EntriesSound
    BY <1>1, <1>3 DEF Inv, TypeOK, LockVerified, inviteVars, RowsSound, EntriesSound, Earned
  <2> QED BY <1>3, <2>1, <2>2, <2>3, InvitesAlone, Assemble DEF LockVerified
<1>4. CASE Close(r) /\ UNCHANGED <<hint, lock>>
  BY <1>4, GivesUp DEF LockVerified, RowsAlone
<1> QED BY <1>2, <1>3, <1>4 DEF LockVerified

LEMMA InsertMembershipKeeps ==
  ASSUME Inv, NEW r \in Request, InsertMembership(r)
  PROVE  Inv'
<1>1. /\ about[r] \in Invite /\ who[r] \in User /\ to[about[r]] = who[r]
      /\ lock[about[r]] = r /\ status[about[r]] = "pending"
  BY DEF Inv, RequestInv, OnUser, OnInvite, Accepts, Holds, InsertMembership
<1>2. /\ RequestTypes' /\ (\A q \in Request \ {r} : Same(q)) /\ who'[r] = who[r] /\ about'[r] = about[r]
      /\ pc'[r] = "commit" /\ inserts'[r] = (role[who[r]] = "none")
  BY DEF Inv, TypeOK, RequestTypes, InsertMembership, Same, Pcs
<1>3. RowsAlone
  BY DEF InsertMembership, RowsAlone
<1>4. role[who[r]] = "none" => who[r] # Owner
  BY <1>1 DEF Inv, OneOwner
<1>5. status' = status /\ to' = to /\ lock' = lock
  BY <1>3 DEF RowsAlone, inviteVars
<1>6. RequestInv(r)'
  BY <1>1, <1>2, <1>4, <1>5 DEF RequestInv, OnUser, OnInvite, Accepts, Holds
<1> QED BY <1>2, <1>3, <1>6, ReadTypes, ReadsOnly DEF Inv

LEMMA LockInviteKeeps ==
  ASSUME Inv, NEW r \in Request, LockInvite(r)
  PROVE  Inv'
<1>1. PICK i \in Invite : status[i] # "none" /\ Free(i) /\ Open(r, "look", to[i], i) /\ Lock(r, i)
  BY DEF LockInvite
<1>2. to[i] \in User
  BY <1>1 DEF Inv, Addressed
<1>3. /\ RequestTypes' /\ (\A q \in Request \ {r} : Same(q)) /\ pc[r] = "idle"
      /\ pc'[r] = "look" /\ who'[r] = to[i] /\ about'[r] = i /\ inserts'[r] = inserts[r]
  BY <1>1, <1>2, OpensAlone DEF Inv, Pcs
<1>4. lock'[i] = r
  BY <1>1 DEF Inv, TypeOK, Lock
<1>5. inserts'[r] = FALSE /\ status' = status /\ to' = to
  <2>1. inserts[r] = FALSE
    BY <1>3, NothingInserted
  <2>2. status' = status /\ to' = to
    BY DEF LockInvite, inviteVars
  <2> QED BY <1>3, <2>1, <2>2
<1>6. RequestInv(r)'
  BY <1>1, <1>2, <1>3, <1>4, <1>5 DEF RequestInv, OnUser, OnInvite, Accepts, Holds
<1> QED BY <1>1, <1>3, <1>6, LockingKeeps DEF LockInvite

\* A holder that lets its row go.
LEMMA UnlockingKeepsRows ==
  ASSUME Inv, NEW r \in Request, about[r] \in Invite, lock[about[r]] = r, Unlock(r),
         \A i \in Invite : i # about[r] => status'[i] = status[i]
  PROVE  \A q \in Request \ {r} : RowKept(q)
BY DEF Inv, TypeOK, Unlock, RowKept

LEMMA LookForMemberKeeps ==
  ASSUME Inv, NEW r \in Request, LookForMember(r)
  PROVE  Inv'
<1>1. /\ about[r] \in Invite /\ who[r] \in User /\ to[about[r]] = who[r]
      /\ lock[about[r]] = r /\ status[about[r]] # "none"
  BY DEF Inv, RequestInv, OnUser, OnInvite, Accepts, Holds, LookForMember
<1>2. ASSUME Unlock(r), Close(r) PROVE Inv'
  <2>1. RequestTypes' /\ RequestInv(r)' /\ \A q \in Request \ {r} : Same(q)
    BY <1>2, ClosesAlone DEF Inv
  <2>2. TypeOK'
    BY <1>2, <2>1 DEF Inv, TypeOK, RequestTypes, LookForMember, inviteVars, Unlock
  <2>3. Grows /\ RowsSound /\ EntriesSound
    BY DEF LookForMember, inviteVars, Grows, RowsSound, EntriesSound
  <2>4. \A q \in Request \ {r} : RowKept(q)
    BY <1>1, <1>2, UnlockingKeepsRows DEF LookForMember, inviteVars
  <2> QED BY <2>1, <2>2, <2>3, <2>4, Assemble
<1>3. ASSUME inserts' = [inserts EXCEPT ![r] = role[who[r]] = "none"],
             pc' = [pc EXCEPT ![r] = "commit"], UNCHANGED <<who, about, lock>>,
             role[who[r]] # "none" \/ status[about[r]] = "pending"
      PROVE  Inv'
  <2>1. /\ RequestTypes' /\ (\A q \in Request \ {r} : Same(q)) /\ who'[r] = who[r] /\ about'[r] = about[r]
        /\ pc'[r] = "commit" /\ inserts'[r] = (role[who[r]] = "none")
    BY <1>3 DEF Inv, TypeOK, RequestTypes, Same, Pcs
  <2>2. RowsAlone
    BY <1>3 DEF LookForMember, RowsAlone
  <2>3. inserts'[r] => who[r] # Owner
    BY <1>1, <2>1 DEF Inv, OneOwner
  <2>4. status[about[r]] = "pending" \/ Earned(who[r])
    BY <1>1, <1>3 DEF Inv, MembersEarned
  <2>5. Earned(who[r]) => Earned(who[r])'
    BY <1>3, <2>2 DEF Earned, RowsAlone, inviteVars
  <2>6. RequestInv(r)'
    BY <1>1, <1>3, <2>1, <2>2, <2>3, <2>4, <2>5
    DEF RequestInv, RowsAlone, inviteVars, OnUser, OnInvite, Accepts, Holds
  <2> QED BY <2>1, <2>2, <2>6, ReadTypes, ReadsOnly DEF Inv
<1> QED BY <1>2, <1>3 DEF LookForMember

LEMMA CommitKeeps ==
  ASSUME Inv, NEW r \in Request, Commit(r)
  PROVE  Inv'
<1>1. /\ about[r] \in Invite /\ who[r] \in User /\ to[about[r]] = who[r]
      /\ lock[about[r]] = r
      /\ status[about[r]] = "pending" \/ Earned(who[r])
      /\ inserts[r] => status[about[r]] = "pending" /\ who[r] # Owner
  BY DEF Inv, RequestInv, OnUser, OnInvite, Accepts, Holds, Commit
<1>2. RequestTypes' /\ RequestInv(r)' /\ \A q \in Request \ {r} : Same(q)
  BY ClosesAlone DEF Inv, Commit
<1>3. TypeOK'
  BY <1>1, <1>2 DEF Inv, TypeOK, RequestTypes, Commit, Unlock
<1>4. Grows
  BY <1>1 DEF Inv, TypeOK, Commit, Grows
<1>5. RowsSound
  BY <1>1 DEF Inv, TypeOK, OneOwner, Commit, RowsSound
<1>6. EntriesSound
  <2>1. status[about[r]] = "pending" => to'[about[r]] = who[r] /\ status'[about[r]] = "accepted"
    BY <1>1 DEF Inv, TypeOK, Commit
  <2>2. ASSUME NEW u \in User, u # who[r] PROVE role'[u] = role[u] /\ hint'[u] = hint[u]
    BY <1>1, <2>2 DEF Inv, TypeOK, Commit
  <2> QED BY <1>1, <2>1, <2>2 DEF EntriesSound
<1>7. \A q \in Request \ {r} : RowKept(q)
  BY <1>1, UnlockingKeepsRows DEF Commit, Inv, TypeOK
<1> QED BY <1>2, <1>3, <1>4, <1>5, <1>6, <1>7, Assemble

(***************************************************************************)
(* The invariant                                                           *)
(***************************************************************************)
LEMMA InitInv == Init => Inv
<1> SUFFICES ASSUME Init PROVE Inv
  OBVIOUS
<1>1. TypeOK
  BY OwnerIsUser DEF Init, TypeOK, Pcs
<1>2. Addressed /\ OneOwner /\ MembersEarned /\ HintWasEarned /\ RevokedIsRevoked
  BY DEF Init, Addressed, OneOwner, MembersEarned, HintWasEarned, RevokedIsRevoked, Earned
<1>3. \A r \in Request : RequestInv(r)
  BY DEF Init, RequestInv, OnUser, OnInvite, Accepts, Holds
<1> QED BY <1>1, <1>2, <1>3 DEF Inv

\* The passing of time and the user's other workspaces.
LEMMA OutsideKeeps ==
  ASSUME Inv, (\E i \in Invite : Expire(i)) \/ (\E u \in User : SwitchAway(u))
  PROVE  Inv'
<1>1. TypeOK'
  BY DEF Inv, TypeOK, Expire, SwitchAway, inviteVars, requestVars
<1>2. /\ UNCHANGED <<role, to, status, lock, requestVars, told>>
      /\ \A u \in User : hint'[u] => hint[u]
  BY DEF Inv, TypeOK, Expire, SwitchAway, inviteVars
<1>3. Addressed' /\ OneOwner' /\ MembersEarned' /\ HintWasEarned' /\ RevokedIsRevoked'
  BY <1>2 DEF Inv, Addressed, OneOwner, MembersEarned, HintWasEarned, RevokedIsRevoked, Earned
<1>4. \A r \in Request : RequestInv(r)'
  BY <1>2 DEF Inv, RequestInv, requestVars, Earned
<1> QED BY <1>1, <1>3, <1>4 DEF Inv

LEMMA RequestKeeps ==
  ASSUME Inv, NEW r \in Request, Inviting(r) \/ Revoking(r) \/ Managing(r) \/ Accepting(r)
  PROVE  Inv'
<1>1. CASE Inviting(r)
  BY <1>1, InvitingReads, WritesKeep, TouchKeeps DEF Inviting
<1>2. CASE Revoking(r)
  BY <1>2, RevokingKeeps
<1>3. CASE Managing(r)
  BY <1>3, ManagingKeeps
<1>4. CASE Accepting(r)
  BY <1>4, AskVerifyKeeps, LockVerifiedKeeps, InsertMembershipKeeps, LockInviteKeeps,
     LookForMemberKeeps, CommitKeeps DEF Accepting
<1> QED BY <1>1, <1>2, <1>3, <1>4

LEMMA NextInv == Inv /\ [Next]_vars => Inv'
<1> SUFFICES ASSUME Inv, [Next]_vars PROVE Inv'
  OBVIOUS
<1>1. CASE UNCHANGED vars
  <2>1. UNCHANGED <<role, hint, to, grade, status, stale, lock, pc, who, about, inserts, told>>
    BY <1>1 DEF vars, inviteVars, requestVars
  <2>2. TypeOK' /\ Addressed' /\ OneOwner' /\ MembersEarned' /\ HintWasEarned' /\ RevokedIsRevoked'
    BY <2>1 DEF Inv, TypeOK, Addressed, OneOwner, MembersEarned, HintWasEarned, RevokedIsRevoked, Earned
  <2>3. \A r \in Request : RequestInv(r)'
    BY <2>1 DEF Inv, RequestInv, Earned
  <2> QED BY <2>2, <2>3 DEF Inv
<1>2. CASE Next
  BY <1>2, RequestKeeps, OutsideKeeps DEF Next
<1> QED BY <1>1, <1>2

LEMMA AlwaysInv == Spec => []Inv
BY InitInv, NextInv, PTL DEF Spec

(***************************************************************************)
(* Theorems                                                                *)
(***************************************************************************)
\* Memberships, hints, invites, locks and requests keep their types: an invite
\* never carries the role of an owner.
THEOREM MembershipTypeCorrect == Spec => []TypeOK
BY AlwaysInv, PTL DEF Inv

\* However managers' and invitees' requests interleave, the workspace keeps its
\* owner and gets no second one.
THEOREM OwnerIsKept == Spec => []OneOwner
BY AlwaysInv, PTL DEF Inv

\* An invite of which a manager was told that it is revoked stays revoked.
THEOREM RevocationsAreTrue == Spec => []RevokedIsRevoked
BY AlwaysInv, PTL DEF Inv

\* The hint of a user is the owner's, or one they got with an invite they spent.
THEOREM HintsAreEarned == Spec => []HintWasEarned
BY AlwaysInv, PTL DEF Inv

\* An invite that is accepted or revoked is never anything else again.
THEOREM InvitesEndOnce == Spec => EndsStayEnded
<1>1. Inv /\ [Next]_vars =>
        [\A i \in Invite : status[i] \in {"accepted", "revoked"} => status'[i] = status[i]]_vars
  <2> SUFFICES ASSUME Inv, Next
               PROVE  \A i \in Invite : status[i] \in {"accepted", "revoked"} => status'[i] = status[i]
    OBVIOUS
  <2>1. CASE UNCHANGED status
    BY <2>1
  <2>2. CASE \E r \in Request : WriteInvite(r) \/ WriteOnboarding(r)
    <3>1. PICK u, g, b : Upsert(u, g, b)
      BY <2>2 DEF WriteInvite, WriteOnboarding
    <3> QED BY <3>1 DEF Upsert, Inv, TypeOK, inviteVars
  <2>3. CASE \E r \in Request : RevokeInvite(r)
    BY <2>3 DEF RevokeInvite, Inv, TypeOK
  <2>4. CASE \E r \in Request : Commit(r)
    BY <2>4 DEF Commit, Inv, TypeOK
  <2> QED
    BY <2>1, <2>2, <2>3, <2>4 DEF Next, Inviting, Revoking, Managing, Accepting, AskInvite,
       CheckMember, AskOnboarding, AskResend, FindResent, TouchInvite, AskRevoke, FindRevoked,
       RereadInvite, AskRole, AskKick, FindMember, SetRole, DeleteMembership, ClearHint, AskSwitch,
       SetHint, AskVerify, LockVerified, InsertMembership, LockInvite, LookForMember, Expire,
       SwitchAway, inviteVars
<1> QED BY <1>1, AlwaysInv, PTL DEF Spec, EndsStayEnded

\* Nobody joins but by a pending invite of their own, which the join spends, and
\* with the role the invite has at that moment.
THEOREM JoinsAreInvited == Spec => JoinsSpendInvites
<1>1. Inv /\ [Next]_vars => [\A u \in User : Joins(u) => \E i \in Invite : Spends(u, i)]_vars
  <2> SUFFICES ASSUME Inv, Next, NEW u \in User, Joins(u)
               PROVE  \E i \in Invite : Spends(u, i)
    OBVIOUS
  <2>1. CASE UNCHANGED role
    BY <2>1 DEF Joins
  <2>2. CASE \E r \in Request : SetRole(r) \/ DeleteMembership(r)
    BY <2>2 DEF SetRole, DeleteMembership, Joins, Inv, TypeOK
  <2>3. CASE \E r \in Request : Commit(r)
    <3>1. PICK r \in Request : Commit(r)
      BY <2>3
    <3>2. inserts[r] /\ who[r] = u
      BY <3>1 DEF Commit, Joins, Inv, TypeOK
    <3>3. about[r] \in Invite /\ to[about[r]] = u /\ status[about[r]] = "pending"
      BY <3>1, <3>2 DEF Commit, Inv, RequestInv, OnInvite, Accepts
    <3>4. role'[u] = grade[about[r]] /\ status'[about[r]] = "accepted"
      BY <3>1, <3>2, <3>3 DEF Commit, Inv, TypeOK
    <3> QED BY <3>3, <3>4 DEF Spends
  <2> QED
    BY <2>1, <2>2, <2>3 DEF Next, Inviting, Revoking, Managing, Accepting, AskInvite,
       CheckMember, WriteInvite, AskOnboarding, WriteOnboarding, AskResend, FindResent, TouchInvite,
       AskRevoke, FindRevoked, RevokeInvite, RereadInvite, AskRole, AskKick, FindMember, ClearHint,
       AskSwitch, SetHint, AskVerify, LockVerified, InsertMembership, LockInvite, LookForMember,
       Expire, SwitchAway
<1> QED BY <1>1, AlwaysInv, PTL DEF Spec, JoinsSpendInvites

==============================================================================
