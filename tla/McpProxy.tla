-------------------------------- MODULE McpProxy --------------------------------
(***************************************************************************)
(* Public access to a workspace's gbrain (routes/gbrain-public-proxy.ts)   *)
(* and the registry of the clients that may have it (routes/workspaces/    *)
(* mcp-proxy.ts).  gbrain issues client ids and tokens and hears of no     *)
(* client's end: what ends a client is the proxy's two tables.             *)
(*                                                                         *)
(* A request is a sequence of statements.  A transaction holds the rows it *)
(* has updated until it commits, its updates are seen from then on, and an *)
(* UPDATE chooses its rows when it starts, waits for those that another    *)
(* transaction holds, and looks at them again when it gets them (READ      *)
(* COMMITTED).                                                             *)
(***************************************************************************)
EXTENDS Naturals, FiniteSets

CONSTANTS User, Admin,  \* members of the workspace; its owner and admins
          Client,       \* client ids that gbrain issues
          Token,        \* access tokens that gbrain issues
          Request,      \* requests at a time
          None

Workspace == "workspace"  \* the workspace's row
Row == Client \cup Token \cup {Workspace}

ASSUME AdminsAreMembers == Admin \subseteq User
ASSUME RowsAreDistinct ==
  /\ Client \cap Token = {} /\ Workspace \notin Client \cup Token
  /\ None \notin User \cup Client \cup Token \cup Request

VARIABLES
  enabled,  \* workspaces.gbrain_mcp_proxy_enabled
  client,   \* workspace_mcp_clients: revoked_at is null (active) or not
  by,       \* created_by_user_id
  token,    \* workspace_mcp_access_tokens, as client
  of,       \* client_id
  holder,   \* the request whose transaction holds the row
  req,      \* the requests
  ended     \* clients and tokens whose end has been committed, for its own sake

tables == <<enabled, client, by, token, of>>
vars == <<tables, holder, req, ended>>

Status == {"none", "issued", "active", "revoked"}
Statement ==
  {"idle", "issue", "claim", "check", "register", "insert",
   "on", "off", "end clients", "each client", "each token",
   "revoke", "end own", "each own", "grant", "lookup", "gbrain", "record",
   "call", "admit", "mark token", "mark client", "forward", "cancel", "cancel row"}

\* Who asks, about which client and token; rows an UPDATE has chosen and not yet
\* got; the clients that were registered when the proxy was to be turned off, and
\* whether the token of a call had been ended when it came.
Asked == [pc : Statement, user : User \cup {None}, client : Client \cup {None},
          token : Token \cup {None}, want : SUBSET (Client \cup Token),
          before : SUBSET Client, late : BOOLEAN]
NoRequest == [pc |-> "idle", user |-> None, client |-> None, token |-> None,
              want |-> {}, before |-> {}, late |-> FALSE]

\* The statements of a transaction that has updated a row.
InTransaction == {"end clients", "each client", "each token", "end own", "each own",
                  "mark client"}

\* The types of the tables, of the row locks and of the requests; a row is held
\* only while a transaction is open.
TypeOK ==
  /\ enabled \in BOOLEAN
  /\ client \in [Client -> Status] /\ by \in [Client -> User \cup {None}]
  /\ token \in [Token -> Status] /\ of \in [Token -> Client \cup {None}]
  /\ holder \in [Row -> Request \cup {None}]
  /\ req \in [Request -> Asked]
  /\ \A row \in Row : holder[row] # None => req[holder[row]].pc \in InTransaction
  /\ ended \subseteq Client \cup Token

Init ==
  /\ enabled = FALSE
  /\ client = [c \in Client |-> "none"] /\ by = [c \in Client |-> None]
  /\ token = [t \in Token |-> "none"] /\ of = [t \in Token |-> None]
  /\ holder = [row \in Row |-> None]
  /\ req = [r \in Request |-> NoRequest]
  /\ ended = {}

Registered == {c \in Client : client[c] \in {"active", "revoked"}}
Recorded == {t \in Token : token[t] \in {"active", "revoked"}}
ActiveClients == {c \in Client : client[c] = "active"}
ActiveTokens == {t \in Token : token[t] = "active"}
Held(r) == {row \in Row : holder[row] = r}

At(r, statement) == req[r].pc = statement
Goto(r, statement) == req' = [req EXCEPT ![r].pc = statement]
Lock(r, row) == holder[row] = None /\ holder' = [holder EXCEPT ![row] = r]

\* A transaction that is open commits or rolls back, the request is answered.
Answer(r) ==
  /\ req' = [req EXCEPT ![r] = NoRequest]
  /\ holder' = [row \in Row |-> IF holder[row] = r THEN None ELSE holder[row]]

-----------------------------------------------------------------------------
\* Requests come in.

Arrive(r, asked) ==
  /\ At(r, "idle")
  /\ req' = [req EXCEPT ![r] = asked]
  /\ UNCHANGED <<tables, holder, ended>>

\* An admin names a client, or turns the proxy on or off; a member claims one.
ManagerArrives(r) ==
  \E u \in User, s \in {"issue", "claim", "on", "off"} :
    /\ s = "claim" \/ u \in Admin
    /\ Arrive(r, [NoRequest EXCEPT !.pc = s, !.user = u,
                                   !.before = IF s = "off" THEN Registered ELSE {}])

\* A client is to be revoked by a member, or asks for a token.
ClientArrives(r) ==
  \E c \in Registered :
    \/ \E u \in User :
         Arrive(r, [NoRequest EXCEPT !.pc = "revoke", !.user = u, !.client = c])
    \/ Arrive(r, [NoRequest EXCEPT !.pc = "grant", !.client = c])

\* A token is used, or given back by its client.
TokenArrives(r) ==
  \E t \in Recorded, s \in {"call", "cancel"} :
    Arrive(r, [NoRequest EXCEPT !.pc = s, !.client = of[t], !.token = t,
                                !.late = {t, of[t]} \cap ended # {}])

\* findWorkspace, in the routes that need the proxy enabled, and what comes next.
ReadWorkspace(r) ==
  /\ enabled
  /\ \/ At(r, "issue") /\ Goto(r, "register")
     \/ At(r, "claim") /\ Goto(r, "check")
     \/ At(r, "grant") /\ Goto(r, "lookup")
     \/ At(r, "call") /\ Goto(r, "admit")
     \/ At(r, "cancel") /\ Goto(r, "cancel row")
  /\ UNCHANGED <<tables, holder, ended>>

\* A check says no, gbrain or a statement fails, the process dies, or PostgreSQL
\* ends one of two transactions that wait for each other: nothing is committed.
Fail(r) ==
  /\ ~At(r, "idle")
  /\ Answer(r)
  /\ UNCHANGED <<tables, ended>>

-----------------------------------------------------------------------------
\* POST /clients, POST /clients/self

\* findActiveClientForUser
CheckClaim(r) ==
  /\ At(r, "check")
  /\ ~\E c \in ActiveClients : by[c] = req[r].user
  /\ Goto(r, "register")
  /\ UNCHANGED <<tables, holder, ended>>

\* registerGbrainOAuthClientWithOptions
Register(r) ==
  /\ At(r, "register")
  /\ \E c \in Client :
       /\ client[c] = "none"
       /\ client' = [client EXCEPT ![c] = "issued"]
       /\ req' = [req EXCEPT ![r].pc = "insert", ![r].client = c]
  /\ UNCHANGED <<enabled, by, token, of, holder, ended>>

CreateClient(r) ==
  /\ At(r, "insert")
  /\ client' = [client EXCEPT ![req[r].client] = "active"]
  /\ by' = [by EXCEPT ![req[r].client] = req[r].user]
  /\ Answer(r)
  /\ UNCHANGED <<enabled, token, of, ended>>

-----------------------------------------------------------------------------
\* Transactions that revoke: POST / with enabled false, DELETE /clients/:clientId.

\* An UPDATE chooses its rows.
Choose(r, from, rows, to) ==
  /\ At(r, from) /\ req[r].want = {}
  /\ req' = [req EXCEPT ![r].pc = to, ![r].want = rows]
  /\ UNCHANGED <<tables, holder, ended>>

\* It gets one of them, and leaves it alone if it has been revoked meanwhile.
UpdateRow(r) ==
  /\ \E row \in req[r].want :
       /\ holder[row] = None
       /\ holder' = IF row \in ActiveClients \cup ActiveTokens
                    THEN [holder EXCEPT ![row] = r] ELSE holder
       /\ req' = [req EXCEPT ![r].want = @ \ {row}]
  /\ UNCHANGED <<tables, ended>>

Revoke(rows) ==
  /\ client' = [c \in Client |-> IF c \in rows THEN "revoked" ELSE client[c]]
  /\ token' = [t \in Token |-> IF t \in rows THEN "revoked" ELSE token[t]]

SwitchOn(r) ==
  /\ At(r, "on")
  /\ holder[Workspace] = None
  /\ enabled' = TRUE
  /\ Answer(r)
  /\ UNCHANGED <<client, by, token, of, ended>>

SwitchOff(r) ==
  /\ At(r, "off")
  /\ Lock(r, Workspace)
  /\ Goto(r, "end clients")
  /\ UNCHANGED <<tables, ended>>

EndClients(r) == Choose(r, "end clients", ActiveClients, "each client")
EndTokens(r) == Choose(r, "each client", ActiveTokens, "each token")

CommitOff(r) ==
  /\ At(r, "each token") /\ req[r].want = {}
  /\ enabled' = FALSE
  /\ Revoke(Held(r))
  /\ ended' = ended \cup req[r].before
  /\ Answer(r)
  /\ UNCHANGED <<by, of>>

\* Members may revoke the clients they have made.
RevokeClient(r) ==
  /\ At(r, "revoke")
  /\ client[req[r].client] = "active"
  /\ req[r].user \in Admin \/ by[req[r].client] = req[r].user
  /\ Lock(r, req[r].client)
  /\ Goto(r, "end own")
  /\ UNCHANGED <<tables, ended>>

EndOwnTokens(r) ==
  Choose(r, "end own", {t \in ActiveTokens : of[t] = req[r].client}, "each own")

CommitRevoke(r) ==
  /\ At(r, "each own") /\ req[r].want = {}
  /\ Revoke(Held(r))
  /\ ended' = ended \cup {req[r].client}
  /\ Answer(r)
  /\ UNCHANGED <<enabled, by, of>>

-----------------------------------------------------------------------------
\* POST /token

FindActiveClient(r) ==
  /\ At(r, "lookup")
  /\ client[req[r].client] = "active"
  /\ Goto(r, "gbrain")
  /\ UNCHANGED <<tables, holder, ended>>

\* gbrain issues a token.
AskGbrain(r) ==
  /\ At(r, "gbrain")
  /\ \E t \in Token :
       /\ token[t] = "none"
       /\ token' = [token EXCEPT ![t] = "issued"]
       /\ of' = [of EXCEPT ![t] = req[r].client]
       /\ req' = [req EXCEPT ![r].pc = "record", ![r].token = t]
  /\ UNCHANGED <<enabled, client, by, holder, ended>>

\* recordIssuedAccessToken: the insert and the client's last_used_at.  Each answer of gbrain
\* has a token of its own, so ON CONFLICT, which would make a revoked row active again, meets
\* no row.
RecordToken(r) ==
  /\ At(r, "record")
  /\ holder[req[r].client] = None
  /\ token' = [token EXCEPT ![req[r].token] = "active"]
  /\ Answer(r)
  /\ UNCHANGED <<enabled, client, by, of, ended>>

-----------------------------------------------------------------------------
\* /mcp

TokenIsActive(t) == token[t] = "active"   \* mutant: the client's row is not joined

\* findActiveAccessToken: the token and its client.
IsActive(t) == token[t] = "active" /\ client[of[t]] = "active"

Admit(r) ==
  /\ At(r, "admit")
  /\ IsActive(req[r].token)
  /\ Goto(r, "mark token")
  /\ UNCHANGED <<tables, holder, ended>>

\* markAccessTokenUsed: a transaction, the token's row and then the client's.
MarkToken(r) ==
  /\ At(r, "mark token")
  /\ Lock(r, req[r].token)
  /\ Goto(r, "mark client")
  /\ UNCHANGED <<tables, ended>>

MarkedOpen(r) ==            \* mutant: the transaction is left open
  /\ At(r, "mark client")
  /\ Lock(r, req[r].client)
  /\ Goto(r, "forward")
  /\ UNCHANGED <<tables, ended>>

MarkClient(r) ==
  /\ At(r, "mark client")
  /\ holder[req[r].client] = None
  /\ holder' = [row \in Row |-> IF holder[row] = r THEN None ELSE holder[row]]
  /\ Goto(r, "forward")
  /\ UNCHANGED <<tables, ended>>

\* proxyToGbrain
Forward(r) ==
  /\ At(r, "forward")
  /\ Answer(r)
  /\ UNCHANGED <<tables, ended>>

-----------------------------------------------------------------------------
\* POST /revoke, revokeAccessToken

CancelToken(r) ==
  /\ At(r, "cancel row")
  /\ holder[req[r].token] = None
  /\ token' = [token EXCEPT ![req[r].token] = "revoked"]
  /\ ended' = ended \cup {req[r].token}
  /\ Answer(r)
  /\ UNCHANGED <<enabled, client, by, of>>

-----------------------------------------------------------------------------
Arrivals(r) == ManagerArrives(r) \/ ClientArrives(r) \/ TokenArrives(r)
Issue(r) == CheckClaim(r) \/ Register(r) \/ CreateClient(r)
Switch(r) == SwitchOn(r) \/ SwitchOff(r) \/ EndClients(r) \/ EndTokens(r) \/ CommitOff(r)
End(r) == RevokeClient(r) \/ EndOwnTokens(r) \/ CommitRevoke(r) \/ CancelToken(r)
Grant(r) == FindActiveClient(r) \/ AskGbrain(r) \/ RecordToken(r)
Call(r) == Admit(r) \/ MarkToken(r) \/ MarkClient(r) \/ Forward(r)

Next == \E r \in Request :
  \/ Arrivals(r) \/ ReadWorkspace(r) \/ Fail(r) \/ UpdateRow(r)
  \/ Issue(r) \/ Switch(r) \/ End(r) \/ Grant(r) \/ Call(r)

Spec == Init /\ [][Next]_vars

-----------------------------------------------------------------------------
\* Properties.

\* "Revoking a client blocks future token issuance and existing tokens", and
\* turning the proxy off ends every client there was: no call that comes after
\* is forwarded, whatever tokens were being issued or recorded, whatever clients
\* were being made, and however often the proxy is turned on again.
EndedIsCutOff == \A r \in Request : req[r].late => ~At(r, "forward")

Finality ==
  /\ \A c \in Client : client[c] = "revoked" => client'[c] = "revoked"
  /\ \A t \in Token : token[t] = "revoked" => token'[t] = "revoked"
  /\ \A c \in Registered : by'[c] = by[c]
  /\ \A t \in Recorded : of'[t] = of[t]
  /\ ended \subseteq ended'

\* A revocation is final: no insert, record or mark of a request that looked before
\* it writes a revoked client or token back, and whose client and token a stored one
\* is, on which the right to revoke it and its end depend, never changes.
RevocationIsFinal == [][Finality]_vars
=============================================================================
