---------------------------- MODULE McpProxy_proofs ----------------------------
(***************************************************************************)
(* Proofs about public access to gbrain, for every number of members,      *)
(* clients, tokens and requests at a time.                                 *)
(*                                                                         *)
(* That what was ended is cut off needs more than the two tables: whoever  *)
(* is about to write a client or a token as active has one that is only    *)
(* issued, and has it alone; a transaction that revokes holds the rows     *)
(* that it has been through, so that nobody else writes them before it     *)
(* commits; and those that it has chosen and not yet got are still to be   *)
(* looked at.                                                              *)
(***************************************************************************)
EXTENDS McpProxy, TLAPS

USE AdminsAreMembers, RowsAreDistinct

-----------------------------------------------------------------------------
\* The inductive invariant.

TablesOK ==
  /\ enabled \in BOOLEAN
  /\ client \in [Client -> Status] /\ by \in [Client -> User \cup {None}]
  /\ token \in [Token -> Status] /\ of \in [Token -> Client \cup {None}]
  /\ holder \in [Row -> Request \cup {None}]
  /\ req \in [Request -> Asked]
  /\ ended \subseteq Client \cup Token

Stored == {"active", "revoked"}

\* A request that is past a statement has what that statement gave it.
TokenPcs == {"record", "call", "admit", "mark token", "mark client", "forward",
             "cancel", "cancel row"}
ClientPcs == TokenPcs \cup {"revoke", "end own", "each own", "grant", "lookup", "gbrain"}

Carries(r) ==
  /\ req[r].pc \in ClientPcs => req[r].client \in Client /\ client[req[r].client] \in Stored
  /\ req[r].pc \in TokenPcs => /\ req[r].token \in Token
                               /\ token[req[r].token] # "none"
                               /\ of[req[r].token] = req[r].client
  /\ req[r].pc \in TokenPcs \ {"record"} => token[req[r].token] \in Stored

\* What it is about to store has only been issued.
IsFresh(r) ==
  /\ req[r].pc = "insert" => req[r].client \in Client /\ client[req[r].client] = "issued"
  /\ req[r].pc = "record" => token[req[r].token] = "issued"

\* It holds stored rows, in an open transaction.
Holds(r) ==
  \A row \in Row : holder[row] = r =>
    /\ req[r].pc \in InTransaction
    /\ row \in Client => client[row] \in Stored
    /\ row \in Token => token[row] \in Stored

\* The rows of an UPDATE are stored, and chosen only while one is under way.
Wants(r) ==
  /\ \A row \in req[r].want : /\ row \in Client => client[row] \in Stored
                              /\ row \in Token => token[row] \in Stored
  /\ req[r].want # {} => req[r].pc \in {"each client", "each token", "each own"}

\* A client that was there when the proxy was to be turned off is revoked, held, or
\* still to be looked at; a client that is being revoked is held.
Swept(r, c) == client[c] = "revoked" \/ holder[c] = r
Sweeps(r) ==
  \A c \in req[r].before :
    /\ client[c] \in Stored
    /\ req[r].pc = "each client" => c \in req[r].want \/ Swept(r, c)
    /\ req[r].pc = "each token" => Swept(r, c)
HoldsOwn(r) == req[r].pc \in {"end own", "each own"} => holder[req[r].client] = r

\* A call that came after the end is not let in.
LateIsOut(r) ==
  req[r].late => /\ req[r].pc \in {"call", "admit", "cancel", "cancel row"}
                 /\ req[r].token \in ended \/ req[r].client \in ended

Local(r) == Carries(r) /\ IsFresh(r) /\ Holds(r)
            /\ Wants(r) /\ Sweeps(r) /\ HoldsOwn(r) /\ LateIsOut(r)

\* No two requests are about to store the same client or token.
Alone ==
  \A r, s \in Request : r # s =>
    /\ req[r].pc = "insert" /\ req[s].pc = "insert" => req[r].client # req[s].client
    /\ req[r].pc = "record" /\ req[s].pc = "record" => req[r].token # req[s].token

TokensHaveClients == \A t \in Token : token[t] # "none" => of[t] \in Client /\ client[of[t]] \in Stored

EndedIsRevoked ==
  /\ \A c \in Client : c \in ended => client[c] = "revoked"
  /\ \A t \in Token : t \in ended => token[t] = "revoked"

Inv ==
  /\ TablesOK /\ (\A r \in Request : Local(r))
  /\ Alone /\ TokensHaveClients /\ EndedIsRevoked

-----------------------------------------------------------------------------
\* What a step of request r leaves to the others.

Frame(r) ==
  /\ req' \in [Request -> Asked]
  /\ \A q \in Request \ {r} : req'[q] = req[q]

\* Rows move forward, what is issued is stored by the one who has it, and only
\* its own rows are held or let go by r.
Moves(r) ==
  /\ \A c \in Client : /\ client[c] \in Stored => client'[c] \in Stored
                       /\ client[c] = "revoked" => client'[c] = "revoked"
                       /\ client[c] = "issued" => \/ client'[c] = "issued"
                                                  \/ req[r].pc = "insert" /\ req[r].client = c
  /\ \A t \in Token : /\ token[t] \in Stored => token'[t] \in Stored
                      /\ token[t] = "revoked" => token'[t] = "revoked"
                      /\ token[t] = "issued" => \/ token'[t] = "issued"
                                                \/ req[r].pc = "record" /\ req[r].token = t
                      /\ token[t] # "none" => token'[t] # "none" /\ of'[t] = of[t]
  /\ ended \subseteq ended'
LetsBe(r) == \A row \in Row, q \in Request \ {r} : holder'[row] = q <=> holder[row] = q

\* What r must make sure of for itself.
Gains(r) ==
  /\ \A t \in Token : token[t] = "none" /\ token'[t] # "none"
                        => of'[t] \in Client /\ client'[of'[t]] \in Stored
  /\ \A c \in Client : c \in ended' \ ended => client'[c] = "revoked"
  /\ \A t \in Token : t \in ended' \ ended => token'[t] = "revoked"
Own(r) ==
  /\ Local(r)'
  /\ req'[r].pc = "insert" => client[req'[r].client] = "none"
  /\ req'[r].pc = "record" => token[req'[r].token] = "none"
  /\ Gains(r)

LEMMA OthersKeep ==
  ASSUME Inv, NEW r \in Request, Frame(r), Moves(r), LetsBe(r), TablesOK', NEW q \in Request \ {r}
  PROVE  Local(q)'
<1>1. req'[q] = req[q] /\ Local(q) /\ req[q] \in Asked /\ r # q
  BY DEF Frame, Inv, TablesOK
<1>2. Carries(q)'
  <2>1. req[q].pc \in ClientPcs => req[q].client \in Client /\ client'[req[q].client] \in Stored
    BY <1>1 DEF Carries, Local, Moves, LetsBe
  <2>2. req[q].pc \in TokenPcs => /\ req[q].token \in Token
                                 /\ token'[req[q].token] # "none"
                                 /\ of'[req[q].token] = req[q].client
    BY <1>1 DEF Carries, Local, Moves, LetsBe
  <2>3. req[q].pc \in TokenPcs \ {"record"} => token'[req[q].token] \in Stored
    BY <1>1 DEF Carries, Local, Moves, LetsBe
  <2> QED
    BY <1>1, <2>1, <2>2, <2>3 DEF Carries
<1>3. IsFresh(q)'
  <2>1. req[q].pc = "insert" => req[q].client \in Client /\ client'[req[q].client] = "issued"
    BY <1>1 DEF IsFresh, Local, Moves, LetsBe, Inv, Alone
  <2>2. req[q].pc = "record" => req[q].token \in Token
    BY <1>1 DEF Carries, Local, TokenPcs
  <2>3. req[q].pc = "record" => token'[req[q].token] = "issued"
    BY <1>1, <2>2 DEF IsFresh, Local, Moves, LetsBe, Inv, Alone
  <2> QED
    BY <1>1, <2>1, <2>3 DEF IsFresh
<1>4. Holds(q)'
  BY <1>1 DEF Holds, Local, Moves, LetsBe, Stored
<1>5. req[q].before \subseteq Client /\ req[q].want \subseteq Client \cup Token
  BY <1>1 DEF Asked
<1>6. Wants(q)'
  BY <1>1, <1>5 DEF Wants, Local, Moves, LetsBe
<1>7. Sweeps(q)'
  <2> SUFFICES ASSUME NEW c \in req[q].before
               PROVE  /\ client'[c] \in Stored
                      /\ req[q].pc = "each client" => c \in req[q].want \/ Swept(q, c)'
                      /\ req[q].pc = "each token" => Swept(q, c)'
    BY <1>1 DEF Sweeps
  <2>1. c \in Client /\ c \in Row
    BY <1>5 DEF Row
  <2>2. Swept(q, c) => Swept(q, c)'
    BY <1>1, <2>1 DEF Swept, Moves, LetsBe
  <2>3. client'[c] \in Stored
    BY <1>1, <2>1 DEF Sweeps, Local, Moves, LetsBe
  <2> QED
    BY <1>1, <2>2, <2>3 DEF Sweeps, Local
<1>8. HoldsOwn(q)'
  <2> SUFFICES ASSUME req[q].pc \in {"end own", "each own"}
               PROVE  holder'[req[q].client] = q
    BY <1>1 DEF HoldsOwn
  <2>1. req[q].client \in Row
    BY <1>1 DEF Local, Carries, ClientPcs, Row
  <2>2. holder[req[q].client] = q
    BY <1>1 DEF HoldsOwn, Local
  <2> QED
    BY <2>1, <2>2 DEF Moves, LetsBe
<1>9. LateIsOut(q)'
  BY <1>1 DEF LateIsOut, Local, Moves, LetsBe
<1> QED
  BY <1>2, <1>3, <1>4, <1>6, <1>7, <1>8, <1>9 DEF Local

LEMMA StepKeeps ==
  ASSUME Inv, NEW r \in Request, Frame(r), Moves(r), LetsBe(r), TablesOK', Own(r)
  PROVE  Inv'
<1>1. \A q \in Request : Local(q)'
  BY OthersKeep DEF Own
<1>2. Alone'
  <2> SUFFICES ASSUME NEW p \in Request, NEW s \in Request, p # s
               PROVE  /\ req'[p].pc = "insert" /\ req'[s].pc = "insert"
                           => req'[p].client # req'[s].client
                      /\ req'[p].pc = "record" /\ req'[s].pc = "record"
                           => req'[p].token # req'[s].token
    BY DEF Alone
  <2>1. CASE p # r /\ s # r
    BY <2>1 DEF Frame, Inv, Alone
  <2>2. CASE p = r
    <3>1. req'[s] = req[s] /\ IsFresh(s)
      BY <2>2 DEF Frame, Inv, Local
    <3> QED
      BY <2>2, <3>1 DEF Own, IsFresh
  <2>3. CASE s = r
    <3>1. req'[p] = req[p] /\ IsFresh(p)
      BY <2>3 DEF Frame, Inv, Local
    <3> QED
      BY <2>3, <3>1 DEF Own, IsFresh
  <2> QED
    BY <2>1, <2>2, <2>3
<1>3. TokensHaveClients'
  BY DEF TokensHaveClients, Inv, Moves, Own, Gains
<1>4. EndedIsRevoked'
  BY DEF EndedIsRevoked, Inv, Moves, Own, Gains
<1> QED
  BY <1>1, <1>2, <1>3, <1>4 DEF Inv

-----------------------------------------------------------------------------
\* What the forms of a step do to the request.

Keeps(r) == /\ req'[r].client = req[r].client /\ req'[r].token = req[r].token
            /\ req'[r].before = req[r].before /\ req'[r].late = req[r].late

LEMMA Goes ==
  ASSUME TablesOK, NEW r \in Request, NEW s \in Statement, Goto(r, s)
  PROVE  Frame(r) /\ Keeps(r) /\ req'[r].pc = s /\ req'[r].want = req[r].want
BY DEF TablesOK, Goto, Frame, Keeps, Asked

LEMMA Wanting ==
  ASSUME TablesOK, NEW r \in Request, NEW s \in Statement, NEW W \in SUBSET (Client \cup Token),
         req' = [req EXCEPT ![r].pc = s, ![r].want = W]
  PROVE  Frame(r) /\ Keeps(r) /\ req'[r].pc = s /\ req'[r].want = W
<1> DEFINE old == req[r]
           new == [[old EXCEPT !.pc = s] EXCEPT !.want = W]
<1>1. req \in [Request -> Asked] /\ old \in Asked
  BY DEF TablesOK
<1>2. req' = [req EXCEPT ![r] = new]
  BY <1>1
<1>3. /\ new \in Asked /\ new.pc = s /\ new.want = W
      /\ new.client = old.client /\ new.token = old.token
      /\ new.before = old.before /\ new.late = old.late
  <2> HIDE DEF old
  <2> QED
    BY <1>1 DEF Asked
<1>4. req[r] = old
  OBVIOUS
<1> HIDE DEF old, new
<1>5. Frame(r) /\ req'[r] = new
  BY <1>1, <1>2, <1>3 DEF Frame
<1> QED
  BY <1>3, <1>4, <1>5 DEF Keeps

LEMMA Answers ==
  ASSUME Inv, NEW r \in Request, Answer(r)
  PROVE  /\ Frame(r) /\ Local(r)' /\ req'[r].pc = "idle"
         /\ holder' \in [Row -> Request \cup {None}]
         /\ LetsBe(r)
<1>1. NoRequest \in Asked
  BY DEF NoRequest, Asked, Statement
<1>2. req' = [req EXCEPT ![r] = NoRequest] /\ req \in [Request -> Asked]
      /\ holder \in [Row -> Request \cup {None}]
      /\ holder' = [row \in Row |-> IF holder[row] = r THEN None ELSE holder[row]]
  BY DEF Inv, TablesOK, Answer, Row
<1>3. Frame(r) /\ req'[r] = NoRequest
  BY <1>1, <1>2 DEF Frame
<1>4. \A row \in Row : holder'[row] # r
  BY <1>2
<1>5. Local(r)'
  BY <1>3, <1>4 DEF NoRequest, Local, Carries, IsFresh, Holds, Wants, Sweeps, HoldsOwn, LateIsOut,
     ClientPcs, TokenPcs
<1> QED
  BY <1>2, <1>3, <1>5 DEF NoRequest, LetsBe

-----------------------------------------------------------------------------
\* Steps that write no table, that write no row lock either, and that answer.

LEMMA HolderKeeps ==
  ASSUME Inv, NEW r \in Request, Frame(r), LetsBe(r), holder' \in [Row -> Request \cup {None}],
         UNCHANGED <<tables, ended>>, Local(r)', req'[r].pc \notin {"insert", "record"}
  PROVE  Inv'
<1>1. TablesOK'
  BY DEF tables, Frame, Inv, TablesOK
<1>2. Moves(r)
  BY DEF tables, Moves, Stored
<1>3. Own(r)
  BY DEF tables, Own, Gains
<1> QED
  BY <1>1, <1>2, <1>3, StepKeeps

Quiet == UNCHANGED <<tables, holder, ended>>

LEMMA QuietKeeps ==
  ASSUME Inv, NEW r \in Request, Frame(r), Quiet, Local(r)',
         req'[r].pc \notin {"insert", "record"}
  PROVE  Inv'
<1>1. LetsBe(r) /\ holder' \in [Row -> Request \cup {None}] /\ UNCHANGED <<tables, ended>>
  BY DEF Quiet, LetsBe, Inv, TablesOK
<1> QED
  BY <1>1, HolderKeeps

LEMMA AnswerKeeps ==
  ASSUME Inv, NEW r \in Request, Answer(r), Moves(r), Gains(r),
         enabled' \in BOOLEAN, client' \in [Client -> Status], by' \in [Client -> User \cup {None}],
         token' \in [Token -> Status], of' \in [Token -> Client \cup {None}],
         ended' \subseteq Client \cup Token
  PROVE  Inv'
<1>1. Frame(r) /\ LetsBe(r) /\ Local(r)' /\ req'[r].pc = "idle"
      /\ holder' \in [Row -> Request \cup {None}]
  BY Answers
<1>2. TablesOK'
  BY <1>1 DEF Frame, TablesOK
<1>3. Own(r)
  BY <1>1 DEF Own
<1> QED
  BY <1>1, <1>2, <1>3, StepKeeps

LEMMA AnswerQuietly ==
  ASSUME Inv, NEW r \in Request, Answer(r), UNCHANGED <<tables, ended>>
  PROVE  Inv'
<1>1. Frame(r) /\ LetsBe(r) /\ Local(r)' /\ req'[r].pc = "idle"
      /\ holder' \in [Row -> Request \cup {None}]
  BY Answers
<1> QED
  BY <1>1, HolderKeeps

LEMMA ReadWorkspaceStep ==
  ASSUME Inv, NEW r \in Request, ReadWorkspace(r)
  PROVE  Inv'
<1>1. Quiet /\ Local(r) /\ TablesOK
  BY DEF ReadWorkspace, Quiet, Inv
<1>2. SUFFICES ASSUME NEW from \in Statement, NEW to \in Statement, req[r].pc = from, Goto(r, to),
                      \/ from = "issue" /\ to = "register"
                      \/ from = "claim" /\ to = "check"
                      \/ from = "grant" /\ to = "lookup"
                      \/ from = "call" /\ to = "admit"
                      \/ from = "cancel" /\ to = "cancel row"
               PROVE  Inv'
  BY DEF ReadWorkspace, At, Statement
<1>3. Frame(r) /\ Keeps(r) /\ req'[r].pc = to /\ req'[r].want = req[r].want
  BY <1>1, <1>2, Goes
<1>4. Local(r)'
  BY <1>1, <1>2, <1>3 DEF Quiet, tables, Keeps, Local, Carries, IsFresh, Holds, Wants, Sweeps, Swept,
     HoldsOwn, LateIsOut, ClientPcs, TokenPcs, InTransaction
<1> QED
  BY <1>1, <1>2, <1>3, <1>4, QuietKeeps

LEMMA QuietSteps ==
  ASSUME Inv, NEW r \in Request,
         CheckClaim(r) \/ FindActiveClient(r) \/ Admit(r)
  PROVE  Inv'
<1>1. Local(r) /\ TablesOK
  BY DEF Inv
<1>2. CASE CheckClaim(r)
  <2>1. Quiet /\ req[r].pc = "check" /\ Goto(r, "register")
    BY <1>2 DEF CheckClaim, Quiet, At
  <2>2. Frame(r) /\ Keeps(r) /\ req'[r].pc = "register" /\ req'[r].want = req[r].want
    BY <1>1, <2>1, Goes DEF Statement
  <2>3. Local(r)'
    BY <1>1, <2>1, <2>2 DEF Quiet, tables, Keeps, Local, Carries, IsFresh, Holds, Wants, Sweeps,
       Swept, HoldsOwn, LateIsOut, ClientPcs, TokenPcs, InTransaction
  <2> QED
    BY <2>1, <2>2, <2>3, QuietKeeps
<1>3. CASE FindActiveClient(r)
  <2>1. Quiet /\ req[r].pc = "lookup" /\ Goto(r, "gbrain")
    BY <1>3 DEF FindActiveClient, Quiet, At
  <2>2. Frame(r) /\ Keeps(r) /\ req'[r].pc = "gbrain" /\ req'[r].want = req[r].want
    BY <1>1, <2>1, Goes DEF Statement
  <2>3. Local(r)'
    BY <1>1, <2>1, <2>2 DEF Quiet, tables, Keeps, Local, Carries, IsFresh, Holds, Wants, Sweeps,
       Swept, HoldsOwn, LateIsOut, ClientPcs, TokenPcs, InTransaction
  <2> QED
    BY <2>1, <2>2, <2>3, QuietKeeps
<1>4. CASE Admit(r)
  <2>1. Quiet /\ req[r].pc = "admit" /\ Goto(r, "mark token") /\ IsActive(req[r].token)
    BY <1>4 DEF Admit, Quiet, At
  <2>2. Frame(r) /\ Keeps(r) /\ req'[r].pc = "mark token" /\ req'[r].want = req[r].want
    BY <1>1, <2>1, Goes DEF Statement
  <2>3. req[r].client \in Client /\ req[r].token \in Token /\ of[req[r].token] = req[r].client
    BY <1>1, <2>1 DEF Local, Carries, ClientPcs, TokenPcs
  <2>4. req[r].client \notin ended /\ req[r].token \notin ended
    BY <2>1, <2>3 DEF IsActive, Inv, EndedIsRevoked
  <2>5. Local(r)'
    BY <1>1, <2>1, <2>2, <2>4 DEF Quiet, tables, Keeps, Local, Carries, IsFresh, Holds, Wants,
       Sweeps, Swept, HoldsOwn, LateIsOut, ClientPcs, TokenPcs, InTransaction
  <2> QED
    BY <2>1, <2>2, <2>5, QuietKeeps
<1> QED
  BY <1>2, <1>3, <1>4

LEMMA PlainAnswers ==
  ASSUME Inv, NEW r \in Request, Fail(r) \/ Forward(r)
  PROVE  Inv'
BY AnswerQuietly DEF Fail, Forward

-----------------------------------------------------------------------------
\* Requests come in.

LEMMA ArriveKeeps ==
  ASSUME Inv, NEW r \in Request, NEW asked \in Asked, Arrive(r, asked),
         asked.pc \in {"issue", "claim", "on", "off", "revoke", "grant", "call", "cancel"},
         asked.want = {}, asked.before \subseteq Registered,
         asked.pc \in {"revoke", "grant", "call", "cancel"} => asked.client \in Registered,
         asked.pc \in {"call", "cancel"} => /\ asked.token \in Recorded
                                            /\ of[asked.token] = asked.client,
         asked.late => /\ asked.pc \in {"call", "cancel"}
                       /\ asked.token \in ended \/ asked.client \in ended
  PROVE  Inv'
<1>1. Local(r) /\ TablesOK /\ Quiet /\ req[r].pc = "idle" /\ req' = [req EXCEPT ![r] = asked]
  BY DEF Inv, Arrive, At, Quiet
<1>2. Frame(r) /\ req'[r] = asked
  BY <1>1 DEF Frame, TablesOK
<1>3. \A row \in Row : holder[row] # r
  BY <1>1 DEF Local, Holds, InTransaction
<1>4. Local(r)'
  <2>1. Carries(r)' /\ IsFresh(r)'
    BY <1>1, <1>2 DEF Quiet, tables, Carries, IsFresh, ClientPcs, TokenPcs, Registered, Recorded, Stored
  <2>2. Holds(r)'
    BY <1>1, <1>3 DEF Quiet, tables, Holds
  <2>4. Wants(r)' /\ HoldsOwn(r)'
    BY <1>2 DEF Wants, HoldsOwn
  <2>5. LateIsOut(r)'
    <3>1. ended' = ended
      BY <1>1 DEF Quiet
    <3>2. asked.late => asked.pc = "call" \/ asked.pc = "cancel"
      OBVIOUS
    <3> QED
      BY <1>2, <3>1, <3>2 DEF LateIsOut
  <2>3. Sweeps(r)'
    BY <1>1, <1>2 DEF Quiet, tables, Sweeps, Registered, Stored
  <2> QED
    BY <2>1, <2>2, <2>3, <2>4, <2>5 DEF Local
<1> QED
  BY <1>1, <1>2, <1>4, QuietKeeps

LEMMA ArrivalSteps ==
  ASSUME Inv, NEW r \in Request, Arrivals(r)
  PROVE  Inv'
<1>1. TablesOK
  BY DEF Inv
<1>2. CASE ManagerArrives(r)
  <2> SUFFICES ASSUME NEW u \in User, NEW s \in {"issue", "claim", "on", "off"},
                      Arrive(r, [NoRequest EXCEPT !.pc = s, !.user = u,
                                                  !.before = IF s = "off" THEN Registered ELSE {}])
               PROVE  Inv'
    BY <1>2 DEF ManagerArrives
  <2> DEFINE old == IF s = "off" THEN Registered ELSE {}
             asked == [NoRequest EXCEPT !.pc = s, !.user = u, !.before = old]
  <2>1. old \subseteq Registered
    OBVIOUS
  <2> HIDE DEF old
  <2>2. asked \in Asked /\ asked.pc = s /\ asked.want = {} /\ asked.before = old /\ ~asked.late
    BY <2>1 DEF NoRequest, Asked, Statement, Registered
  <2>3. Arrive(r, asked)
    BY DEF old
  <2> HIDE DEF asked
  <2> QED
    BY <2>1, <2>2, <2>3, ArriveKeeps
<1>3. CASE ClientArrives(r)
  <2>1. CASE \E c \in Registered, u \in User :
               Arrive(r, [NoRequest EXCEPT !.pc = "revoke", !.user = u, !.client = c])
    <3> SUFFICES ASSUME NEW c \in Registered, NEW u \in User,
                        Arrive(r, [NoRequest EXCEPT !.pc = "revoke", !.user = u, !.client = c])
                 PROVE  Inv'
      BY <2>1
    <3> DEFINE asked == [NoRequest EXCEPT !.pc = "revoke", !.user = u, !.client = c]
    <3>1. /\ asked \in Asked /\ asked.pc = "revoke" /\ asked.client = c
          /\ asked.want = {} /\ asked.before = {} /\ ~asked.late
      BY DEF NoRequest, Asked, Statement, Registered
    <3>2. Arrive(r, asked)
      OBVIOUS
    <3> HIDE DEF asked
    <3> QED
      BY <3>1, <3>2, ArriveKeeps
  <2>2. CASE \E c \in Registered : Arrive(r, [NoRequest EXCEPT !.pc = "grant", !.client = c])
    <3> SUFFICES ASSUME NEW c \in Registered,
                        Arrive(r, [NoRequest EXCEPT !.pc = "grant", !.client = c])
                 PROVE  Inv'
      BY <2>2
    <3> DEFINE asked == [NoRequest EXCEPT !.pc = "grant", !.client = c]
    <3>1. /\ asked \in Asked /\ asked.pc = "grant" /\ asked.client = c
          /\ asked.want = {} /\ asked.before = {} /\ ~asked.late
      BY DEF NoRequest, Asked, Statement, Registered
    <3>2. Arrive(r, asked)
      OBVIOUS
    <3> HIDE DEF asked
    <3> QED
      BY <3>1, <3>2, ArriveKeeps
  <2> QED
    BY <1>3, <2>1, <2>2 DEF ClientArrives
<1>4. CASE TokenArrives(r)
  <2> SUFFICES ASSUME NEW t \in Recorded, NEW s \in {"call", "cancel"},
                      Arrive(r, [NoRequest EXCEPT !.pc = s, !.client = of[t], !.token = t,
                                                  !.late = {t, of[t]} \cap ended # {}])
               PROVE  Inv'
    BY <1>4 DEF TokenArrives
  <2>1. t \in Token /\ of[t] \in Registered
    BY DEF Recorded, Registered, Inv, TokensHaveClients, Stored
  <2> DEFINE late == {t, of[t]} \cap ended # {}
             asked == [NoRequest EXCEPT !.pc = s, !.client = of[t], !.token = t, !.late = late]
  <2>2. late \in BOOLEAN /\ (late => t \in ended \/ of[t] \in ended)
    OBVIOUS
  <2>3. Arrive(r, asked)
    OBVIOUS
  <2> HIDE DEF late
  <2>4. /\ asked \in Asked /\ asked.pc = s /\ asked.client = of[t] /\ asked.token = t
        /\ asked.want = {} /\ asked.before = {} /\ asked.late = late
    BY <2>1, <2>2 DEF NoRequest, Asked, Statement, Registered
  <2> HIDE DEF asked
  <2> QED
    BY <2>1, <2>2, <2>3, <2>4, ArriveKeeps
<1> QED
  BY <1>2, <1>3, <1>4 DEF Arrivals

-----------------------------------------------------------------------------
\* A client is made.

LEMMA Naming ==
  ASSUME TablesOK, NEW r \in Request, NEW s \in Statement, NEW c \in Client,
         req' = [req EXCEPT ![r].pc = s, ![r].client = c]
  PROVE  /\ Frame(r) /\ req'[r].pc = s /\ req'[r].client = c
         /\ req'[r].want = req[r].want /\ req'[r].before = req[r].before
         /\ req'[r].late = req[r].late
<1> DEFINE old == req[r]
           new == [[old EXCEPT !.pc = s] EXCEPT !.client = c]
<1>1. req \in [Request -> Asked] /\ old \in Asked
  BY DEF TablesOK
<1>2. req' = [req EXCEPT ![r] = new]
  BY <1>1
<1>3. /\ new \in Asked /\ new.pc = s /\ new.client = c /\ new.want = old.want
      /\ new.before = old.before /\ new.late = old.late
  <2> HIDE DEF old
  <2> QED
    BY <1>1 DEF Asked
<1>4. req[r] = old
  OBVIOUS
<1> HIDE DEF old, new
<1>5. Frame(r) /\ req'[r] = new
  BY <1>1, <1>2, <1>3 DEF Frame
<1> QED
  BY <1>3, <1>4, <1>5

LEMMA RegisterStep ==
  ASSUME Inv, NEW r \in Request, Register(r)
  PROVE  Inv'
<1>1. Local(r) /\ TablesOK /\ req[r].pc = "register" /\ UNCHANGED <<enabled, by, token, of, holder, ended>>
  BY DEF Inv, Register, At
<1>2. PICK c \in Client : /\ client[c] = "none"
                          /\ client' = [client EXCEPT ![c] = "issued"]
                          /\ req' = [req EXCEPT ![r].pc = "insert", ![r].client = c]
  BY DEF Register
<1>3. /\ Frame(r) /\ req'[r].pc = "insert" /\ req'[r].client = c
      /\ req'[r].want = req[r].want /\ req'[r].before = req[r].before /\ req'[r].late = req[r].late
  BY <1>1, <1>2, Naming DEF Statement
<1>4. TablesOK'
  BY <1>1, <1>2, <1>3 DEF TablesOK, Frame, Status
<1>5. Moves(r) /\ LetsBe(r) /\ Gains(r)
  BY <1>1, <1>2 DEF Moves, LetsBe, Gains, Stored, TablesOK
<1>6. /\ \A row \in Row : holder[row] # r
      /\ req[r].want = {} /\ ~req[r].late
  BY <1>1 DEF Local, Holds, Wants, LateIsOut, InTransaction
<1>7. Local(r)'
  <2>1. Carries(r)' /\ IsFresh(r)'
    BY <1>1, <1>2, <1>3 DEF Carries, IsFresh, ClientPcs, TokenPcs, TablesOK
  <2>2. Holds(r)' /\ Wants(r)' /\ HoldsOwn(r)' /\ LateIsOut(r)'
    BY <1>1, <1>3, <1>6 DEF Holds, Wants, HoldsOwn, LateIsOut
  <2>3. Sweeps(r)'
    <3>1. req[r].before \subseteq Client
      BY <1>1 DEF TablesOK, Asked
    <3> QED
      BY <1>1, <1>3, <1>5, <3>1 DEF Sweeps, Local, Moves
  <2> QED
    BY <2>1, <2>2, <2>3 DEF Local
<1> QED
  BY <1>2, <1>3, <1>4, <1>5, <1>7, StepKeeps DEF Own

LEMMA CreateClientStep ==
  ASSUME Inv, NEW r \in Request, CreateClient(r)
  PROVE  Inv'
<1>1. Local(r) /\ TablesOK /\ req[r].pc = "insert" /\ Answer(r)
      /\ UNCHANGED <<enabled, token, of, ended>>
  BY DEF Inv, CreateClient, At
<1>2. req[r].client \in Client /\ client[req[r].client] = "issued"
  BY <1>1 DEF Local, IsFresh
<1>3. req[r].user \in User \cup {None}
  BY <1>1 DEF TablesOK, Asked
<1>4. client' \in [Client -> Status] /\ by' \in [Client -> User \cup {None}]
  BY <1>1, <1>2, <1>3 DEF CreateClient, TablesOK, Status
<1>5. Moves(r) /\ Gains(r)
  BY <1>1, <1>2 DEF CreateClient, Moves, Gains, Stored, TablesOK
<1> QED
  BY <1>1, <1>4, <1>5, AnswerKeeps DEF TablesOK

LEMMA RevokeMoves ==
  ASSUME Inv, NEW r \in Request, Revoke(Held(r)), UNCHANGED of, ended \subseteq ended'
  PROVE  /\ Moves(r) /\ client' \in [Client -> Status] /\ token' \in [Token -> Status]
         /\ \A c \in Client : holder[c] = r => client'[c] = "revoked"
         /\ \A c \in Client : client[c] = "revoked" => client'[c] = "revoked"
         /\ \A t \in Token : token[t] = "none" => token'[t] = "none"
<1>1. Local(r) /\ TablesOK
  BY DEF Inv
<1>2. \A row \in Held(r) : /\ row \in Client => client[row] \in Stored
                           /\ row \in Token => token[row] \in Stored
  BY <1>1 DEF Local, Holds, Held
<1>3. \A c \in Client : client'[c] = IF c \in Held(r) THEN "revoked" ELSE client[c]
  BY DEF Revoke
<1>4. \A t \in Token : token'[t] = IF t \in Held(r) THEN "revoked" ELSE token[t]
  BY DEF Revoke
<1>5. client' \in [Client -> Status] /\ token' \in [Token -> Status]
  BY <1>1 DEF Revoke, TablesOK, Status
<1>6. Moves(r)
  BY <1>2, <1>3, <1>4 DEF Moves, Stored
<1>7. \A c \in Client : holder[c] = r => c \in Held(r)
  BY DEF Held, Row
<1> QED
  BY <1>2, <1>3, <1>4, <1>5, <1>6, <1>7 DEF Stored

-----------------------------------------------------------------------------
\* The proxy is turned on or off.

LEMMA SwitchOnStep ==
  ASSUME Inv, NEW r \in Request, SwitchOn(r)
  PROVE  Inv'
<1>1. Moves(r) /\ Gains(r)
  BY DEF SwitchOn, Moves, Gains, Stored
<1> QED
  BY <1>1, AnswerKeeps DEF SwitchOn, Inv, TablesOK

LEMMA SwitchOffStep ==
  ASSUME Inv, NEW r \in Request, SwitchOff(r)
  PROVE  Inv'
<1>1. /\ Local(r) /\ TablesOK /\ req[r].pc = "off" /\ UNCHANGED <<tables, ended>>
      /\ holder[Workspace] = None /\ holder' = [holder EXCEPT ![Workspace] = r]
      /\ Goto(r, "end clients")
  BY DEF Inv, SwitchOff, At, Lock
<1>2. Frame(r) /\ Keeps(r) /\ req'[r].pc = "end clients" /\ req'[r].want = req[r].want
  BY <1>1, Goes DEF Statement
<1>3. LetsBe(r) /\ holder' \in [Row -> Request \cup {None}]
  BY <1>1 DEF LetsBe, TablesOK
<1>4. /\ \A row \in Row : holder[row] # r
      /\ req[r].want = {} /\ ~req[r].late
  BY <1>1 DEF Local, Holds, Wants, LateIsOut, InTransaction
<1>5. Local(r)'
  <2>1. Carries(r)' /\ IsFresh(r)'
    BY <1>2 DEF Carries, IsFresh, ClientPcs, TokenPcs
  <2>2. \A row \in Row : holder'[row] = r => row = Workspace
    BY <1>1, <1>4 DEF TablesOK
  <2>3. Holds(r)'
    BY <1>2, <2>2 DEF Holds, InTransaction
  <2>4. Wants(r)' /\ LateIsOut(r)'
    BY <1>2, <1>4 DEF Wants, LateIsOut, Keeps
  <2>5. Sweeps(r)'
    BY <1>1, <1>2 DEF Sweeps, Local, Keeps, tables
  <2>6. HoldsOwn(r)'
    BY <1>2 DEF HoldsOwn
  <2> QED
    BY <2>1, <2>3, <2>4, <2>5, <2>6 DEF Local
<1> QED
  BY <1>1, <1>2, <1>3, <1>5, HolderKeeps

LEMMA EndClientsStep ==
  ASSUME Inv, NEW r \in Request, EndClients(r)
  PROVE  Inv'
<1>1. /\ Local(r) /\ TablesOK /\ req[r].pc = "end clients" /\ req[r].want = {} /\ Quiet
      /\ req' = [req EXCEPT ![r].pc = "each client", ![r].want = ActiveClients]
  BY DEF Inv, EndClients, Choose, At, Quiet
<1>2. Frame(r) /\ Keeps(r) /\ req'[r].pc = "each client" /\ req'[r].want = ActiveClients
  <2>1. "each client" \in Statement /\ ActiveClients \in SUBSET (Client \cup Token)
    BY DEF ActiveClients, Statement
  <2> QED
    BY <1>1, <2>1, Wanting
<1>3. UNCHANGED <<client, token, holder, ended>> /\ ~req[r].late /\ req[r].before \subseteq Client
  BY <1>1 DEF Quiet, tables, Local, LateIsOut, TablesOK, Asked
<1>4. Local(r)'
  <2>1. Carries(r)' /\ IsFresh(r)' /\ HoldsOwn(r)'
    BY <1>2 DEF Carries, IsFresh, HoldsOwn, ClientPcs, TokenPcs
  <2>2. Holds(r)'
    BY <1>1, <1>2, <1>3 DEF Holds, Local, InTransaction
  <2>3. Wants(r)'
    BY <1>2, <1>3 DEF Wants, ActiveClients, Stored
  <2>4. LateIsOut(r)'
    BY <1>2, <1>3 DEF LateIsOut, Keeps
  <2>5. Sweeps(r)'
    BY <1>1, <1>2, <1>3 DEF Sweeps, Swept, Local, Keeps, ActiveClients, Stored
  <2> QED
    BY <2>1, <2>2, <2>3, <2>4, <2>5 DEF Local
<1> QED
  BY <1>1, <1>2, <1>4, QuietKeeps

LEMMA EndTokensStep ==
  ASSUME Inv, NEW r \in Request, EndTokens(r)
  PROVE  Inv'
<1>1. /\ Local(r) /\ TablesOK /\ req[r].pc = "each client" /\ req[r].want = {} /\ Quiet
      /\ req' = [req EXCEPT ![r].pc = "each token", ![r].want = ActiveTokens]
  BY DEF Inv, EndTokens, Choose, At, Quiet
<1>2. Frame(r) /\ Keeps(r) /\ req'[r].pc = "each token" /\ req'[r].want = ActiveTokens
  <2>1. "each token" \in Statement /\ ActiveTokens \in SUBSET (Client \cup Token)
    BY DEF ActiveTokens, Statement
  <2> QED
    BY <1>1, <2>1, Wanting
<1>3. UNCHANGED <<client, token, holder, ended>> /\ ~req[r].late
  BY <1>1 DEF Quiet, tables, Local, LateIsOut
<1>4. Local(r)'
  <2>1. Carries(r)' /\ IsFresh(r)' /\ HoldsOwn(r)'
    BY <1>2 DEF Carries, IsFresh, HoldsOwn, ClientPcs, TokenPcs
  <2>2. Holds(r)'
    BY <1>1, <1>2, <1>3 DEF Holds, Local, InTransaction
  <2>3. Wants(r)'
    BY <1>2, <1>3 DEF Wants, ActiveTokens, Stored
  <2>4. LateIsOut(r)'
    BY <1>2, <1>3 DEF LateIsOut, Keeps
  <2>5. Sweeps(r)'
    BY <1>1, <1>2, <1>3 DEF Sweeps, Swept, Local, Keeps
  <2> QED
    BY <2>1, <2>2, <2>3, <2>4, <2>5 DEF Local
<1> QED
  BY <1>1, <1>2, <1>4, QuietKeeps

LEMMA CommitOffStep ==
  ASSUME Inv, NEW r \in Request, CommitOff(r)
  PROVE  Inv'
<1>1. /\ Local(r) /\ TablesOK /\ req[r].pc = "each token" /\ Revoke(Held(r)) /\ enabled' = FALSE
      /\ ended' = ended \cup req[r].before /\ Answer(r) /\ UNCHANGED <<by, of>>
  BY DEF Inv, CommitOff, At
<1>2. /\ Moves(r) /\ client' \in [Client -> Status] /\ token' \in [Token -> Status]
      /\ \A c \in Client : holder[c] = r => client'[c] = "revoked"
      /\ \A c \in Client : client[c] = "revoked" => client'[c] = "revoked"
      /\ \A t \in Token : token[t] = "none" => token'[t] = "none"
  BY <1>1, RevokeMoves
<1>3. req[r].before \subseteq Client
  BY <1>1 DEF TablesOK, Asked
<1>4. \A c \in req[r].before : client'[c] = "revoked"
  BY <1>1, <1>2, <1>3 DEF Local, Sweeps, Swept
<1>5. Gains(r)
  BY <1>1, <1>2, <1>3, <1>4 DEF Gains
<1> QED
  BY <1>1, <1>2, <1>3, <1>5, AnswerKeeps DEF TablesOK

-----------------------------------------------------------------------------
\* An UPDATE gets a row.

LEMMA Narrowing ==
  ASSUME TablesOK, NEW r \in Request, NEW row \in Client \cup Token,
         req' = [req EXCEPT ![r].want = @ \ {row}]
  PROVE  Frame(r) /\ Keeps(r) /\ req'[r].pc = req[r].pc /\ req'[r].want = req[r].want \ {row}
<1> DEFINE old == req[r]
           rest == old.want \ {row}
           new == [old EXCEPT !.want = rest]
<1>1. req \in [Request -> Asked] /\ old \in Asked
  BY DEF TablesOK
<1>2. req' = [req EXCEPT ![r] = new]
  BY <1>1
<1>3. rest \in SUBSET (Client \cup Token)
  BY <1>1 DEF Asked
<1> HIDE DEF rest
<1>4. /\ new \in Asked /\ new.pc = old.pc /\ new.want = rest
      /\ new.client = old.client /\ new.token = old.token
      /\ new.before = old.before /\ new.late = old.late
  <2> HIDE DEF old
  <2> QED
    BY <1>1, <1>3 DEF Asked
<1>5. req[r] = old
  OBVIOUS
<1>6. rest = req[r].want \ {row}
  BY DEF rest
<1> HIDE DEF old, new
<1>7. Frame(r) /\ req'[r] = new
  BY <1>1, <1>2, <1>4 DEF Frame
<1> QED
  BY <1>4, <1>5, <1>6, <1>7 DEF Keeps

LEMMA UpdateRowStep ==
  ASSUME Inv, NEW r \in Request, UpdateRow(r)
  PROVE  Inv'
<1>1. Local(r) /\ TablesOK /\ UNCHANGED <<tables, ended>>
  BY DEF Inv, UpdateRow
<1>2. PICK row \in req[r].want :
        /\ holder[row] = None
        /\ holder' = IF row \in ActiveClients \cup ActiveTokens
                     THEN [holder EXCEPT ![row] = r] ELSE holder
        /\ req' = [req EXCEPT ![r].want = @ \ {row}]
  BY DEF UpdateRow
<1>3. req[r].want \subseteq Client \cup Token /\ req[r].before \subseteq Client
  BY <1>1 DEF TablesOK, Asked
<1>4. row \in Client \cup Token /\ row \in Row
  BY <1>3 DEF Row
<1>5. Frame(r) /\ Keeps(r) /\ req'[r].pc = req[r].pc /\ req'[r].want = req[r].want \ {row}
  BY <1>1, <1>2, <1>4, Narrowing
<1>6. req[r].pc \in {"each client", "each token", "each own"}
  BY <1>1 DEF Local, Wants
<1>7. LetsBe(r) /\ holder' \in [Row -> Request \cup {None}]
  BY <1>1, <1>2, <1>4 DEF LetsBe, TablesOK
<1>8. \A x \in Row : holder[x] = r => holder'[x] = r
  BY <1>1, <1>2, <1>4 DEF TablesOK
<1>9. Local(r)'
  <2>1. Carries(r)'
    BY <1>1, <1>5 DEF Local, Carries, Keeps, tables
  <2>2. IsFresh(r)'
    BY <1>5, <1>6 DEF IsFresh
  <2>3. Holds(r)'
    <3>1. \A x \in Row : holder'[x] = r => holder[x] = r \/ x = row
      BY <1>1, <1>2, <1>4 DEF TablesOK
    <3>2. /\ row \in Client => client[row] \in Stored
          /\ row \in Token => token[row] \in Stored
      BY <1>1 DEF Local, Wants
    <3>3. req[r].pc \in InTransaction
      BY <1>6 DEF InTransaction
    <3> QED
      BY <1>1, <1>5, <3>1, <3>2, <3>3 DEF Local, Holds, tables
  <2>4. Wants(r)'
    BY <1>1, <1>5 DEF Local, Wants, tables
  <2>5. Sweeps(r)'
    <3> SUFFICES ASSUME NEW c \in req[r].before
                 PROVE  /\ client[c] \in Stored
                        /\ req[r].pc = "each client"
                             => c \in req[r].want \ {row} \/ client[c] = "revoked" \/ holder'[c] = r
                        /\ req[r].pc = "each token" => client[c] = "revoked" \/ holder'[c] = r
      BY <1>1, <1>5 DEF Sweeps, Swept, Keeps, tables
    <3>1. c \in Client /\ c \in Row
      BY <1>3 DEF Row
    <3>2. /\ client[c] \in Stored
          /\ req[r].pc = "each client" => c \in req[r].want \/ Swept(r, c)
          /\ req[r].pc = "each token" => Swept(r, c)
      BY <1>1 DEF Local, Sweeps
    <3>3. CASE c = row
      BY <1>1, <1>2, <1>4, <3>1, <3>2, <3>3 DEF Swept, ActiveClients, Stored, TablesOK
    <3>4. CASE c # row
      BY <1>8, <3>1, <3>2, <3>4 DEF Swept
    <3> QED
      BY <3>3, <3>4
  <2>6. HoldsOwn(r)'
    <3> SUFFICES ASSUME req[r].pc \in {"end own", "each own"}
                 PROVE  holder'[req[r].client] = r
      BY <1>5 DEF HoldsOwn, Keeps
    <3>1. req[r].client \in Row /\ holder[req[r].client] = r
      BY <1>1 DEF Local, Carries, HoldsOwn, ClientPcs, Row
    <3> QED
      BY <3>1, <1>8
  <2>7. LateIsOut(r)'
    BY <1>1, <1>5, <1>6 DEF Local, LateIsOut, Keeps
  <2> QED
    BY <2>1, <2>2, <2>3, <2>4, <2>5, <2>6, <2>7 DEF Local
<1> QED
  BY <1>1, <1>5, <1>6, <1>7, <1>9, HolderKeeps

-----------------------------------------------------------------------------
\* A client is revoked.

LEMMA RevokeClientStep ==
  ASSUME Inv, NEW r \in Request, RevokeClient(r)
  PROVE  Inv'
<1> DEFINE own == req[r].client
<1>1. /\ Local(r) /\ TablesOK /\ req[r].pc = "revoke" /\ UNCHANGED <<tables, ended>>
      /\ client[own] = "active" /\ holder[own] = None /\ holder' = [holder EXCEPT ![own] = r]
      /\ Goto(r, "end own")
  BY DEF Inv, RevokeClient, At, Lock
<1>2. Frame(r) /\ Keeps(r) /\ req'[r].pc = "end own" /\ req'[r].want = req[r].want
  BY <1>1, Goes DEF Statement
<1>3. own \in Client /\ own \in Row
  BY <1>1 DEF Local, Carries, ClientPcs, Row
<1>4. LetsBe(r) /\ holder' \in [Row -> Request \cup {None}]
  BY <1>1, <1>3 DEF LetsBe, TablesOK
<1>5. /\ \A row \in Row : holder[row] # r
      /\ req[r].want = {} /\ ~req[r].late
  BY <1>1 DEF Local, Holds, Wants, LateIsOut, InTransaction
<1>6. Local(r)'
  <2>1. Carries(r)' /\ IsFresh(r)'
    BY <1>1, <1>2, <1>3 DEF Carries, IsFresh, ClientPcs, TokenPcs, Keeps, tables, Stored
  <2>2. \A row \in Row : holder'[row] = r => row = own
    BY <1>1, <1>5 DEF TablesOK
  <2>3. Holds(r)'
    BY <1>1, <1>2, <1>3, <2>2 DEF Holds, InTransaction, Stored, tables
  <2>4. Wants(r)' /\ LateIsOut(r)'
    BY <1>2, <1>5 DEF Wants, LateIsOut, Keeps
  <2>5. Sweeps(r)'
    BY <1>1, <1>2 DEF Sweeps, Local, Keeps, tables
  <2>6. HoldsOwn(r)'
    BY <1>1, <1>2, <1>3 DEF HoldsOwn, Keeps, TablesOK
  <2> QED
    BY <2>1, <2>3, <2>4, <2>5, <2>6 DEF Local
<1> QED
  BY <1>1, <1>2, <1>4, <1>6, HolderKeeps

LEMMA EndOwnTokensStep ==
  ASSUME Inv, NEW r \in Request, EndOwnTokens(r)
  PROVE  Inv'
<1> DEFINE own == {t \in ActiveTokens : of[t] = req[r].client}
<1>1. /\ Local(r) /\ TablesOK /\ req[r].pc = "end own" /\ req[r].want = {} /\ Quiet
      /\ req' = [req EXCEPT ![r].pc = "each own", ![r].want = own]
  BY DEF Inv, EndOwnTokens, Choose, At, Quiet
<1>2. own \subseteq Token /\ \A t \in own : token[t] \in Stored
  BY DEF ActiveTokens, Stored
<1> HIDE DEF own
<1>3. Frame(r) /\ Keeps(r) /\ req'[r].pc = "each own" /\ req'[r].want = own
  <2>1. "each own" \in Statement /\ own \in SUBSET (Client \cup Token)
    BY <1>2 DEF Statement
  <2> QED
    BY <1>1, <2>1, Wanting
<1>4. UNCHANGED <<client, token, of, holder, ended>> /\ ~req[r].late
  BY <1>1 DEF Quiet, tables, Local, LateIsOut
<1>5. Local(r)'
  <2>1. Carries(r)' /\ IsFresh(r)'
    BY <1>1, <1>3, <1>4 DEF Carries, IsFresh, ClientPcs, TokenPcs, Keeps, Local
  <2>2. Holds(r)'
    BY <1>1, <1>3, <1>4 DEF Holds, Local, InTransaction
  <2>3. Wants(r)'
    BY <1>2, <1>3, <1>4 DEF Wants
  <2>4. LateIsOut(r)'
    BY <1>3, <1>4 DEF LateIsOut, Keeps
  <2>5. Sweeps(r)'
    BY <1>1, <1>3, <1>4 DEF Sweeps, Local, Keeps
  <2>6. HoldsOwn(r)'
    BY <1>1, <1>3, <1>4 DEF HoldsOwn, Local, Keeps
  <2> QED
    BY <2>1, <2>2, <2>3, <2>4, <2>5, <2>6 DEF Local
<1> QED
  BY <1>1, <1>3, <1>5, QuietKeeps

LEMMA CommitRevokeStep ==
  ASSUME Inv, NEW r \in Request, CommitRevoke(r)
  PROVE  Inv'
<1>1. /\ Local(r) /\ TablesOK /\ req[r].pc = "each own" /\ Revoke(Held(r))
      /\ ended' = ended \cup {req[r].client} /\ Answer(r) /\ UNCHANGED <<enabled, by, of>>
  BY DEF Inv, CommitRevoke, At
<1>2. /\ Moves(r) /\ client' \in [Client -> Status] /\ token' \in [Token -> Status]
      /\ \A c \in Client : holder[c] = r => client'[c] = "revoked"
      /\ \A t \in Token : token[t] = "none" => token'[t] = "none"
  BY <1>1, RevokeMoves
<1>3. req[r].client \in Client /\ client'[req[r].client] = "revoked"
  BY <1>1, <1>2 DEF Local, Carries, HoldsOwn, ClientPcs
<1>4. Gains(r)
  BY <1>1, <1>2, <1>3 DEF Gains
<1> QED
  BY <1>1, <1>2, <1>3, <1>4, AnswerKeeps DEF TablesOK

LEMMA CancelTokenStep ==
  ASSUME Inv, NEW r \in Request, CancelToken(r)
  PROVE  Inv'
<1>1. /\ Local(r) /\ TablesOK /\ req[r].pc = "cancel row" /\ Answer(r)
      /\ token' = [token EXCEPT ![req[r].token] = "revoked"]
      /\ ended' = ended \cup {req[r].token} /\ UNCHANGED <<enabled, client, by, of>>
  BY DEF Inv, CancelToken, At
<1>2. req[r].token \in Token /\ token[req[r].token] \in Stored
  BY <1>1 DEF Local, Carries, TokenPcs
<1>3. token' \in [Token -> Status]
  BY <1>1 DEF TablesOK, Status
<1>4. Moves(r) /\ Gains(r)
  BY <1>1, <1>2 DEF Moves, Gains, Stored, TablesOK
<1> QED
  BY <1>1, <1>2, <1>3, <1>4, AnswerKeeps DEF TablesOK

-----------------------------------------------------------------------------
\* A token is issued and recorded.

LEMMA Granting ==
  ASSUME TablesOK, NEW r \in Request, NEW s \in Statement, NEW t \in Token,
         req' = [req EXCEPT ![r].pc = s, ![r].token = t]
  PROVE  /\ Frame(r) /\ req'[r].pc = s /\ req'[r].token = t /\ req'[r].client = req[r].client
         /\ req'[r].want = req[r].want /\ req'[r].before = req[r].before
         /\ req'[r].late = req[r].late
<1> DEFINE old == req[r]
           new == [[old EXCEPT !.pc = s] EXCEPT !.token = t]
<1>1. req \in [Request -> Asked] /\ old \in Asked
  BY DEF TablesOK
<1>2. req' = [req EXCEPT ![r] = new]
  BY <1>1
<1>3. /\ new \in Asked /\ new.pc = s /\ new.token = t /\ new.client = old.client
      /\ new.want = old.want /\ new.before = old.before /\ new.late = old.late
  <2> HIDE DEF old
  <2> QED
    BY <1>1 DEF Asked
<1>4. req[r] = old
  OBVIOUS
<1> HIDE DEF old, new
<1>5. Frame(r) /\ req'[r] = new
  BY <1>1, <1>2, <1>3 DEF Frame
<1> QED
  BY <1>3, <1>4, <1>5

LEMMA AskGbrainStep ==
  ASSUME Inv, NEW r \in Request, AskGbrain(r)
  PROVE  Inv'
<1>1. Local(r) /\ TablesOK /\ req[r].pc = "gbrain" /\ UNCHANGED <<enabled, client, by, holder, ended>>
  BY DEF Inv, AskGbrain, At
<1>2. PICK t \in Token : /\ token[t] = "none"
                         /\ token' = [token EXCEPT ![t] = "issued"]
                         /\ of' = [of EXCEPT ![t] = req[r].client]
                         /\ req' = [req EXCEPT ![r].pc = "record", ![r].token = t]
  BY DEF AskGbrain
<1>3. /\ Frame(r) /\ req'[r].pc = "record" /\ req'[r].token = t /\ req'[r].client = req[r].client
      /\ req'[r].want = req[r].want /\ req'[r].before = req[r].before /\ req'[r].late = req[r].late
  BY <1>1, <1>2, Granting DEF Statement
<1>4. req[r].client \in Client /\ client[req[r].client] \in Stored
  BY <1>1 DEF Local, Carries, ClientPcs
<1>5. TablesOK'
  BY <1>1, <1>2, <1>3, <1>4 DEF TablesOK, Frame, Status
<1>6. Moves(r) /\ LetsBe(r) /\ Gains(r)
  BY <1>1, <1>2, <1>4 DEF Moves, LetsBe, Gains, Stored, TablesOK
<1>7. /\ \A row \in Row : holder[row] # r
      /\ req[r].want = {} /\ ~req[r].late
  BY <1>1 DEF Local, Holds, Wants, LateIsOut, InTransaction
<1>8. Local(r)'
  <2>1. Carries(r)' /\ IsFresh(r)'
    BY <1>1, <1>2, <1>3, <1>4 DEF Carries, IsFresh, ClientPcs, TokenPcs, TablesOK
  <2>2. Holds(r)' /\ Wants(r)' /\ HoldsOwn(r)' /\ LateIsOut(r)'
    BY <1>1, <1>3, <1>7 DEF Holds, Wants, HoldsOwn, LateIsOut
  <2>3. Sweeps(r)'
    BY <1>1, <1>3 DEF Sweeps, Local
  <2> QED
    BY <2>1, <2>2, <2>3 DEF Local
<1> QED
  BY <1>2, <1>3, <1>5, <1>6, <1>8, StepKeeps DEF Own

LEMMA RecordTokenStep ==
  ASSUME Inv, NEW r \in Request, RecordToken(r)
  PROVE  Inv'
<1>1. /\ Local(r) /\ TablesOK /\ req[r].pc = "record" /\ Answer(r)
      /\ token' = [token EXCEPT ![req[r].token] = "active"]
      /\ UNCHANGED <<enabled, client, by, of, ended>>
  BY DEF Inv, RecordToken, At
<1>2. req[r].token \in Token /\ token[req[r].token] = "issued"
  BY <1>1 DEF Local, Carries, IsFresh, TokenPcs
<1>3. token' \in [Token -> Status]
  BY <1>1 DEF TablesOK, Status
<1>4. Moves(r) /\ Gains(r)
  BY <1>1, <1>2 DEF Moves, Gains, Stored, TablesOK
<1> QED
  BY <1>1, <1>3, <1>4, AnswerKeeps DEF TablesOK

-----------------------------------------------------------------------------
\* A call is let in and marked.

LEMMA MarkTokenStep ==
  ASSUME Inv, NEW r \in Request, MarkToken(r)
  PROVE  Inv'
<1> DEFINE own == req[r].token
<1>1. /\ Local(r) /\ TablesOK /\ req[r].pc = "mark token" /\ UNCHANGED <<tables, ended>>
      /\ holder[own] = None /\ holder' = [holder EXCEPT ![own] = r]
      /\ Goto(r, "mark client")
  BY DEF Inv, MarkToken, At, Lock
<1>2. Frame(r) /\ Keeps(r) /\ req'[r].pc = "mark client" /\ req'[r].want = req[r].want
  BY <1>1, Goes DEF Statement
<1>3. own \in Token /\ own \in Row /\ token[own] \in Stored
  BY <1>1 DEF Local, Carries, TokenPcs, Row
<1>4. LetsBe(r) /\ holder' \in [Row -> Request \cup {None}]
  BY <1>1, <1>3 DEF LetsBe, TablesOK
<1>5. /\ \A row \in Row : holder[row] # r
      /\ req[r].want = {} /\ ~req[r].late
  BY <1>1 DEF Local, Holds, Wants, LateIsOut, InTransaction
<1>6. Local(r)'
  <2>1. Carries(r)' /\ IsFresh(r)'
    BY <1>1, <1>2 DEF Carries, IsFresh, ClientPcs, TokenPcs, Keeps, tables, Local
  <2>2. \A row \in Row : holder'[row] = r => row = own
    BY <1>1, <1>5 DEF TablesOK
  <2>3. Holds(r)'
    BY <1>1, <1>2, <1>3, <2>2 DEF Holds, InTransaction, tables
  <2>4. Wants(r)' /\ LateIsOut(r)' /\ HoldsOwn(r)'
    BY <1>2, <1>5 DEF Wants, LateIsOut, HoldsOwn, Keeps
  <2>5. Sweeps(r)'
    BY <1>1, <1>2 DEF Sweeps, Local, Keeps, tables
  <2> QED
    BY <2>1, <2>3, <2>4, <2>5 DEF Local
<1> QED
  BY <1>1, <1>2, <1>4, <1>6, HolderKeeps

LEMMA MarkClientStep ==
  ASSUME Inv, NEW r \in Request, MarkClient(r)
  PROVE  Inv'
<1>1. /\ Local(r) /\ TablesOK /\ req[r].pc = "mark client" /\ UNCHANGED <<tables, ended>>
      /\ holder' = [row \in Row |-> IF holder[row] = r THEN None ELSE holder[row]]
      /\ Goto(r, "forward")
  BY DEF Inv, MarkClient, At
<1>2. Frame(r) /\ Keeps(r) /\ req'[r].pc = "forward" /\ req'[r].want = req[r].want
  BY <1>1, Goes DEF Statement
<1>3. LetsBe(r) /\ holder' \in [Row -> Request \cup {None}] /\ \A row \in Row : holder'[row] # r
  <2>1. \A row \in Row : holder'[row] = IF holder[row] = r THEN None ELSE holder[row]
    BY <1>1
  <2>2. None \notin Request /\ holder \in [Row -> Request \cup {None}]
    BY <1>1 DEF TablesOK
  <2>3. holder' \in [Row -> Request \cup {None}]
    BY <1>1, <2>2
  <2> QED
    BY <2>1, <2>2, <2>3 DEF LetsBe
<1>4. req[r].want = {} /\ ~req[r].late
  BY <1>1 DEF Local, Wants, LateIsOut
<1>5. Local(r)'
  <2>1. Carries(r)' /\ IsFresh(r)'
    BY <1>1, <1>2 DEF Carries, IsFresh, ClientPcs, TokenPcs, Keeps, tables, Local
  <2>2. Holds(r)'
    BY <1>3 DEF Holds
  <2>3. Wants(r)' /\ LateIsOut(r)' /\ HoldsOwn(r)'
    BY <1>2, <1>4 DEF Wants, LateIsOut, HoldsOwn, Keeps
  <2>4. Sweeps(r)'
    BY <1>1, <1>2 DEF Sweeps, Local, Keeps, tables
  <2> QED
    BY <2>1, <2>2, <2>3, <2>4 DEF Local
<1> QED
  BY <1>1, <1>2, <1>3, <1>5, HolderKeeps

-----------------------------------------------------------------------------
\* The theorems.

LEMMA InitInv == Init => Inv
<1> SUFFICES ASSUME Init PROVE Inv
  OBVIOUS
<1>1. NoRequest \in Asked
  BY DEF NoRequest, Asked, Statement
<1>2. TablesOK
  BY <1>1 DEF Init, TablesOK, Status
<1>3. ASSUME NEW r \in Request PROVE Local(r)
  <2>1. req[r] = NoRequest /\ \A row \in Row : holder[row] # r
    BY DEF Init
  <2> QED
    BY <2>1 DEF NoRequest, Local, Carries, IsFresh, Holds, Wants, Sweeps, HoldsOwn, LateIsOut,
       ClientPcs, TokenPcs
<1>4. Alone
  BY DEF Init, NoRequest, Alone
<1>5. TokensHaveClients /\ EndedIsRevoked
  BY DEF Init, TokensHaveClients, EndedIsRevoked
<1> QED
  BY <1>2, <1>3, <1>4, <1>5 DEF Inv

LEMMA NextInv == Inv /\ [Next]_vars => Inv'
<1> SUFFICES ASSUME Inv, [Next]_vars PROVE Inv'
  OBVIOUS
<1>1. CASE UNCHANGED vars
  <2>1. UNCHANGED <<enabled, client, by, token, of, holder, req, ended>>
    BY <1>1 DEF vars, tables
  <2>2. TablesOK' /\ Alone' /\ TokensHaveClients' /\ EndedIsRevoked'
    BY <2>1 DEF Inv, TablesOK, Alone, TokensHaveClients, EndedIsRevoked
  <2>3. ASSUME NEW r \in Request PROVE Local(r)'
    <3>1. Local(r)
      BY DEF Inv
    <3>2. Carries(r)' /\ IsFresh(r)' /\ Holds(r)'
      BY <2>1, <3>1 DEF Local, Carries, IsFresh, Holds
    <3>3. Wants(r)' /\ Sweeps(r)' /\ HoldsOwn(r)' /\ LateIsOut(r)'
      BY <2>1, <3>1 DEF Local, Wants, Sweeps, Swept, HoldsOwn, LateIsOut
    <3> QED
      BY <3>2, <3>3 DEF Local
  <2> QED
    BY <2>2, <2>3 DEF Inv
<1>2. ASSUME NEW r \in Request,
             \/ Arrivals(r) \/ ReadWorkspace(r) \/ Fail(r) \/ UpdateRow(r)
             \/ Issue(r) \/ Switch(r) \/ End(r) \/ Grant(r) \/ Call(r)
      PROVE  Inv'
  <2>1. CASE Arrivals(r)
    BY <2>1, ArrivalSteps
  <2>2. CASE ReadWorkspace(r)
    BY <2>2, ReadWorkspaceStep
  <2>3. CASE Fail(r)
    BY <2>3, PlainAnswers
  <2>4. CASE UpdateRow(r)
    BY <2>4, UpdateRowStep
  <2>5. CASE Issue(r)
    BY <2>5, QuietSteps, RegisterStep, CreateClientStep DEF Issue
  <2>6. CASE Switch(r)
    BY <2>6, SwitchOnStep, SwitchOffStep, EndClientsStep, EndTokensStep, CommitOffStep DEF Switch
  <2>7. CASE End(r)
    BY <2>7, RevokeClientStep, EndOwnTokensStep, CommitRevokeStep, CancelTokenStep DEF End
  <2>8. CASE Grant(r)
    BY <2>8, QuietSteps, AskGbrainStep, RecordTokenStep DEF Grant
  <2>9. CASE Call(r)
    BY <2>9, QuietSteps, MarkTokenStep, MarkClientStep, PlainAnswers DEF Call
  <2> QED
    BY <1>2, <2>1, <2>2, <2>3, <2>4, <2>5, <2>6, <2>7, <2>8, <2>9
<1> QED
  BY <1>1, <1>2 DEF Next

LEMMA Invariance == Spec => []Inv
BY InitInv, NextInv, PTL DEF Spec

\* Every table, row lock and request keeps its type, and a row is held only by a
\* request whose transaction is open (db.transaction in the two routers).
THEOREM McpTypeCorrect == Spec => []TypeOK
<1>1. Inv => TypeOK
  BY DEF Inv, TablesOK, TypeOK, Local, Holds
<1> QED
  BY <1>1, Invariance, PTL

\* A call with a token that was ended, or whose client was, before the call came
\* is never forwarded to gbrain (findActiveAccessToken of gbrain-public-proxy.ts
\* against the revocations of both routers), whatever runs beside it.
THEOREM EndedStaysCutOff == Spec => []EndedIsCutOff
<1>1. Inv => EndedIsCutOff
  BY DEF Inv, EndedIsCutOff, Local, LateIsOut, At
<1> QED
  BY <1>1, Invariance, PTL

-----------------------------------------------------------------------------
\* Revocations are final.

LEMMA RevokeIsFinal ==
  ASSUME Inv, NEW rows, Revoke(rows), UNCHANGED <<by, of>>, ended \subseteq ended'
  PROVE  Finality
BY DEF Revoke, Finality, Inv, TablesOK

LEMMA StepIsFinal ==
  ASSUME Inv, NEW r \in Request,
         \/ Arrivals(r) \/ ReadWorkspace(r) \/ Fail(r) \/ UpdateRow(r)
         \/ Issue(r) \/ Switch(r) \/ End(r) \/ Grant(r) \/ Call(r)
  PROVE  Finality
<1> USE DEF Finality
<1>1. TablesOK /\ Local(r)
  BY DEF Inv
<1>2. CASE UNCHANGED <<client, by, token, of, ended>>
  BY <1>2
<1>3. CASE Arrivals(r) \/ ReadWorkspace(r) \/ Fail(r) \/ UpdateRow(r) \/ Call(r)
  BY <1>2, <1>3 DEF Arrivals, ManagerArrives, ClientArrives, TokenArrives, Arrive, ReadWorkspace, Fail,
     UpdateRow, Call, Admit, MarkToken, MarkClient, Forward, tables
<1>4. CASE Issue(r)
  <2>1. CASE CheckClaim(r)
    BY <1>2, <2>1 DEF CheckClaim, tables
  <2>2. CASE Register(r)
    <3>1. PICK c \in Client : client[c] = "none" /\ client' = [client EXCEPT ![c] = "issued"]
      BY <2>2 DEF Register
    <3> QED
      BY <1>1, <2>2, <3>1 DEF Register, TablesOK
  <2>3. CASE CreateClient(r)
    <3>1. /\ client[req[r].client] = "issued"
          /\ client' = [client EXCEPT ![req[r].client] = "active"]
          /\ by' = [by EXCEPT ![req[r].client] = req[r].user]
          /\ UNCHANGED <<token, of, ended>>
      BY <1>1, <2>3 DEF CreateClient, At, Local, IsFresh
    <3> QED
      BY <1>1, <3>1 DEF TablesOK, Registered
  <2> QED
    BY <1>4, <2>1, <2>2, <2>3 DEF Issue
<1>5. CASE Switch(r)
  <2>1. CASE CommitOff(r)
    BY <2>1, RevokeIsFinal DEF CommitOff
  <2> QED
    BY <1>2, <1>5, <2>1 DEF Switch, SwitchOn, SwitchOff, EndClients, EndTokens, Choose, tables
<1>6. CASE End(r)
  <2>1. CASE CommitRevoke(r)
    BY <2>1, RevokeIsFinal DEF CommitRevoke
  <2>2. CASE CancelToken(r)
    BY <1>1, <2>2 DEF CancelToken, TablesOK
  <2> QED
    BY <1>2, <1>6, <2>1, <2>2 DEF End, RevokeClient, EndOwnTokens, Choose, tables
<1>7. CASE Grant(r)
  <2>1. CASE AskGbrain(r)
    <3>1. PICK t \in Token : /\ token[t] = "none" /\ token' = [token EXCEPT ![t] = "issued"]
                             /\ of' = [of EXCEPT ![t] = req[r].client]
      BY <2>1 DEF AskGbrain
    <3> QED
      BY <1>1, <2>1, <3>1 DEF AskGbrain, TablesOK, Recorded
  <2>2. CASE RecordToken(r)
    <3>1. /\ token[req[r].token] = "issued"
          /\ token' = [token EXCEPT ![req[r].token] = "active"]
          /\ UNCHANGED <<client, by, of, ended>>
      BY <1>1, <2>2 DEF RecordToken, At, Local, IsFresh
    <3> QED
      BY <1>1, <3>1 DEF TablesOK
  <2> QED
    BY <1>2, <1>7, <2>1, <2>2 DEF Grant, FindActiveClient, tables
<1> QED
  BY <1>3, <1>4, <1>5, <1>6, <1>7

\* However requests that looked before a revocation go on after it, none of their
\* writes undoes it, or moves a stored token to another client, or a client to
\* another member.
THEOREM RevocationsAreFinal == Spec => RevocationIsFinal
<1>1. Inv /\ [Next]_vars => [Finality]_vars
  BY StepIsFinal DEF Next
<1> QED
  BY <1>1, Invariance, PTL DEF Spec, RevocationIsFinal
=============================================================================
