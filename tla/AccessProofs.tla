---------------------------- MODULE AccessProofs ----------------------------
(***************************************************************************)
(* Proofs about Access, for any number of accounts, sessions, requests,    *)
(* webhooks, keys and failures.  Accounts never move and rows are only     *)
(* added, so what a request found out about its session stays true until   *)
(* it writes, whatever ends the session in between.                        *)
(***************************************************************************)
EXTENDS Access, TLAPS

AllWorkspaces == Workspaces \union {NoWorkspace}
Bound == [pc : {"bound"}, token : Tokens, op : Ops, ws : AllWorkspaces]
Verified == [pc : {"verified", "recorded"}, ws : Workspaces, secret : Secrets \union {EnvSecret}]
Settings == [secret : Secrets, key : Keys]

-----------------------------------------------------------------------------
(* Types.                                                                  *)

\* What the fields of an operation, a request and a webhook are in each state.
LEMMA Records ==
    ASSUME TypeOK
    PROVE  /\ \A op \in Ops : /\ op.kind \in {"rule", "connect", "requeue"}
                              /\ op.kind = "connect" => op.secret \in Secrets
                              /\ op.kind = "requeue" => op.ws \in Workspaces
           /\ \A r \in Requests : /\ req[r].pc \in {"authorized", "bound"}
                                       => req[r].token \in Tokens /\ req[r].op \in Ops
                                  /\ req[r].pc = "bound" => req[r].ws \in AllWorkspaces
           /\ \A h \in Hooks : hook[h].pc \in {"verified", "recorded"}
                                 => hook[h] \in Verified
<1>1. ASSUME NEW op \in Ops
      PROVE  /\ op.kind \in {"rule", "connect", "requeue"}
             /\ op.kind = "connect" => op.secret \in Secrets
             /\ op.kind = "requeue" => op.ws \in Workspaces
  BY <1>1 DEF Ops
<1>2. ASSUME NEW r \in Requests
      PROVE  /\ req[r].pc \in {"authorized", "bound"} => req[r].token \in Tokens /\ req[r].op \in Ops
             /\ req[r].pc = "bound" => req[r].ws \in AllWorkspaces
  <2> DEFINE x == req[r]
  <2>1. x \in [pc : {"new", "done"}] \/ x \in Asked({"authorized"}) \/ x \in Bound
    BY DEF TypeOK, Bound, AllWorkspaces
  <2> HIDE DEF x
  <2>2. /\ x.pc \in {"authorized", "bound"} => x.token \in Tokens /\ x.op \in Ops
        /\ x.pc = "bound" => x.ws \in AllWorkspaces
    BY <2>1 DEF Asked, Bound
  <2> QED BY <2>2 DEF x
<1>3. ASSUME NEW h \in Hooks, hook[h].pc \in {"verified", "recorded"}
      PROVE  hook[h] \in Verified
  <2> DEFINE x == hook[h]
  <2>1. x \in [pc : {"new", "refused"}] \/ x \in Verified
    BY DEF TypeOK, Verified
  <2>2. x.pc \in {"verified", "recorded"}
    BY <1>3
  <2> HIDE DEF x
  <2>3. x \in Verified
    BY <2>1, <2>2
  <2> QED BY <2>3 DEF x
<1> QED BY <1>1, <1>2, <1>3

\* A session, once issued, has a user with a workspace, and so does a request that
\* was authorized with it.
SessionInv ==
    /\ \A t \in Tokens : owner[t] # NoUser => account[owner[t]] # NoWorkspace
    /\ \A r \in Requests : req[r].pc \in {"authorized", "bound"} => Caller(r) # NoUser

\* A request goes to its caller's workspace or to none.
BoundInv ==
    \A r \in Requests : req[r].pc = "bound" => req[r].ws \in {account[Caller(r)], NoWorkspace}

RowInv == \A row \in Rows : account[row.by] # NoWorkspace

\* The row of a connection is the last one saved for its workspace.
ConnectionInv ==
    \A w \in AllWorkspaces :
        /\ connection[w] # NoConnection
             => \E c \in saved : c.ws = w /\ c.secret = connection[w].secret
        /\ (\E c \in saved : c.ws = w) => connection[w] # NoConnection

Signed(w, s) == \/ \E c \in saved : c.ws = w /\ c.secret = s /\ account[c.by] = w
                \/ w = Default /\ s = EnvSecret
HookInv == \A h \in Hooks : hook[h].pc \in {"verified", "recorded"}
                              => Signed(hook[h].ws, hook[h].secret)

IInv == /\ TypeOK /\ SessionInv /\ BoundInv /\ RowInv /\ StoredInNoOtherWorkspace
        /\ ConnectionInv /\ HookInv

\* Initially the types hold and nothing is stored or asked.
LEMMA InitInv == ASSUME AccessInit PROVE IInv
<1> USE AccessAssumption DEF AccessInit
<1>1. TypeOK
  <2>1. 0 \in 0..MaxFaults
    BY AccessAssumption
  <2> QED BY <2>1 DEF TypeOK
<1>2. SessionInv /\ BoundInv
  BY DEF SessionInv, BoundInv
<1>3. RowInv /\ StoredInNoOtherWorkspace
  BY DEF RowInv, StoredInNoOtherWorkspace, Rows
<1>4. ConnectionInv
  BY DEF ConnectionInv, AllWorkspaces
<1>5. HookInv
  BY DEF HookInv
<1> QED BY <1>1, <1>2, <1>3, <1>4, <1>5 DEF IInv

-----------------------------------------------------------------------------
(* What each invariant depends on.                                         *)

\* Sessions and requests stand as long as nobody touches them.
LEMMA SessionFrame ==
    ASSUME SessionInv, BoundInv, UNCHANGED <<account, owner, req>>
    PROVE  SessionInv' /\ BoundInv'
BY DEF SessionInv, BoundInv, Caller

\* Rows stay with their workspaces as long as none is added.
LEMMA RowFrame ==
    ASSUME RowInv, StoredInNoOtherWorkspace, UNCHANGED <<account, rules, requeued, saved>>
    PROVE  RowInv' /\ StoredInNoOtherWorkspace'
BY DEF RowInv, StoredInNoOtherWorkspace, Rows

\* Connections stay what was saved last.
LEMMA ConnectionFrame ==
    ASSUME ConnectionInv, UNCHANGED <<saved, connection>>
    PROVE  ConnectionInv'
BY DEF ConnectionInv

\* Verified webhooks stay signed.
LEMMA HookFrame ==
    ASSUME HookInv, UNCHANGED <<account, saved, hook>>
    PROVE  HookInv'
BY DEF HookInv, Signed

-----------------------------------------------------------------------------
(* Accounts and sessions.                                                  *)

\* A new account takes nothing from the others.
LEMMA SignupStep ==
    ASSUME IInv, NEW u \in Users, NEW w \in Workspaces, Signup(u, w)
    PROVE  IInv'
<1> USE AccessAssumption DEF IInv
<1>1. TypeOK'
  BY DEF TypeOK, Signup, CreatePendingUser, storeVars
<1>2. \A v \in Users : account[v] # NoWorkspace => account'[v] = account[v]
  BY DEF TypeOK, Signup, CreatePendingUser
<1>3. UNCHANGED <<owner, req, hook, rules, requeued, saved, connection>>
  BY DEF Signup, CreatePendingUser, storeVars
<1>4. SessionInv'
  <2>1. \A t \in Tokens : owner[t] # NoUser => account'[owner[t]] # NoWorkspace
    BY <1>2 DEF SessionInv, TypeOK
  <2> QED BY <2>1, <1>3 DEF SessionInv, Caller
<1>5. BoundInv'
  <2> SUFFICES ASSUME NEW r \in Requests, req[r].pc = "bound"
               PROVE  req[r].ws \in {account'[Caller(r)], NoWorkspace}
    BY <1>3 DEF BoundInv, Caller
  <2>1. req[r].token \in Tokens /\ Caller(r) # NoUser
    BY Records DEF SessionInv
  <2>2. Caller(r) \in Users /\ account[Caller(r)] # NoWorkspace
    BY <2>1 DEF SessionInv, TypeOK, Caller
  <2> QED BY <2>2, <1>2 DEF BoundInv
<1>6. RowInv' /\ StoredInNoOtherWorkspace'
  <2>1. \A row \in Rows : row.by \in Users
    BY DEF Rows, TypeOK
  <2>2. Rows' = Rows
    BY <1>3 DEF Rows
  <2>3. \A row \in Rows : account'[row.by] = account[row.by]
    BY <2>1, <1>2 DEF RowInv
  <2> QED BY <2>2, <2>3 DEF RowInv, StoredInNoOtherWorkspace
<1>7. ConnectionInv'
  BY <1>3, ConnectionFrame
<1>8. HookInv'
  <2> SUFFICES ASSUME NEW h \in Hooks, hook[h].pc \in {"verified", "recorded"}
               PROVE  Signed(hook[h].ws, hook[h].secret)'
    BY <1>3 DEF HookInv
  <2>1. hook[h].ws \in Workspaces
    BY Records DEF Verified
  <2>2. Signed(hook[h].ws, hook[h].secret)
    BY DEF HookInv
  <2>3. \A c \in saved : c.by \in Users
    BY DEF TypeOK
  <2> QED BY <2>1, <2>2, <2>3, <1>2, <1>3 DEF Signed
<1> QED BY <1>1, <1>4, <1>5, <1>6, <1>7, <1>8

\* A new session takes a token that no request holds.
LEMMA LoginStep ==
    ASSUME IInv, NEW u \in Users, NEW t \in Tokens, Login(u, t)
    PROVE  IInv'
<1> USE AccessAssumption DEF IInv
<1>1. TypeOK'
  BY DEF TypeOK, Login, IssueSession, storeVars
<1>2. UNCHANGED <<account, req, hook, rules, requeued, saved, connection>>
  BY DEF Login, IssueSession, storeVars
<1>3. owner' = [owner EXCEPT ![t] = u] /\ owner[t] = NoUser /\ account[u] # NoWorkspace
  BY DEF Login, IssueSession
<1>4. \A r \in Requests : req[r].pc \in {"authorized", "bound"}
                            => Caller(r)' = Caller(r) /\ Caller(r) # NoUser
  BY <1>2, <1>3, Records DEF TypeOK, SessionInv, Caller
<1>5. SessionInv'
  <2>1. \A s \in Tokens : owner'[s] # NoUser => account[owner'[s]] # NoWorkspace
    BY <1>3 DEF SessionInv, TypeOK
  <2> QED BY <2>1, <1>2, <1>4 DEF SessionInv
<1>6. BoundInv'
  BY <1>2, <1>4 DEF BoundInv
<1> QED BY <1>1, <1>2, <1>5, <1>6, RowFrame, ConnectionFrame, HookFrame

-----------------------------------------------------------------------------
(* Administration requests.                                                *)

\* A request changes in one place only.
LEMMA RequestStep ==
    ASSUME TypeOK, SessionInv, BoundInv, NEW r \in Requests, UNCHANGED <<account, owner>>,
           NEW x, req' = [req EXCEPT ![r] = x],
           x.pc \in {"authorized", "bound"} => owner[x.token] # NoUser,
           x.pc = "bound" => x.ws \in {account[owner[x.token]], NoWorkspace}
    PROVE  SessionInv' /\ BoundInv'
<1>1. req'[r] = x /\ \A q \in Requests \ {r} : req'[q] = req[q]
  BY DEF TypeOK
<1>2. SessionInv'
  <2>1. \A q \in Requests : req'[q].pc \in {"authorized", "bound"} => owner[req'[q].token] # NoUser
    BY <1>1 DEF SessionInv, Caller
  <2> QED BY <2>1 DEF SessionInv, Caller
<1>3. BoundInv'
  <2>1. \A q \in Requests : req'[q].pc = "bound"
                              => req'[q].ws \in {account[owner[req'[q].token]], NoWorkspace}
    BY <1>1 DEF BoundInv, Caller
  <2> QED BY <2>1 DEF BoundInv, Caller
<1> QED BY <1>2, <1>3

\* Authorization needs a session, and so a user.
LEMMA AuthorizeStep ==
    ASSUME IInv, NEW r \in Requests, NEW t \in Tokens, NEW op \in Ops, Authorize(r, t, op)
    PROVE  IInv'
<1> DEFINE x == [pc |-> "authorized", token |-> t, op |-> op]
<1>1. /\ req' = [req EXCEPT ![r] = x]
      /\ UNCHANGED <<account, owner, ended, rules, requeued, saved, connection, key, hook, faults>>
  BY DEF Authorize, accountVars, storeVars
<1>2. TypeOK'
  <2>1. x \in Asked({"authorized"})
    BY DEF Asked
  <2> HIDE DEF x
  <2> QED BY <1>1, <2>1 DEF IInv, TypeOK
<1>3. owner[t] # NoUser
  BY DEF Authorize, Live
<1>4. SessionInv' /\ BoundInv'
  <2>1. /\ x.pc = "authorized"
        /\ x.token = t
    OBVIOUS
  <2> HIDE DEF x
  <2> QED BY <1>1, <1>3, <2>1, RequestStep DEF IInv
<1> QED BY <1>1, <1>2, <1>4, RowFrame, ConnectionFrame, HookFrame DEF IInv

\* The second look at the session gives the caller's workspace or none.
LEMMA WorkspaceStep ==
    ASSUME IInv, NEW r \in Requests, WorkspaceID(r)
    PROVE  IInv'
<1>1. PICK w \in {account[Caller(r)], NoWorkspace} : Bind(r, w)
  BY DEF WorkspaceID, Caller
<1> DEFINE x == [pc |-> "bound", token |-> req[r].token, op |-> req[r].op, ws |-> w]
<1>2. /\ req' = [req EXCEPT ![r] = x]
      /\ UNCHANGED <<account, owner, ended, rules, requeued, saved, connection, key, hook>>
      /\ req[r].pc = "authorized"
      /\ faults' = faults \/ Fault
  BY <1>1 DEF WorkspaceID, Bind, accountVars, storeVars
<1>3. req[r].token \in Tokens /\ req[r].op \in Ops /\ Caller(r) # NoUser
  BY <1>2, Records DEF IInv, SessionInv
<1>4. w \in AllWorkspaces
  BY <1>3 DEF IInv, TypeOK, Caller, AllWorkspaces
<1>5. TypeOK'
  <2>1. x \in Bound
    BY <1>3, <1>4 DEF Bound
  <2>2. faults' \in 0..MaxFaults
    BY <1>2, AccessAssumption DEF IInv, TypeOK, Fault
  <2> HIDE DEF x
  <2> QED BY <1>2, <2>1, <2>2 DEF IInv, TypeOK, Bound, AllWorkspaces
<1>6. SessionInv' /\ BoundInv'
  <2>1. x.pc = "bound" /\ x.token = req[r].token /\ x.ws = w
    OBVIOUS
  <2> HIDE DEF x
  <2> QED BY <1>1, <1>2, <1>3, <2>1, RequestStep DEF IInv, Caller
<1> QED BY <1>2, <1>5, <1>6, RowFrame, ConnectionFrame, HookFrame DEF IInv

\* A request that has finished is of no account any more.
LEMMA FinishStep ==
    ASSUME IInv, NEW r \in Requests, Finish(r), UNCHANGED <<account, owner>>
    PROVE  /\ SessionInv' /\ BoundInv'
           /\ req' \in [Requests -> [pc : {"new", "done"}] \union Asked({"authorized"})
                          \union [pc : {"bound"}, token : Tokens, op : Ops, ws : AllWorkspaces]]
<1> DEFINE x == [pc |-> "done"]
<1>1. req' = [req EXCEPT ![r] = x] /\ x.pc = "done" /\ x \in [pc : {"new", "done"}]
  BY DEF Finish
<1> HIDE DEF x
<1>2. SessionInv' /\ BoundInv'
  BY <1>1, RequestStep DEF IInv
<1> QED BY <1>1, <1>2 DEF IInv, TypeOK, AllWorkspaces

\* Who writes for a request is a user with an account, in that workspace or none.
LEMMA WriterIsBound ==
    ASSUME IInv, NEW r \in Requests, req[r].pc = "bound"
    PROVE  /\ Caller(r) \in Users /\ account[Caller(r)] # NoWorkspace
           /\ req[r].ws \in AllWorkspaces
           /\ req[r].ws \in {account[Caller(r)], NoWorkspace}
           /\ req[r].op \in Ops
<1>1. req[r].token \in Tokens /\ req[r].op \in Ops /\ Caller(r) # NoUser /\ req[r].ws \in AllWorkspaces
  BY Records DEF IInv, SessionInv
<1> QED BY <1>1 DEF IInv, SessionInv, BoundInv, TypeOK, Caller

\* The rule belongs to the workspace of the request.
LEMMA CreateRuleStep ==
    ASSUME IInv, NEW r \in Requests, CreateRule(r)
    PROVE  IInv'
<1> DEFINE row == [ws |-> req[r].ws, by |-> Caller(r)]
<1>1. /\ rules' = rules \union {row} /\ Finish(r) /\ req[r].pc = "bound"
      /\ UNCHANGED <<account, owner, ended, requeued, saved, connection, key, hook, faults>>
  BY DEF CreateRule, accountVars
<1>2. /\ row \in [ws : AllWorkspaces, by : Users]
      /\ row.ws \in {account[row.by], NoWorkspace} /\ account[row.by] # NoWorkspace
  BY <1>1, WriterIsBound
<1> HIDE DEF row
<1>3. SessionInv' /\ BoundInv'
  BY <1>1, FinishStep
<1>4. TypeOK'
  BY <1>1, <1>2, FinishStep DEF IInv, TypeOK, AllWorkspaces
<1>5. RowInv' /\ StoredInNoOtherWorkspace'
  <2>1. Rows' = Rows \union {row}
    BY <1>1 DEF Rows
  <2> QED BY <1>1, <1>2, <2>1 DEF IInv, RowInv, StoredInNoOtherWorkspace
<1> QED BY <1>1, <1>3, <1>4, <1>5, ConnectionFrame, HookFrame DEF IInv

\* A dead letter is found only in the workspace of the request.
LEMMA RequeueStep ==
    ASSUME IInv, NEW r \in Requests, PrepareReprocess(r)
    PROVE  IInv'
<1> DEFINE row == [ws |-> req[r].op.ws, by |-> Caller(r)]
<1>1. /\ requeued' = IF req[r].op.ws = req[r].ws THEN requeued \union {row} ELSE requeued
      /\ Finish(r) /\ req[r].pc = "bound" /\ req[r].op.kind = "requeue"
      /\ UNCHANGED <<account, owner, ended, rules, saved, connection, key, hook, faults>>
  BY DEF PrepareReprocess, accountVars
<1>2. /\ row \in [ws : Workspaces, by : Users]
      /\ account[row.by] # NoWorkspace
      /\ req[r].op.ws = req[r].ws => row.ws \in {account[row.by], NoWorkspace}
  BY <1>1, WriterIsBound, Records DEF IInv
<1> HIDE DEF row
<1>3. SessionInv' /\ BoundInv'
  BY <1>1, FinishStep
<1>4. TypeOK'
  BY <1>1, <1>2, FinishStep DEF IInv, TypeOK, AllWorkspaces
<1>5. RowInv' /\ StoredInNoOtherWorkspace'
  <2>1. Rows' = Rows \/ (Rows' = Rows \union {row} /\ req[r].op.ws = req[r].ws)
    BY <1>1 DEF Rows
  <2> QED BY <1>1, <1>2, <2>1 DEF IInv, RowInv, StoredInNoOtherWorkspace
<1> QED BY <1>1, <1>3, <1>4, <1>5, ConnectionFrame, HookFrame DEF IInv
\* The connection that replaces the workspace's is among the saved ones.
LEMMA SaveConnectionStep ==
    ASSUME IInv, NEW r \in Requests, SaveConnection(r)
    PROVE  IInv'
<1> DEFINE c == [ws |-> req[r].ws, secret |-> req[r].op.secret, by |-> Caller(r)]
           setting == [secret |-> req[r].op.secret, key |-> key]
           row == [ws |-> req[r].ws, by |-> Caller(r)]
<1>1. /\ connection' = [connection EXCEPT ![req[r].ws] = setting]
      /\ saved' = saved \union {c}
      /\ Finish(r) /\ req[r].pc = "bound" /\ req[r].op.kind = "connect"
      /\ UNCHANGED <<account, owner, ended, rules, requeued, key, hook, faults>>
  BY DEF SaveConnection, EncryptSecret, accountVars
<1>2. /\ req[r].ws \in AllWorkspaces /\ req[r].op.secret \in Secrets /\ Caller(r) \in Users
      /\ account[Caller(r)] # NoWorkspace
      /\ req[r].ws \in {account[Caller(r)], NoWorkspace}
  BY <1>1, WriterIsBound, Records DEF IInv
<1>3. /\ c \in [ws : AllWorkspaces, secret : Secrets, by : Users]
      /\ c.ws = req[r].ws /\ c.secret = req[r].op.secret /\ c.by = Caller(r)
  BY <1>2
<1>4. setting \in Settings /\ setting.secret = req[r].op.secret /\ setting # NoConnection
  <2>1. key \in Keys
    BY DEF IInv, TypeOK
  <2>2. NoConnection.secret = NoSecret /\ setting.secret # NoSecret
    BY <1>2, AccessAssumption DEF NoConnection
  <2> QED BY <1>2, <2>1, <2>2 DEF Settings
<1>5. row.ws = req[r].ws /\ row.by = Caller(r)
  OBVIOUS
<1>6. Rows' = Rows \union {row}
  <2> DEFINE Row(d) == [ws |-> d.ws, by |-> d.by]
  <2>1. Row(c) = row
    OBVIOUS
  <2> HIDE DEF c
  <2>2. {Row(d) : d \in saved \union {c}} = {Row(d) : d \in saved} \union {Row(c)}
    OBVIOUS
  <2> QED BY <1>1, <2>1, <2>2 DEF Rows
<1> HIDE DEF c, setting, row
<1>7. SessionInv' /\ BoundInv'
  BY <1>1, FinishStep
<1>8. TypeOK'
  BY <1>1, <1>2, <1>3, <1>4, FinishStep DEF IInv, TypeOK, AllWorkspaces, Settings
<1>9. RowInv' /\ StoredInNoOtherWorkspace'
  BY <1>1, <1>2, <1>5, <1>6 DEF IInv, RowInv, StoredInNoOtherWorkspace
<1>10. ConnectionInv'
  <2> SUFFICES ASSUME NEW w \in AllWorkspaces
               PROVE  /\ connection'[w] # NoConnection
                           => \E d \in saved' : d.ws = w /\ d.secret = connection'[w].secret
                      /\ (\E d \in saved' : d.ws = w) => connection'[w] # NoConnection
    BY DEF ConnectionInv
  <2>1. connection'[w] = IF w = req[r].ws THEN setting ELSE connection[w]
    BY <1>1, <1>2 DEF IInv, TypeOK, AllWorkspaces
  <2>2. CASE w = req[r].ws
    BY <2>1, <2>2, <1>1, <1>3, <1>4
  <2>3. CASE w # req[r].ws
    BY <2>1, <2>3, <1>1, <1>3 DEF IInv, ConnectionInv
  <2> QED BY <2>2, <2>3
<1>11. HookInv'
  BY <1>1 DEF IInv, HookInv, Signed
<1> QED BY <1>7, <1>8, <1>9, <1>10, <1>11 DEF IInv

\* A request that fails leaves no row.
LEMMA AbortStep ==
    ASSUME IInv, NEW r \in Requests, Abort(r)
    PROVE  IInv'
<1>1. /\ Finish(r) /\ Fault
      /\ UNCHANGED <<account, owner, ended, rules, requeued, saved, connection, key, hook>>
  BY DEF Abort, accountVars, storeVars
<1>2. faults' \in 0..MaxFaults
  BY <1>1, AccessAssumption DEF IInv, TypeOK, Fault
<1>3. TypeOK'
  BY <1>1, <1>2, FinishStep DEF IInv, TypeOK, AllWorkspaces
<1> QED BY <1>1, <1>3, FinishStep, RowFrame, ConnectionFrame, HookFrame DEF IInv

-----------------------------------------------------------------------------
(* Webhooks.                                                               *)

\* What verifies a webhook was saved for its workspace, or is the environment's.
LEMMA VerifiedIsSigned ==
    ASSUME IInv, NEW w \in Workspaces, NEW s \in Secrets \union {EnvSecret}, s = SecretFor(w)
    PROVE  Signed(w, s)
<1> USE AccessAssumption
<1>1. s # NoSecret
  OBVIOUS
<1>2. CASE Decrypted(connection[w])
  <2>1. PICK c \in saved : c.ws = w /\ c.secret = connection[w].secret
    BY <1>2 DEF IInv, ConnectionInv, Decrypted, AllWorkspaces
  <2>2. [ws |-> c.ws, by |-> c.by] \in Rows
    BY <2>1 DEF Rows
  <2>3. account[c.by] = w
    BY <2>1, <2>2 DEF IInv, StoredInNoOtherWorkspace
  <2> QED BY <1>2, <2>1, <2>3 DEF Signed, SecretFor
<1>3. CASE ~Decrypted(connection[w])
  BY <1>1, <1>3 DEF Signed, SecretFor
<1> QED BY <1>2, <1>3

\* A webhook is verified with such a secret or refused.
LEMMA VerifyStep ==
    ASSUME IInv, NEW h \in Hooks, NEW w \in Workspaces, NEW s \in Secrets \union {EnvSecret},
           VerifyWebhook(h, w, s)
    PROVE  IInv'
<1>1. /\ UNCHANGED <<account, owner, ended, rules, requeued, saved, connection, req, key>>
      /\ faults' = faults \/ Fault
  BY DEF VerifyWebhook, VerifyWithSecret, SignedWith, accountVars, storeVars
<1>2. faults' \in 0..MaxFaults
  BY <1>1, AccessAssumption DEF IInv, TypeOK, Fault
<1>3. CASE /\ s = SecretFor(w)
           /\ hook' = [hook EXCEPT ![h] = [pc |-> "verified", ws |-> w, secret |-> s]]
  <2> DEFINE x == [pc |-> "verified", ws |-> w, secret |-> s]
  <2>1. x \in Verified /\ x.ws = w /\ x.secret = s
    BY DEF Verified
  <2>2. hook' = [hook EXCEPT ![h] = x]
    BY <1>3
  <2> HIDE DEF x
  <2>3. TypeOK'
    BY <1>1, <1>2, <2>1, <2>2 DEF IInv, TypeOK, Verified
  <2>4. HookInv'
    <3>1. Signed(w, s)
      BY <1>3, VerifiedIsSigned
    <3>2. hook'[h] = x /\ \A g \in Hooks \ {h} : hook'[g] = hook[g]
      BY <2>2 DEF IInv, TypeOK
    <3> QED BY <1>1, <2>1, <3>1, <3>2 DEF IInv, HookInv, Signed
  <2> QED BY <1>1, <2>3, <2>4, SessionFrame, RowFrame, ConnectionFrame DEF IInv
<1>4. CASE hook' = [hook EXCEPT ![h] = [pc |-> "refused"]]
  <2> DEFINE x == [pc |-> "refused"]
  <2>1. hook' = [hook EXCEPT ![h] = x] /\ x.pc = "refused" /\ x \in [pc : {"new", "refused"}]
    BY <1>4
  <2> HIDE DEF x
  <2>2. TypeOK'
    BY <1>1, <1>2, <2>1 DEF IInv, TypeOK
  <2>3. HookInv'
    <3>1. hook'[h] = x /\ \A g \in Hooks \ {h} : hook'[g] = hook[g]
      BY <2>1 DEF IInv, TypeOK
    <3> QED BY <1>1, <2>1, <3>1 DEF IInv, HookInv, Signed
  <2> QED BY <1>1, <2>2, <2>3, SessionFrame, RowFrame, ConnectionFrame DEF IInv
<1> QED BY <1>3, <1>4 DEF VerifyWebhook, VerifyWithSecret, SignedWith

\* What is recorded was verified.
LEMMA RecordStep ==
    ASSUME IInv, NEW h \in Hooks, RecordWebhook(h)
    PROVE  IInv'
<1> DEFINE x == [hook[h] EXCEPT !.pc = "recorded"]
<1>1. /\ hook' = [hook EXCEPT ![h] = x]
      /\ UNCHANGED <<account, owner, ended, rules, requeued, saved, connection, req, key, faults>>
      /\ hook[h].pc = "verified"
  BY DEF RecordWebhook, accountVars, storeVars
<1>2. hook[h] \in Verified
  BY <1>1, Records DEF IInv
<1>3. x \in Verified /\ x.ws = hook[h].ws /\ x.secret = hook[h].secret
  BY <1>2 DEF Verified
<1> HIDE DEF x
<1>4. TypeOK'
  BY <1>1, <1>3 DEF IInv, TypeOK, Verified
<1>5. HookInv'
  <2>1. hook'[h] = x /\ \A g \in Hooks \ {h} : hook'[g] = hook[g]
    BY <1>1 DEF IInv, TypeOK
  <2> QED BY <1>1, <1>3, <2>1 DEF IInv, HookInv, Signed
<1> QED BY <1>1, <1>4, <1>5, SessionFrame, RowFrame, ConnectionFrame DEF IInv

-----------------------------------------------------------------------------
\* Every step keeps the invariant.
LEMMA StepInv ==
    ASSUME IInv, [AccessNext]_accessVars
    PROVE  IInv'
<1>1. ASSUME NEW t \in Tokens, EndSession(t) PROVE IInv'
  <2>1. UNCHANGED <<account, owner, rules, requeued, saved, connection, req, key, hook, faults>>
    BY <1>1 DEF EndSession, storeVars
  <2>2. TypeOK'
    BY <1>1, <2>1 DEF IInv, TypeOK, EndSession
  <2> QED BY <2>1, <2>2, SessionFrame, RowFrame, ConnectionFrame, HookFrame DEF IInv
<1>2. ASSUME NEW k \in Keys, ChangeKey(k) PROVE IInv'
  <2>1. UNCHANGED <<account, owner, ended, rules, requeued, saved, connection, req, hook, faults>>
    BY <1>2 DEF ChangeKey, accountVars, storeVars
  <2>2. TypeOK'
    BY <1>2, <2>1 DEF IInv, TypeOK, ChangeKey
  <2> QED BY <2>1, <2>2, SessionFrame, RowFrame, ConnectionFrame, HookFrame DEF IInv
<1>3. CASE UNCHANGED accessVars
  <2>1. UNCHANGED <<account, owner, ended, rules, requeued, saved, connection, req, key, hook, faults>>
    BY <1>3 DEF accessVars, accountVars, storeVars
  <2>2. TypeOK'
    BY <2>1 DEF IInv, TypeOK
  <2> QED BY <2>1, <2>2, SessionFrame, RowFrame, ConnectionFrame, HookFrame DEF IInv
<1>4. ASSUME NEW r \in Requests, AdminStep(r) PROVE IInv'
  BY <1>4, AuthorizeStep, WorkspaceStep, CreateRuleStep, SaveConnectionStep, RequeueStep, AbortStep
     DEF AdminStep
<1>5. ASSUME NEW h \in Hooks, HookStep(h) PROVE IInv'
  BY <1>5, VerifyStep, RecordStep DEF HookStep
<1> QED BY <1>1, <1>2, <1>3, <1>4, <1>5, SignupStep, LoginStep DEF AccessNext

\* The invariant holds in every reachable state.
THEOREM Invariant == AccessSpec => []IInv
<1>1. AccessInit => IInv
  BY InitInv
<1>2. IInv /\ [AccessNext]_accessVars => IInv'
  BY StepInv
<1> QED BY <1>1, <1>2, PTL DEF AccessSpec

\* Every variable of Access keeps its type.
THEOREM TypeCorrect == AccessSpec => []TypeOK
<1>1. IInv => TypeOK
  BY DEF IInv
<1> QED BY <1>1, Invariant, PTL

\* No request stores anything in the workspace of another account.
THEOREM WorkspaceSafety == AccessSpec => []StoredInNoOtherWorkspace
<1>1. IInv => StoredInNoOtherWorkspace
  BY DEF IInv
<1> QED BY <1>1, Invariant, PTL

\* Every recorded webhook was signed with a secret of its own workspace.
THEOREM SignatureSafety == AccessSpec => []RecordedIsSigned
<1>1. IInv => RecordedIsSigned
  BY DEF IInv, HookInv, Signed, RecordedIsSigned
<1> QED BY <1>1, Invariant, PTL

\* No step verifies a webhook of a workspace with a connection by the environment.
THEOREM EnvironmentSafety == AccessSpec => EnvironmentIsReplaced
<1> DEFINE Replaced == \A h \in Hooks :
                         /\ hook[h].pc = "new" /\ hook'[h].pc = "verified"
                         /\ \E c \in saved : c.ws = hook'[h].ws
                         => hook'[h].secret # EnvSecret
<1>1. IInv /\ [AccessNext]_accessVars => [Replaced]_accessVars
  <2> SUFFICES ASSUME IInv, AccessNext, NEW h \in Hooks,
                      hook[h].pc = "new", hook'[h].pc = "verified",
                      NEW c \in saved, c.ws = hook'[h].ws
               PROVE  hook'[h].secret # EnvSecret
    OBVIOUS
  <2>1. PICK g \in Hooks, w \in Workspaces, s \in Secrets \union {EnvSecret} : VerifyWebhook(g, w, s)
    <3>1. CASE \E g \in Hooks : HookStep(g)
      <4>1. PICK g \in Hooks : HookStep(g)
        BY <3>1
      <4>2. ~RecordWebhook(g)
        BY DEF RecordWebhook, IInv, TypeOK
      <4> QED BY <4>1, <4>2 DEF HookStep
    <3>2. CASE ~\E g \in Hooks : HookStep(g)
      <4>1. hook' = hook
        BY <3>2 DEF AccessNext, AdminStep, Signup, CreatePendingUser, Login, IssueSession,
                    EndSession, Authorize, WorkspaceID, CreateRule, SaveConnection, EncryptSecret, PrepareReprocess, Abort, ChangeKey
      <4> QED BY <4>1
    <3> QED BY <3>1, <3>2
  <2>2. h = g
    BY <2>1 DEF VerifyWebhook, VerifyWithSecret, SignedWith, IInv, TypeOK
  <2> DEFINE x == [pc |-> "verified", ws |-> w, secret |-> s]
             y == [pc |-> "refused"]
  <2>3. x.pc = "verified" /\ x.ws = w /\ x.secret = s /\ y.pc = "refused"
    OBVIOUS
  <2>4. \/ hook' = [hook EXCEPT ![g] = x] /\ s = SecretFor(w)
        \/ hook' = [hook EXCEPT ![g] = y]
    BY <2>1 DEF VerifyWebhook, VerifyWithSecret, SignedWith
  <2> HIDE DEF x, y
  <2>5. hook'[h] = x /\ s = SecretFor(w)
    BY <2>2, <2>3, <2>4 DEF IInv, TypeOK
  <2>6. connection[w] # NoConnection
    BY <2>3, <2>5 DEF IInv, ConnectionInv, AllWorkspaces
  <2>7. SecretFor(w) \in Secrets \union {NoSecret}
    <3>1. connection[w] \in {NoConnection} \union Settings
      BY DEF IInv, TypeOK, Settings
    <3> QED BY <3>1, <2>6 DEF SecretFor, Settings
  <2> QED BY <2>3, <2>5, <2>7, AccessAssumption
<1>2. AccessSpec => [][AccessNext]_accessVars
  BY DEF AccessSpec
<1> QED BY <1>1, <1>2, Invariant, PTL DEF EnvironmentIsReplaced

-----------------------------------------------------------------------------
(* What is lost to the empty workspace.                                    *)

\* Why a user's request may find no session: one was ended, or a call failed.
Excused(u) == faults > 0 \/ \E t \in ended : owner[t] = u

LostInv ==
    /\ \A t \in ended : owner[t] # NoUser
    /\ \A r \in Requests : req[r].pc = "bound" /\ req[r].ws = NoWorkspace => Excused(Caller(r))
    /\ LostWithSession

\* No session comes back, none changes its user, and faults are not forgotten.
LEMMA EndedStays ==
    ASSUME IInv, LostInv, [AccessNext]_accessVars
    PROVE  /\ \A t \in ended' : owner'[t] # NoUser
           /\ \A t \in Tokens : owner[t] # NoUser => owner'[t] = owner[t]
           /\ \A u : Excused(u) => Excused(u)'
<1>1. ended \subseteq Tokens /\ owner \in [Tokens -> Users \union {NoUser}] /\ faults \in Nat
  BY AccessAssumption DEF IInv, TypeOK
<1>2. /\ ended' = ended \/ \E t \in Tokens : ended' = ended \union {t} /\ owner[t] # NoUser
                                             /\ owner' = owner
      /\ faults' = faults \/ faults' = faults + 1
      /\ owner' = owner \/ \E u \in Users, t \in Tokens : owner[t] = NoUser
                                                          /\ owner' = [owner EXCEPT ![t] = u]
  <2>1. ASSUME NEW t \in Tokens, EndSession(t)
        PROVE  ended' = ended \union {t} /\ owner[t] # NoUser /\ UNCHANGED <<owner, faults>>
    BY <2>1 DEF EndSession, Live
  <2>2. ASSUME NEW u \in Users, NEW t \in Tokens, Login(u, t)
        PROVE  owner[t] = NoUser /\ owner' = [owner EXCEPT ![t] = u] /\ UNCHANGED <<ended, faults>>
    BY <2>2 DEF Login, IssueSession
  <2>3. ASSUME NEW u \in Users, NEW w \in Workspaces, Signup(u, w)
        PROVE  UNCHANGED <<owner, ended, faults>>
    BY <2>3 DEF Signup
  <2>4. ASSUME NEW r \in Requests, AdminStep(r)
        PROVE  UNCHANGED <<owner, ended>> /\ faults' \in {faults, faults + 1}
    BY <2>4 DEF AdminStep, Authorize, WorkspaceID, CreateRule, SaveConnection, PrepareReprocess,
                Abort, Fault, accountVars
  <2>5. ASSUME NEW h \in Hooks, HookStep(h)
        PROVE  UNCHANGED <<owner, ended>> /\ faults' \in {faults, faults + 1}
    BY <2>5 DEF HookStep, VerifyWebhook, RecordWebhook, Fault, accountVars
  <2>6. ASSUME NEW k \in Keys, ChangeKey(k) PROVE UNCHANGED <<owner, ended, faults>>
    BY <2>6 DEF ChangeKey, accountVars
  <2>7. CASE UNCHANGED accessVars
    BY <2>7 DEF accessVars, accountVars
  <2> QED BY <2>1, <2>2, <2>3, <2>4, <2>5, <2>6, <2>7 DEF AccessNext
<1>3. \A t \in Tokens : owner[t] # NoUser => owner'[t] = owner[t]
  BY <1>1, <1>2
<1>4. \A t \in ended' : owner'[t] # NoUser
  BY <1>1, <1>2, <1>3 DEF LostInv
<1>5. ASSUME NEW u, Excused(u) PROVE Excused(u)'
  <2>1. CASE faults > 0
    BY <1>1, <1>2, <2>1 DEF Excused
  <2>2. CASE \E t \in ended : owner[t] = u
    <3>1. PICK t \in ended : owner[t] = u
      BY <2>2
    <3>2. t \in ended' /\ owner'[t] = u
      BY <1>1, <1>2, <1>3, <3>1 DEF LostInv
    <3> QED BY <3>2 DEF Excused
  <2> QED BY <1>5, <2>1, <2>2 DEF Excused
<1> QED BY <1>3, <1>4, <1>5

\* A request that comes to be without a workspace had a session, which has ended.
LEMMA BoundExcused ==
    ASSUME IInv, LostInv, [AccessNext]_accessVars,
           NEW r \in Requests, req'[r].pc = "bound", req'[r].ws = NoWorkspace
    PROVE  Excused(Caller(r))'
<1>1. CASE req'[r] = req[r]
  <2>1. Excused(Caller(r)) /\ req[r].token \in Tokens /\ Caller(r) # NoUser
    BY <1>1, Records DEF LostInv, IInv, SessionInv
  <2>2. owner'[req'[r].token] = owner[req[r].token]
    BY <1>1, <2>1, EndedStays DEF Caller
  <2>3. \A u : Excused(u) => Excused(u)'
    BY EndedStays
  <2> DEFINE u == Caller(r)
  <2>4. Caller(r)' = u
    BY <2>2 DEF Caller
  <2>5. Excused(u)
    BY <2>1
  <2> QED BY <2>3, <2>4, <2>5 DEF Excused
<1>2. CASE req'[r] # req[r]
  <2>1. WorkspaceID(r)
    <3>1. PICK q \in Requests : AdminStep(q)
      BY <1>2 DEF AccessNext, Signup, Login, EndSession, ChangeKey, HookStep, VerifyWebhook,
                  RecordWebhook, accessVars
    <3>2. CASE WorkspaceID(q)
      <4>1. q = r
        BY <1>2, <3>2 DEF WorkspaceID, Bind, IInv, TypeOK
      <4> QED BY <3>2, <4>1
    <3>3. CASE \E t \in Tokens, op \in Ops : Authorize(q, t, op)
      <4> DEFINE x(t, op) == [pc |-> "authorized", token |-> t, op |-> op]
      <4>1. PICK t \in Tokens, op \in Ops : req' = [req EXCEPT ![q] = x(t, op)]
        BY <3>3 DEF Authorize
      <4>2. x(t, op).pc # "bound"
        OBVIOUS
      <4> HIDE DEF x
      <4> QED BY <1>2, <4>1, <4>2 DEF IInv, TypeOK
    <3>4. CASE Finish(q)
      <4> DEFINE x == [pc |-> "done"]
      <4>1. req' = [req EXCEPT ![q] = x] /\ x.pc # "bound"
        BY <3>4 DEF Finish
      <4> HIDE DEF x
      <4> QED BY <1>2, <4>1 DEF IInv, TypeOK
    <3> QED BY <3>1, <3>2, <3>3, <3>4 DEF AdminStep, CreateRule, SaveConnection,
                                         PrepareReprocess, Abort
  <2>2. /\ req[r].pc = "authorized" /\ UNCHANGED <<account, owner, ended>>
        /\ req[r].token \in Tokens /\ Caller(r) # NoUser
    BY <2>1, Records DEF WorkspaceID, accountVars, IInv, SessionInv
  <2>3. PICK w : /\ Bind(r, w)
                 /\ \/ w = NoWorkspace /\ Fault
                    \/ w = IF Live(req[r].token) THEN account[Caller(r)] ELSE NoWorkspace
    BY <2>1 DEF WorkspaceID, Caller
  <2> DEFINE x == [pc |-> "bound", token |-> req[r].token, op |-> req[r].op, ws |-> w]
  <2>4. req'[r] = x /\ x.token = req[r].token /\ x.ws = w
    BY <2>3 DEF Bind, IInv, TypeOK
  <2> HIDE DEF x
  <2>5. Caller(r)' = Caller(r) /\ w = NoWorkspace
    BY <2>2, <2>4 DEF Caller
  <2>6. CASE Fault
    <3>1. faults' > 0
      BY <2>6, AccessAssumption DEF Fault, IInv, TypeOK
    <3> QED BY <3>1 DEF Excused
  <2>7. CASE ~Fault
    <3>1. account[Caller(r)] # NoWorkspace
      BY <2>2 DEF IInv, SessionInv, Caller
    <3>2. ~Live(req[r].token)
      BY <2>3, <2>5, <2>7, <3>1
    <3>3. req[r].token \in ended
      BY <2>2, <3>2 DEF Live, Caller
    <3> QED BY <2>2, <2>5, <3>3 DEF Excused, Caller
  <2> QED BY <2>6, <2>7
<1> QED BY <1>1, <1>2

\* A row that is added is the caller's, in the workspace of the request.
LEMMA AddedRow ==
    ASSUME IInv, [AccessNext]_accessVars, NEW row \in Rows', row \notin Rows
    PROVE  \E r \in Requests : req[r].pc = "bound" /\ row.ws = req[r].ws /\ row.by = Caller(r)
<1>1. PICK r \in Requests : CreateRule(r) \/ SaveConnection(r) \/ PrepareReprocess(r)
  BY DEF AccessNext, Signup, Login, EndSession, ChangeKey, HookStep, VerifyWebhook, RecordWebhook,
         accessVars, storeVars, AdminStep, Authorize, WorkspaceID, Abort, Rows
<1> DEFINE new == [ws |-> req[r].ws, by |-> Caller(r)]
<1>2. new.ws = req[r].ws /\ new.by = Caller(r)
  OBVIOUS
<1>3. row = new /\ req[r].pc = "bound"
  <2>1. CASE CreateRule(r)
    BY <2>1 DEF CreateRule, Rows
  <2>2. CASE PrepareReprocess(r)
    BY <2>2 DEF PrepareReprocess, Rows
  <2>3. CASE SaveConnection(r)
    <3> DEFINE c == [ws |-> req[r].ws, secret |-> req[r].op.secret, by |-> Caller(r)]
    <3>1. saved' = saved \union {c} /\ UNCHANGED <<rules, requeued>>
      BY <2>3 DEF SaveConnection
    <3>2. c.ws = req[r].ws /\ c.by = Caller(r)
      OBVIOUS
    <3> HIDE DEF c
    <3>3. row = [ws |-> c.ws, by |-> c.by]
      BY <3>1 DEF Rows
    <3> QED BY <2>3, <3>2, <3>3 DEF SaveConnection
  <2> QED BY <1>1, <2>1, <2>2, <2>3
<1> HIDE DEF new
<1> QED BY <1>2, <1>3

\* While sessions last and no call fails, nothing is stored without a workspace: the second
\* look at the session can go wrong in no other way (workspaceID).
THEOREM LostSafety == AccessSpec => []LostWithSession
<1>1. AccessInit => LostInv
  BY DEF AccessInit, LostInv, LostWithSession, Rows
<1>2. IInv /\ LostInv /\ [AccessNext]_accessVars => LostInv'
  <2> SUFFICES ASSUME IInv, LostInv, [AccessNext]_accessVars PROVE LostInv'
    OBVIOUS
  <2>1. \A t \in ended' : owner'[t] # NoUser
    BY EndedStays
  <2>2. ASSUME NEW r \in Requests, req'[r].pc = "bound", req'[r].ws = NoWorkspace
        PROVE  Excused(Caller(r))'
    BY <2>2, BoundExcused
  <2>3. ASSUME NEW row \in Rows', row.ws = NoWorkspace PROVE Excused(row.by)'
    <3>1. Excused(row.by)
      <4>1. CASE row \in Rows
        BY <2>3, <4>1 DEF LostInv, LostWithSession, Excused
      <4>2. CASE row \notin Rows
        BY <2>3, <4>2, AddedRow DEF LostInv
      <4> QED BY <4>1, <4>2
    <3> DEFINE u == row.by
    <3>2. \A v : Excused(v) => Excused(v)'
      BY EndedStays
    <3> QED BY <3>1, <3>2 DEF Excused
  <2> QED BY <2>1, <2>2, <2>3 DEF LostInv, LostWithSession, Excused
<1>3. LostInv => LostWithSession
  BY DEF LostInv
<1> QED BY <1>1, <1>2, <1>3, Invariant, PTL DEF AccessSpec
=============================================================================
