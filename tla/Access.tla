------------------------------- MODULE Access -------------------------------
(***************************************************************************)
(* Accounts, sessions and what they may change: sign-up, login, logout and *)
(* expiry, the administration requests that are authorized by one look at  *)
(* the session and take their workspace from another, provider             *)
(* connections, and the webhooks that are verified with them.  Every call  *)
(* to the database is an action.  Tokens, secrets and ciphers are model    *)
(* values: a token is found by its hash, a secret is decrypted by the key  *)
(* that encrypted it, and a signature verifies with the secret it was made *)
(* with.  One provider stands for each.                                    *)
(***************************************************************************)
EXTENDS Naturals

CONSTANTS
    Users,        \* email addresses
    Legacy,       \* accounts of the default workspace from before sign-up gave each its own
    Workspaces,   \* workspace ids: the default one and those uuid.NewString may return
    Default,      \* DEFAULT_WORKSPACE_ID
    NoWorkspace,  \* the empty workspace id
    Tokens,       \* session tokens that may be issued
    NoUser,       \* owner of a token not yet issued
    Requests,     \* administration requests
    Hooks,        \* webhook requests
    Secrets,      \* webhook secrets
    EnvSecret,    \* the provider's secret in the environment
    NoSecret,     \* the empty secret
    Keys,         \* values of ENCRYPTION_KEY
    MaxFaults     \* bound of the model: failed database calls

ASSUME AccessAssumption ==
    /\ Legacy \subseteq Users
    /\ Default \in Workspaces
    /\ NoWorkspace \notin Workspaces
    /\ NoUser \notin Users
    /\ EnvSecret \notin Secrets
    /\ NoSecret \notin Secrets \union {EnvSecret}
    /\ MaxFaults \in Nat

VARIABLES
    account,      \* email -> workspace of its users row, NoWorkspace before
    owner,        \* token -> the user of its sessions row
    ended,        \* tokens whose session is revoked or past expires_at
    req,          \* request -> where it stands
    rules,        \* notification_rules: workspace and who created it
    requeued,     \* dead letters set back to queued: their workspace and who asked
    saved,        \* provider connections ever saved: workspace, secret and who saved it
    connection,   \* workspace -> its provider_connections row
    key,          \* ENCRYPTION_KEY of the running processes
    hook,         \* webhook -> where it stands
    faults        \* faults so far

accountVars == <<account, owner, ended>>
storeVars == <<rules, requeued, saved, connection>>
accessVars == <<accountVars, storeVars, req, key, hook, faults>>

Ops == [kind : {"rule"}] \union [kind : {"connect"}, secret : Secrets]
         \union [kind : {"requeue"}, ws : Workspaces]
Asked(pc) == [pc : pc, token : Tokens, op : Ops]
NoConnection == [secret |-> NoSecret]

TypeOK ==
    /\ account \in [Users -> Workspaces \union {NoWorkspace}]
    /\ owner \in [Tokens -> Users \union {NoUser}]
    /\ ended \subseteq Tokens
    /\ req \in [Requests -> [pc : {"new", "done"}] \union Asked({"authorized"})
                 \union [pc : {"bound"}, token : Tokens, op : Ops,
                         ws : Workspaces \union {NoWorkspace}]]
    /\ rules \subseteq [ws : Workspaces \union {NoWorkspace}, by : Users]
    /\ requeued \subseteq [ws : Workspaces, by : Users]
    /\ saved \subseteq [ws : Workspaces \union {NoWorkspace}, secret : Secrets, by : Users]
    /\ connection \in [Workspaces \union {NoWorkspace} ->
                         {NoConnection} \union [secret : Secrets, key : Keys]]
    /\ key \in Keys
    /\ hook \in [Hooks -> [pc : {"new", "refused"}]
                  \union [pc : {"verified", "recorded"}, ws : Workspaces,
                          secret : Secrets \union {EnvSecret}]]
    /\ faults \in 0..MaxFaults

AccessInit ==
    /\ account = [u \in Users |-> IF u \in Legacy THEN Default ELSE NoWorkspace]
    /\ owner = [t \in Tokens |-> NoUser]
    /\ ended = {}
    /\ req = [r \in Requests |-> [pc |-> "new"]]
    /\ rules = {} /\ requeued = {} /\ saved = {}
    /\ connection = [w \in Workspaces \union {NoWorkspace} |-> NoConnection]
    /\ key \in Keys
    /\ hook = [h \in Hooks |-> [pc |-> "new"]]
    /\ faults = 0

Fault == faults < MaxFaults /\ faults' = faults + 1

-----------------------------------------------------------------------------
(* Accounts and sessions.                                                  *)

\* Mutant: the account that exists is moved to the new workspace.
SignupOver(u, w) ==
    /\ w # Default /\ \A v \in Users : account[v] # w
    /\ account' = [account EXCEPT ![u] = w]
    /\ UNCHANGED <<owner, ended, storeVars, req, key, hook, faults>>

\* An account that exists is left alone.
CreatePendingUser(u, w) == account[u] = NoWorkspace /\ account' = [account EXCEPT ![u] = w]

\* Sign-up takes a fresh workspace.
Signup(u, w) ==
    /\ w # Default /\ \A v \in Users : account[v] # w
    /\ CreatePendingUser(u, w)
    /\ UNCHANGED <<owner, ended, storeVars, req, key, hook, faults>>

IssueSession(u, t) == owner[t] = NoUser /\ owner' = [owner EXCEPT ![t] = u]

\* The right password: a session with a new token is stored.
Login(u, t) ==
    /\ account[u] # NoWorkspace
    /\ IssueSession(u, t)
    /\ UNCHANGED <<account, ended, storeVars, req, key, hook, faults>>

Live(t) == owner[t] # NoUser /\ t \notin ended

\* Logout revokes the session, or eight hours are over.
EndSession(t) ==
    /\ Live(t)
    /\ ended' = ended \union {t}
    /\ UNCHANGED <<account, owner, storeVars, req, key, hook, faults>>

-----------------------------------------------------------------------------
(* Administration requests.                                                *)

\* Mutant: any token will do.
AuthorizeAny(r, t, op) ==
    /\ req[r].pc = "new"
    /\ req' = [req EXCEPT ![r] = [pc |-> "authorized", token |-> t, op |-> op]]
    /\ UNCHANGED <<accountVars, storeVars, key, hook, faults>>

\* authorizeAdmin: the session is looked up, its user is not kept.
Authorize(r, t, op) ==
    /\ req[r].pc = "new"
    /\ Live(t)
    /\ req' = [req EXCEPT ![r] = [pc |-> "authorized", token |-> t, op |-> op]]
    /\ UNCHANGED <<accountVars, storeVars, key, hook, faults>>

Bind(r, w) == req' = [req EXCEPT ![r] = [pc |-> "bound", token |-> req[r].token,
                                         op |-> req[r].op, ws |-> w]]

\* Mutant: a session that is gone stands for the default workspace.
WorkspaceOrDefault(r) ==
    /\ req[r].pc = "authorized"
    /\ \/ Bind(r, IF Live(req[r].token) THEN account[owner[req[r].token]] ELSE Default)
          /\ UNCHANGED faults
       \/ Bind(r, NoWorkspace) /\ Fault
    /\ UNCHANGED <<accountVars, storeVars, key, hook>>

\* workspaceID looks the session up again; any error gives the empty workspace.
WorkspaceID(r) ==
    /\ req[r].pc = "authorized"
    /\ \/ Bind(r, IF Live(req[r].token) THEN account[owner[req[r].token]] ELSE NoWorkspace)
          /\ UNCHANGED faults
       \/ Bind(r, NoWorkspace) /\ Fault
    /\ UNCHANGED <<accountVars, storeVars, key, hook>>

Finish(r) == req' = [req EXCEPT ![r] = [pc |-> "done"]]
Caller(r) == owner[req[r].token]

CreateRule(r) ==
    /\ req[r].pc = "bound" /\ req[r].op.kind = "rule"
    /\ rules' = rules \union {[ws |-> req[r].ws, by |-> Caller(r)]}
    /\ Finish(r)
    /\ UNCHANGED <<accountVars, requeued, saved, connection, key, hook, faults>>

EncryptSecret(s) == [secret |-> s, key |-> key]

\* The secret is encrypted with the key of the process; one row per workspace.
SaveConnection(r) ==
    /\ req[r].pc = "bound" /\ req[r].op.kind = "connect"
    /\ connection' = [connection EXCEPT ![req[r].ws] = EncryptSecret(req[r].op.secret)]
    /\ saved' = saved \union {[ws |-> req[r].ws, secret |-> req[r].op.secret, by |-> Caller(r)]}
    /\ Finish(r)
    /\ UNCHANGED <<accountVars, rules, requeued, key, hook, faults>>

\* Mutant: the dead letter is found by its id alone.
RequeueAny(r) ==
    /\ req[r].pc = "bound" /\ req[r].op.kind = "requeue"
    /\ requeued' = requeued \union {[ws |-> req[r].op.ws, by |-> Caller(r)]}
    /\ Finish(r)
    /\ UNCHANGED <<accountVars, rules, saved, connection, key, hook, faults>>

\* PrepareReprocess finds the dead letter only in the workspace of the request.
PrepareReprocess(r) ==
    /\ req[r].pc = "bound" /\ req[r].op.kind = "requeue"
    /\ requeued' = IF req[r].op.ws = req[r].ws
                   THEN requeued \union {[ws |-> req[r].op.ws, by |-> Caller(r)]} ELSE requeued
    /\ Finish(r)
    /\ UNCHANGED <<accountVars, rules, saved, connection, key, hook, faults>>

\* The write fails, or the process dies under the request.
Abort(r) ==
    /\ req[r].pc \in {"authorized", "bound"}
    /\ Fault
    /\ Finish(r)
    /\ UNCHANGED <<accountVars, storeVars, key, hook>>

-----------------------------------------------------------------------------
(* Webhooks.                                                               *)

\* The processes are restarted with another ENCRYPTION_KEY.
ChangeKey(k) ==
    /\ k # key
    /\ key' = k
    /\ UNCHANGED <<accountVars, storeVars, req, hook, faults>>

Decrypted(c) == c # NoConnection /\ c.key = key

\* Mutant: any failure to get the saved secret falls back to the environment.
SecretOrEnv(w) ==
    IF Decrypted(connection[w]) THEN connection[w].secret
    ELSE IF w = Default THEN EnvSecret ELSE NoSecret

\* The secret that verifies a webhook of workspace w; NoSecret answers 503.
SecretFor(w) ==
    IF Decrypted(connection[w]) THEN connection[w].secret
    ELSE IF connection[w] = NoConnection /\ w = Default THEN EnvSecret ELSE NoSecret

\* The providers' signatures: each is made with one secret, and fits no other.
SignedWith(secret, s) == s = secret
VerifyWithSecret(secret, s) == secret # NoSecret /\ SignedWith(secret, s)

\* handleWebhook up to the verification of a webhook signed with s; the lookup
\* may fail.
VerifyWebhook(h, w, s) ==
    /\ hook[h].pc = "new"
    /\ \/ /\ VerifyWithSecret(SecretFor(w), s)
          /\ hook' = [hook EXCEPT ![h] = [pc |-> "verified", ws |-> w, secret |-> s]]
          /\ UNCHANGED faults
       \/ /\ ~VerifyWithSecret(SecretFor(w), s)
          /\ hook' = [hook EXCEPT ![h] = [pc |-> "refused"]]
          /\ UNCHANGED faults
       \/ hook' = [hook EXCEPT ![h] = [pc |-> "refused"]] /\ Fault
    /\ UNCHANGED <<accountVars, storeVars, req, key>>

RecordWebhook(h) ==
    /\ hook[h].pc = "verified"
    /\ hook' = [hook EXCEPT ![h].pc = "recorded"]
    /\ UNCHANGED <<accountVars, storeVars, req, key, faults>>

-----------------------------------------------------------------------------
AdminStep(r) == \/ \E t \in Tokens, op \in Ops : Authorize(r, t, op)
                \/ WorkspaceID(r) \/ CreateRule(r) \/ SaveConnection(r)
                \/ PrepareReprocess(r) \/ Abort(r)
HookStep(h) == \/ \E w \in Workspaces, s \in Secrets \union {EnvSecret} : VerifyWebhook(h, w, s)
               \/ RecordWebhook(h)
AccessNext == \/ \E u \in Users, w \in Workspaces : Signup(u, w)
              \/ \E u \in Users, t \in Tokens : Login(u, t)
              \/ \E t \in Tokens : EndSession(t)
              \/ \E r \in Requests : AdminStep(r)
              \/ \E k \in Keys : ChangeKey(k)
              \/ \E h \in Hooks : HookStep(h)

AccessSpec == AccessInit /\ [][AccessNext]_accessVars

-----------------------------------------------------------------------------
(* Properties.                                                             *)

Rows == rules \union requeued \union {[ws |-> c.ws, by |-> c.by] : c \in saved}

\* Whatever an administrator's request stores or sets back belongs to the
\* workspace of the session that authorized it (README: administration endpoints
\* require a session and use the session's workspace).
StoredInOwnWorkspace == \A row \in Rows : row.ws = account[row.by]

\* What holds of it: no request reaches into a workspace of another account, and
\* what is not its own goes to the empty workspace (workspaceID in http.go).
StoredInNoOtherWorkspace ==
    \A row \in Rows : row.ws \in {account[row.by], NoWorkspace}

\* Nothing goes to the empty workspace unless a session of the one who asked ended, or
\* a call failed: while sessions last and the database answers, what a request
\* stores is its own (the second lookup of workspaceID).
LostWithSession ==
    \A row \in Rows :
        row.ws = NoWorkspace => faults > 0 \/ \E t \in ended : owner[t] = row.by

\* An event recorded for a workspace was signed with a secret that an account of
\* that workspace saved, whichever rotations, key changes and failed lookups came
\* in between; only the default workspace also takes the environment's.
RecordedIsSigned ==
    \A h \in Hooks : hook[h].pc = "recorded" =>
        \/ \E c \in saved : /\ c.ws = hook[h].ws /\ c.secret = hook[h].secret
                            /\ account[c.by] = c.ws
        \/ hook[h].ws = Default /\ hook[h].secret = EnvSecret

\* Once a connection of the default workspace is saved, webhooks signed with the
\* environment's secret are no longer verified, even when its row cannot be
\* decrypted (the lookup's error paths in handleWebhook).
EnvironmentIsReplaced ==
    [][\A h \in Hooks :
         /\ hook[h].pc = "new" /\ hook'[h].pc = "verified"
         /\ \E c \in saved : c.ws = hook'[h].ws
         => hook'[h].secret # EnvSecret]_accessVars
=============================================================================
