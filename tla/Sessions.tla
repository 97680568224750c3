------------------------------- MODULE Sessions -------------------------------
(***************************************************************************)
(* Login sessions: app/services/auth_service.py over the refresh_tokens    *)
(* and users tables.  Requests are database transactions that take row     *)
(* locks one by one:                                                       *)
(*                                                                         *)
(*   login     idle -> login -> idle                                       *)
(*   refresh   idle -> token -> user -> idle                               *)
(*   reuse     idle -> token -> revoke -> idle                             *)
(*   delete    idle -> delete -> revoke -> idle                            *)
(*                                                                         *)
(* In "revoke" a transaction runs the UPDATE of revoke_all_by_user_id: it  *)
(* sees the live tokens committed when the statement began (todo) and      *)
(* locks them row by row (held); a row another transaction revoked in the  *)
(* meantime no longer matches the WHERE clause.  Writes show at commit.    *)
(***************************************************************************)
EXTENDS Naturals, FiniteSets

CONSTANTS
    Users, Tokens, Requests,   \* users, refresh_tokens rows, HTTP calls
    Passwords,                 \* what a password hash stands for
    None,                      \* NULL
    OldHashes                  \* may a stored hash have outdated parameters?

ASSUME SessionsAssumption ==
    /\ None \notin Users \cup Tokens \cup Passwords
    /\ OldHashes \in BOOLEAN

VARIABLES
    user,    \* user[u]: the users row
    token,   \* token[t]: the refresh_tokens row
    pc,      \* pc[r]: where request r is
    job,     \* job[r]: what request r was asked for and what it has read
    todo,    \* todo[r]: rows the UPDATE of r has yet to look at
    held     \* held[r]: refresh_tokens rows r has locked

vars == <<user, token, pc, job, todo, held>>

NoToken == [state |-> "absent", user |-> None, parent |-> None]
NoJob == [op |-> "none", user |-> None, token |-> None, new |-> None,
          password |-> None, rehash |-> FALSE]

UserRow == [deleted : BOOLEAN, password : Passwords \cup {None}, old : BOOLEAN]
TokenRow == [state : {"live", "revoked"}, user : Users, parent : Tokens \cup {None}]
Job == [op : {"login", "refresh", "delete"}, user : Users, token : Tokens \cup {None},
        new : Tokens \cup {None}, password : Passwords \cup {None}, rehash : BOOLEAN]

TypeOK ==
    /\ user \in [Users -> UserRow]
    /\ token \in [Tokens -> TokenRow \cup {NoToken}]
    /\ pc \in [Requests -> {"idle", "login", "token", "user", "delete", "revoke"}]
    /\ job \in [Requests -> Job \cup {NoJob}]
    /\ todo \in [Requests -> SUBSET Tokens]
    /\ held \in [Requests -> SUBSET Tokens]
    /\ \A r \in Requests :
          /\ pc[r] = "idle" <=> job[r] = NoJob
          /\ pc[r] # "revoke" => todo[r] = {}
          /\ pc[r] \notin {"user", "revoke"} => held[r] = {}

Init ==
    /\ user \in [Users -> [deleted : {FALSE}, password : Passwords, old : {FALSE, OldHashes}]
                          \cup [deleted : {FALSE}, password : {None}, old : {FALSE}]]
    /\ token = [t \in Tokens |-> NoToken]
    /\ pc = [r \in Requests |-> "idle"]
    /\ job = [r \in Requests |-> NoJob]
    /\ todo = [r \in Requests |-> {}]
    /\ held = [r \in Requests |-> {}]

-----------------------------------------------------------------------------
(* Row locks. *)

HoldsUser(r, u) == pc[r] = "revoke" /\ job[r].op = "delete" /\ job[r].user = u

(* Mutant: a SELECT that lost its FOR UPDATE. *)
Unlocked(r, row) == TRUE

UserFree(r, u) == \A s \in Requests \ {r} : ~HoldsUser(s, u)
TokenFree(r, t) == \A s \in Requests \ {r} : t \notin held[s]

(* Hash values are drawn at random: no two requests issue the same token. *)
Fresh(n) == token[n] = NoToken /\ \A r \in Requests : job[r].new # n

LiveTokens(u) == {t \in Tokens : token[t].state = "live" /\ token[t].user = u}

(* Mutant: a finished transaction that keeps its row locks. *)
EndKeepingLocks(r) ==
    /\ pc' = [pc EXCEPT ![r] = "idle"]
    /\ job' = [job EXCEPT ![r] = NoJob]
    /\ todo' = [todo EXCEPT ![r] = {}]
    /\ UNCHANGED held

End(r) ==
    /\ pc' = [pc EXCEPT ![r] = "idle"]
    /\ job' = [job EXCEPT ![r] = NoJob]
    /\ todo' = [todo EXCEPT ![r] = {}]
    /\ held' = [held EXCEPT ![r] = {}]

Start(r, at, what) ==
    /\ pc[r] = "idle"
    /\ pc' = [pc EXCEPT ![r] = at]
    /\ job' = [job EXCEPT ![r] = what]
    /\ UNCHANGED <<user, token, todo, held>>

Issue(n, u, parent) == [state |-> "live", user |-> u, parent |-> parent]

-----------------------------------------------------------------------------
(* login reads the user without a lock and verifies the password ...       *)
BeginLogin(r, u, p, n) ==
    /\ ~user[u].deleted /\ user[u].password = p
    /\ Fresh(n)
    /\ Start(r, "login", [op |-> "login", user |-> u, token |-> None, new |-> n,
                          password |-> IF user[u].old THEN p ELSE None,
                          rehash |-> user[u].old])

(* A social login: the social account leads to the user, read without a    *)
(* lock; the provider has vouched for it, no password is looked at.        *)
BeginSocialLogin(r, u, n) ==
    /\ ~user[u].deleted
    /\ Fresh(n)
    /\ Start(r, "login", [op |-> "login", user |-> u, token |-> None, new |-> n,
                          password |-> None, rehash |-> FALSE])

(* ... then stores the new hash of that password if the one it read was    *)
(* outdated, and the token.  Both wait for a lock on the user row (the     *)
(* insert for the key share of its foreign key); neither reads it again.   *)
Login(r) ==
    LET j == job[r] IN
        /\ pc[r] = "login"
        /\ UserFree(r, j.user)
        /\ token' = [token EXCEPT ![j.new] = Issue(j.new, j.user, None)]
        /\ user' = IF j.rehash
                   THEN [user EXCEPT ![j.user].password = j.password, ![j.user].old = FALSE]
                   ELSE user
        /\ End(r)

(* refresh is handed a token the service issued once. *)
BeginRefresh(r, t, n) ==
    /\ token[t] # NoToken
    /\ Fresh(n)
    /\ Start(r, "token", [op |-> "refresh", user |-> token[t].user, token |-> t, new |-> n,
                          password |-> None, rehash |-> FALSE])

(* expires_at <= now; time passes at will, so any token may have expired. *)
RefreshExpired(r) ==
    /\ pc[r] = "token" /\ TokenFree(r, job[r].token)
    /\ End(r)
    /\ UNCHANGED <<user, token>>

RefreshValid(r) ==
    /\ pc[r] = "token" /\ TokenFree(r, job[r].token)
    /\ token[job[r].token].state = "live"
    /\ pc' = [pc EXCEPT ![r] = "user"]
    /\ held' = [held EXCEPT ![r] = {job[r].token}]
    /\ UNCHANGED <<user, token, job, todo>>

(* A revoked token is presented again: revoke_all_by_user_id starts, still *)
(* inside the transaction that locked the token.                           *)
RefreshReuse(r) ==
    /\ pc[r] = "token" /\ TokenFree(r, job[r].token)
    /\ token[job[r].token].state = "revoked"
    /\ pc' = [pc EXCEPT ![r] = "revoke"]
    /\ held' = [held EXCEPT ![r] = {job[r].token}]
    /\ todo' = [todo EXCEPT ![r] = LiveTokens(job[r].user)]
    /\ UNCHANGED <<user, token, job>>

RefreshUserGone(r) ==
    /\ pc[r] = "user" /\ UserFree(r, job[r].user)
    /\ user[job[r].user].deleted
    /\ End(r)
    /\ UNCHANGED <<user, token>>

(* Mutant: the user row is not looked at again. *)
RotateUnchecked(r) ==
    LET j == job[r] IN
        /\ pc[r] = "user" /\ UserFree(r, j.user)
        /\ token' = [token EXCEPT ![j.token].state = "revoked",
                                  ![j.new] = Issue(j.new, j.user, j.token)]
        /\ End(r)
        /\ UNCHANGED user

(* The user row is locked and live: revoke the old token, insert the new   *)
(* one, commit.                                                            *)
Rotate(r) ==
    LET j == job[r] IN
        /\ pc[r] = "user" /\ UserFree(r, j.user)
        /\ ~user[j.user].deleted
        /\ token' = [token EXCEPT ![j.token].state = "revoked",
                                  ![j.new] = Issue(j.new, j.user, j.token)]
        /\ End(r)
        /\ UNCHANGED user

(* logout: one lock and one write. *)
Logout(t) ==
    /\ \A r \in Requests : t \notin held[r]
    /\ token[t].state = "live"
    /\ token' = [token EXCEPT ![t].state = "revoked"]
    /\ UNCHANGED <<user, pc, job, todo, held>>

(* delete_account, behind require_authenticated. *)
BeginDelete(r, u) ==
    /\ ~user[u].deleted
    /\ Start(r, "delete", [op |-> "delete", user |-> u, token |-> None, new |-> None,
                           password |-> None, rehash |-> FALSE])

LockDelete(r) ==
    /\ pc[r] = "delete" /\ UserFree(r, job[r].user)
    /\ ~user[job[r].user].deleted
    /\ pc' = [pc EXCEPT ![r] = "revoke"]
    /\ todo' = [todo EXCEPT ![r] = LiveTokens(job[r].user)]
    /\ UNCHANGED <<user, token, job, held>>

DeleteGone(r) ==
    /\ pc[r] = "delete" /\ UserFree(r, job[r].user)
    /\ user[job[r].user].deleted
    /\ End(r)
    /\ UNCHANGED <<user, token>>

(* One row of the UPDATE in revoke_all_by_user_id. *)
RevokeRow(r, t) ==
    /\ pc[r] = "revoke" /\ t \in todo[r] /\ TokenFree(r, t)
    /\ todo' = [todo EXCEPT ![r] = @ \ {t}]
    /\ held' = IF token[t].state = "live" THEN [held EXCEPT ![r] = @ \cup {t}] ELSE held
    /\ UNCHANGED <<user, token, pc, job>>

Revoked(ts) == [t \in Tokens |->
                  IF t \in ts THEN [token[t] EXCEPT !.state = "revoked"] ELSE token[t]]

(* The commit after the UPDATE; a deletion also soft-deletes the user.     *)
RevokeDone(r) ==
    LET u == job[r].user IN
        /\ pc[r] = "revoke" /\ todo[r] = {}
        /\ token' = Revoked(held[r])
        /\ user' = IF job[r].op = "delete"
                   THEN [user EXCEPT ![u].deleted = TRUE, ![u].password = None]
                   ELSE user
        /\ End(r)

(* change_password: one lock, verify, one write. *)
ChangePassword(u, new) ==
    /\ \A r \in Requests : ~HoldsUser(r, u)
    /\ ~user[u].deleted /\ user[u].password # None
    /\ user' = [user EXCEPT ![u].password = new, ![u].old = FALSE]
    /\ UNCHANGED <<token, pc, job, todo, held>>

-----------------------------------------------------------------------------
(* Lock waits.  PostgreSQL aborts a transaction that waits for itself,     *)
(* directly or through others; the service rolls back and answers 500.     *)

NextRows(r) == IF pc[r] = "token" THEN {job[r].token} ELSE todo[r]

WaitsFor(r, s) ==
    /\ r # s
    /\ \/ /\ pc[r] \in {"login", "user", "delete"}
          /\ HoldsUser(s, job[r].user)
       \/ /\ pc[r] \in {"token", "revoke"}
          /\ \A t \in NextRows(r) : ~TokenFree(r, t)
          /\ \E t \in NextRows(r) : t \in held[s]

Tangle(S) == S # {} /\ \A r \in S : \E s \in S : WaitsFor(r, s)
WaitCycle(S) == Tangle(S) /\ \A T \in SUBSET S : Tangle(T) => T = S

(* Mutant: deadlocks are not detected. *)
NeverAborted(r) == FALSE

DeadlockAbort(r) ==
    /\ \E S \in SUBSET Requests : r \in S /\ WaitCycle(S)
    /\ End(r)
    /\ UNCHANGED <<user, token>>

(* A crash or a database error: everything is rolled back. *)
Fail(r) ==
    /\ pc[r] # "idle"
    /\ End(r)
    /\ UNCHANGED <<user, token>>

-----------------------------------------------------------------------------
Serve(r) ==
    \/ Login(r)
    \/ RefreshExpired(r) \/ RefreshValid(r) \/ RefreshReuse(r)
    \/ RefreshUserGone(r) \/ Rotate(r)
    \/ LockDelete(r) \/ DeleteGone(r)
    \/ \E t \in Tokens : RevokeRow(r, t)
    \/ RevokeDone(r)

Next ==
    \/ \E r \in Requests :
          \/ \E u \in Users, p \in Passwords, n \in Tokens : BeginLogin(r, u, p, n)
          \/ \E u \in Users, n \in Tokens : BeginSocialLogin(r, u, n)
          \/ \E t \in Tokens, n \in Tokens : BeginRefresh(r, t, n)
          \/ \E u \in Users : BeginDelete(r, u)
          \/ Serve(r) \/ DeadlockAbort(r) \/ Fail(r)
    \/ \E t \in Tokens : Logout(t)
    \/ \E u \in Users, p \in Passwords : ChangePassword(u, p)

Spec == Init /\ [][Next]_vars

(* The event loop runs what is ready and PostgreSQL resolves deadlocks     *)
(* (WF); its lock queues are first come, first served (SF).                *)
FairSpec ==
    /\ Spec
    /\ \A r \in Requests : WF_vars(DeadlockAbort(r)) /\ SF_vars(Serve(r))

-----------------------------------------------------------------------------
(* A token is rotated at most once and only while it is live: however many *)
(* refreshes of one token overlap, its successors form a chain, so a login *)
(* has at most one live token.                                             *)
SessionChain ==
    \A t \in Tokens : token[t] # NoToken /\ token[t].parent # None =>
        /\ token[token[t].parent].state = "revoked"
        /\ \A s \in Tokens \ {t} : token[s].parent # token[t].parent

(* A deleted account keeps no session alive: locking the user row first    *)
(* makes the deletion see the successor of every token that is rotated     *)
(* while it runs.  What may be left is a token of a login that verified    *)
(* the password before the deletion and stored its token after it; nobody  *)
(* can rotate that one.                                                    *)
DeletedHasNoChain ==
    \A t \in Tokens : token[t].state = "live" /\ user[token[t].user].deleted
        => token[t].parent = None

HolderOf == [t \in Tokens |-> IF token[t].state = "live" THEN token[t].user ELSE None]
SpentTokens == {t \in Tokens : token[t].state = "revoked"}
RenewedTokens == {t \in Tokens : token[t].parent # None}
ClosedAccounts == {u \in Users : user[u].deleted}

Promise == INSTANCE Credentials WITH
    holder <- HolderOf, spent <- SpentTokens, renewed <- RenewedTokens, closed <- ClosedAccounts

(* Whatever overlaps: a token that was exchanged or withdrawn never works  *)
(* again, each exchange takes one working token of a live account and      *)
(* gives one to the same account, UPDATEs that run row by row withdraw     *)
(* tokens of one account only and in one step, and an account is closed    *)
(* once, together with every token that was exchanged for.                 *)
ImplementsCredentials == Promise!Spec

(* Every request ends, although refresh locks token, then user, and a      *)
(* deletion user, then tokens.                                             *)
RequestsEnd == \A r \in Requests : (pc[r] # "idle") ~> (pc[r] = "idle")

(* auth_service.py:141-142: when a rotated token is presented again, all   *)
(* refresh tokens of the user are revoked: at the least the successor of   *)
(* that token and the successor's successor.                               *)
ReuseRevokesAll ==
    [][\A r \in Requests :
         (job[r].op = "refresh" /\ pc[r] = "revoke" /\ pc'[r] = "idle" /\ token' # token)
           => \A t \in LiveTokens(job[r].user) :
                 (\E p \in Tokens : /\ token[t].parent = p
                                   /\ job[r].token \in {p, token[p].parent})
                   => token'[t].state = "revoked"]_vars

(* auth_service.py:113: a login stores the newest parameters, for the same *)
(* password: only change_password changes which password is accepted.      *)
RehashKeepsPassword ==
    [][\A r \in Requests : \A u \in Users :
         (pc[r] = "login" /\ pc'[r] = "idle" /\ job[r].user = u)
           => user'[u].password = user[u].password]_vars

(* What it comes down to: a login changes which password is accepted only  *)
(* if parameters do get outdated, and the outdated hash it has seen was    *)
(* replaced, or its account deleted, before it wrote.                      *)
RehashNeedsRace ==
    [][\A r \in Requests : \A u \in Users :
         (/\ pc[r] = "login" /\ pc'[r] = "idle" /\ job[r].user = u
          /\ user'[u].password # user[u].password)
            => OldHashes /\ (~user[u].old \/ user[u].deleted)]_vars
=============================================================================
