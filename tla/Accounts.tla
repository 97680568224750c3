------------------------------- MODULE Accounts -------------------------------
(***************************************************************************)
(* Accounts: sign-up (auth_service.py), social sign-up (oauth_service.py), *)
(* profile changes (user_service.py), deletion and the new hash a login    *)
(* stores, over the users, social_accounts and subscriptions tables.       *)
(*                                                                         *)
(*   signup     idle -> insert -> commit -> idle                           *)
(*   complete   idle -> lookup -> insert -> link -> commit -> idle         *)
(*   delete     idle -> delete -> erase -> idle                            *)
(*   update     idle -> update -> idle                                     *)
(*   rehash     idle -> rehash -> idle                                     *)
(*                                                                         *)
(* A key is looked up first and inserted later; in between another request *)
(* may take it.  An insert waits for a transaction that has inserted the   *)
(* same unique key, and fails when that key is committed.  From "link",    *)
(* "commit" and "erase" on what a request wrote shows when it commits.     *)
(***************************************************************************)
EXTENDS Naturals, FiniteSets

CONSTANTS
    Users, Requests,   \* users rows, HTTP calls
    Emails,            \* addresses
    Identities,        \* (provider, provider_user_id) of the OAuth providers
    None               \* NULL

(* "deleted:<id>:<value>": no other row has it, and nothing looks it up: an *)
(* address has no colon, an identity of a provider no such prefix.          *)
Tombstones == Users \X (Emails \cup Identities)
Tombstone(u, value) == <<u, value>>

ASSUME AccountsAssumption ==
    /\ None \notin Users \cup Emails \cup Identities
    /\ Emails \cap Identities = {}
    /\ Tombstones \cap (Emails \cup Identities \cup {None}) = {}

VARIABLES
    user,       \* user[u]: the users row, or NoUser
    social,     \* social[u]: the identity in the social_accounts row of u
    plan,       \* users with an active subscription
    offered,    \* identities with a sign-up token
    pc,         \* pc[r]: where request r is
    job         \* job[r]: what request r was asked for

vars == <<user, social, plan, offered, pc, job>>

UserRow == [email : Emails \cup Tombstones, password : BOOLEAN, phone : BOOLEAN,
            deleted : BOOLEAN]
NoUser == [email |-> None, password |-> FALSE, phone |-> FALSE, deleted |-> FALSE]
Job == [op : {"signup", "complete", "delete", "update", "rehash"}, user : Users,
        email : Emails \cup {None}, identity : Identities \cup {None}, phone : BOOLEAN]
NoJob == [op |-> "none", user |-> None, email |-> None, identity |-> None, phone |-> FALSE]

TypeOK ==
    /\ user \in [Users -> UserRow \cup {NoUser}]
    /\ social \in [Users -> Identities \cup Tombstones \cup {None}]
    /\ plan \in SUBSET Users
    /\ offered \in SUBSET Identities
    /\ pc \in [Requests -> {"idle", "lookup", "insert", "link", "commit", "delete", "erase",
                            "update", "rehash"}]
    /\ job \in [Requests -> Job \cup {NoJob}]
    /\ \A r \in Requests : pc[r] = "idle" <=> job[r] = NoJob

Init ==
    /\ user = [u \in Users |-> NoUser]
    /\ social = [u \in Users |-> None]
    /\ plan = {}
    /\ offered = {}
    /\ pc = [r \in Requests |-> "idle"]
    /\ job = [r \in Requests |-> NoJob]

-----------------------------------------------------------------------------
Live(u) == user[u] # NoUser /\ ~user[u].deleted

(* get_by_email and get_by_provider_user_id: any row, deleted or not. *)
EmailTaken(e) == \E u \in Users : user[u].email = e
IdentityTaken(i) == \E u \in Users : social[u] = i

(* Mutant: the tables without their unique constraints. *)
NoConstraint(r, key) == TRUE

(* The unique indexes: nobody has, or is about to commit, the key. *)
EmailInsertable(r, e) ==
    /\ ~EmailTaken(e)
    /\ \A s \in Requests \ {r} : ~(pc[s] \in {"link", "commit"} /\ job[s].email = e)

IdentityInsertable(r, i) ==
    /\ ~IdentityTaken(i)
    /\ \A s \in Requests \ {r} : ~(pc[s] = "commit" /\ job[s].identity = i)

UserFree(r, u) == \A s \in Requests \ {r} : ~(pc[s] = "erase" /\ job[s].user = u)

(* Row ids are random uuids. *)
Fresh(u) == user[u] = NoUser /\ \A r \in Requests : job[r].user # u

(* Mutant: a session is handed on with what the last request read. *)
EndKeepingJob(r) == pc' = [pc EXCEPT ![r] = "idle"] /\ UNCHANGED job

End(r) ==
    /\ pc' = [pc EXCEPT ![r] = "idle"]
    /\ job' = [job EXCEPT ![r] = NoJob]

Start(r, at, what) ==
    /\ pc[r] = "idle"
    /\ pc' = [pc EXCEPT ![r] = at]
    /\ job' = [job EXCEPT ![r] = what]
    /\ UNCHANGED <<user, social, plan, offered>>

Goto(r, at) == pc' = [pc EXCEPT ![r] = at] /\ UNCHANGED <<user, social, plan, offered, job>>

-----------------------------------------------------------------------------
(* POST /auth/signup: get_by_email finds nobody. *)
BeginSignup(r, u, e, phone) ==
    /\ ~EmailTaken(e) /\ Fresh(u)
    /\ Start(r, "insert", [op |-> "signup", user |-> u, email |-> e, identity |-> None,
                           phone |-> phone])

(* A social login with an unknown identity answers with a sign-up token. *)
OfferSignup(i) ==
    /\ ~IdentityTaken(i) /\ i \notin offered
    /\ offered' = offered \cup {i}
    /\ UNCHANGED <<user, social, plan, pc, job>>

(* POST /auth/oauth/complete-signup with such a token, which can be used   *)
(* again: the address is looked up, then the identity.                     *)
BeginComplete(r, u, e, i) ==
    /\ i \in offered /\ ~EmailTaken(e) /\ Fresh(u)
    /\ Start(r, "lookup", [op |-> "complete", user |-> u, email |-> e, identity |-> i,
                           phone |-> FALSE])

LookUpIdentity(r) ==
    /\ pc[r] = "lookup" /\ ~IdentityTaken(job[r].identity)
    /\ Goto(r, "insert")

AlreadyConnected(r) ==
    /\ pc[r] = "lookup" /\ IdentityTaken(job[r].identity)
    /\ End(r)
    /\ UNCHANGED <<user, social, plan, offered>>

(* Mutant: each repository call commits by itself. *)
InsertUserAtOnce(r) ==
    LET j == job[r] IN
        /\ pc[r] = "insert" /\ EmailInsertable(r, j.email)
        /\ pc' = [pc EXCEPT ![r] = IF j.op = "complete" THEN "link" ELSE "commit"]
        /\ user' = [user EXCEPT ![j.user] = [email |-> j.email, password |-> j.op = "signup",
                                             phone |-> j.phone, deleted |-> FALSE]]
        /\ UNCHANGED <<social, plan, offered, job>>

(* INSERT INTO users and the free subscription; complete goes on with the  *)
(* social account.                                                         *)
InsertUser(r) ==
    /\ pc[r] = "insert" /\ EmailInsertable(r, job[r].email)
    /\ Goto(r, IF job[r].op = "complete" THEN "link" ELSE "commit")

InsertUserConflict(r) ==
    /\ pc[r] = "insert" /\ EmailTaken(job[r].email)
    /\ End(r)
    /\ UNCHANGED <<user, social, plan, offered>>

LinkIdentity(r) ==
    /\ pc[r] = "link" /\ IdentityInsertable(r, job[r].identity)
    /\ Goto(r, "commit")

LinkConflict(r) ==
    /\ pc[r] = "link" /\ IdentityTaken(job[r].identity)
    /\ End(r)
    /\ UNCHANGED <<user, social, plan, offered>>

CommitSignup(r) ==
    LET j == job[r] IN
        /\ pc[r] = "commit"
        /\ user' = [user EXCEPT ![j.user] = [email |-> j.email, password |-> j.op = "signup",
                                             phone |-> j.phone, deleted |-> FALSE]]
        /\ social' = [social EXCEPT ![j.user] = j.identity]
        /\ plan' = plan \cup {j.user}
        /\ End(r)
        /\ UNCHANGED offered

-----------------------------------------------------------------------------
(* DELETE /auth/me, behind require_authenticated. *)
BeginDelete(r, u) ==
    /\ Live(u)
    /\ Start(r, "delete", [op |-> "delete", user |-> u, email |-> None, identity |-> None,
                           phone |-> FALSE])

LockDelete(r) ==
    /\ pc[r] = "delete" /\ UserFree(r, job[r].user) /\ Live(job[r].user)
    /\ Goto(r, "erase")

DeleteGone(r) ==
    /\ pc[r] = "delete" /\ UserFree(r, job[r].user) /\ ~Live(job[r].user)
    /\ End(r)
    /\ UNCHANGED <<user, social, plan, offered>>

(* anonymize_by_user_id and soft_delete; the subscription stays. *)
CommitDelete(r) ==
    LET u == job[r].user IN
        /\ pc[r] = "erase"
        /\ user' = [user EXCEPT ![u] = [email |-> Tombstone(u, user[u].email),
                                        password |-> FALSE, phone |-> FALSE, deleted |-> TRUE]]
        /\ social' = IF social[u] \in Identities
                     THEN [social EXCEPT ![u] = Tombstone(u, @)] ELSE social
        /\ End(r)
        /\ UNCHANGED <<plan, offered>>

(* PATCH /users/me with a phone number or none: the row is read with       *)
(* FOR UPDATE, so after the lock.                                          *)
BeginUpdate(r, u, phone) ==
    /\ Live(u)
    /\ Start(r, "update", [op |-> "update", user |-> u, email |-> None, identity |-> None,
                           phone |-> phone])

(* Mutant: the row was read, and found live, before the lock. *)
UpdateMeStale(r) ==
    /\ pc[r] = "update" /\ UserFree(r, job[r].user)
    /\ user' = [user EXCEPT ![job[r].user].phone = job[r].phone]
    /\ End(r)
    /\ UNCHANGED <<social, plan, offered>>

UpdateMe(r) ==
    /\ pc[r] = "update" /\ UserFree(r, job[r].user) /\ Live(job[r].user)
    /\ user' = [user EXCEPT ![job[r].user].phone = job[r].phone]
    /\ End(r)
    /\ UNCHANGED <<social, plan, offered>>

UpdateGone(r) ==
    /\ pc[r] = "update" /\ UserFree(r, job[r].user) /\ ~Live(job[r].user)
    /\ End(r)
    /\ UNCHANGED <<user, social, plan, offered>>

(* POST /auth/login of an account whose hash has old parameters: the row   *)
(* is read, not locked, and found live, with a password.                   *)
BeginRehash(r, u) ==
    /\ Live(u) /\ user[u].password
    /\ Start(r, "rehash", [op |-> "rehash", user |-> u, email |-> None, identity |-> None,
                           phone |-> FALSE])

(* UPDATE users SET password_hash WHERE id: it waits for the row, and does *)
(* not look whether the account is still there.                            *)
StoreHash(r) ==
    /\ pc[r] = "rehash" /\ UserFree(r, job[r].user)
    /\ user' = [user EXCEPT ![job[r].user].password = TRUE]
    /\ End(r)
    /\ UNCHANGED <<social, plan, offered>>

(* A crash, a database error, or no FREE plan in the table: rollback. *)
Fail(r) ==
    /\ pc[r] # "idle"
    /\ End(r)
    /\ UNCHANGED <<user, social, plan, offered>>

-----------------------------------------------------------------------------
Serve(r) ==
    \/ LookUpIdentity(r) \/ AlreadyConnected(r)
    \/ InsertUser(r) \/ InsertUserConflict(r)
    \/ LinkIdentity(r) \/ LinkConflict(r) \/ CommitSignup(r)
    \/ LockDelete(r) \/ DeleteGone(r) \/ CommitDelete(r)
    \/ UpdateMe(r) \/ UpdateGone(r) \/ StoreHash(r)

Next ==
    \/ \E r \in Requests :
          \/ \E u \in Users, e \in Emails, phone \in BOOLEAN : BeginSignup(r, u, e, phone)
          \/ \E u \in Users, e \in Emails, i \in Identities : BeginComplete(r, u, e, i)
          \/ \E u \in Users : BeginDelete(r, u) \/ BeginRehash(r, u)
          \/ \E u \in Users, phone \in BOOLEAN : BeginUpdate(r, u, phone)
          \/ Serve(r) \/ Fail(r)
    \/ \E i \in Identities : OfferSignup(i)

Spec == Init /\ [][Next]_vars

-----------------------------------------------------------------------------
(* Who a key signs in to, as get_by_email and get_by_provider_user_id see  *)
(* it.                                                                     *)
Bearers(k) == {u \in Users : user[u].email = k \/ social[u] = k}
OwnerOf == [k \in Emails \cup Identities |->
              IF Bearers(k) = {} THEN None ELSE CHOOSE u \in Bearers(k) : TRUE]

Book == INSTANCE Directory WITH Keys <- Emails \cup Identities, Users <- Users, None <- None,
                                owner <- OwnerOf, closed <- {u \in Users : user[u].deleted}

(* Sign-ups that look a key up before they insert it, and deletions that   *)
(* release keys meanwhile, keep every key with one account; an address and *)
(* the identity that signed up with it come and go together.               *)
ImplementsDirectory == Book!Spec

(* Accounts are never left half made: who has an account can sign in to it *)
(* and has a subscription, whatever conflicted or failed on the way.       *)
NoHalfAccounts ==
    \A u \in Users : Live(u) => u \in plan /\ (user[u].password \/ social[u] \in Identities)

(* No contact data of a deleted account can be used: its address and its   *)
(* identity are keys no more (their texts stay, inside the tombstones),    *)
(* its phone number is gone, and no request that was waiting for its row   *)
(* puts one back.  The password hash is another matter: see StoreHash.     *)
Erased ==
    \A u \in Users : user[u].deleted =>
        user[u].email \notin Emails /\ social[u] \notin Identities /\ ~user[u].phone
=============================================================================
