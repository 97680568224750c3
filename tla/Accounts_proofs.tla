----------------------------- MODULE Accounts_proofs -----------------------------
(***************************************************************************)
(* Theorems about Accounts, for every set of users, requests, addresses    *)
(* and identities.                                                         *)
(***************************************************************************)
EXTENDS Accounts, TLAPS

-----------------------------------------------------------------------------
(* The inductive invariant. *)

Rows ==
    \A u \in Users : /\ user[u] = NoUser => social[u] = None
                     /\ Live(u) => user[u].email \in Emails

(* The unique indexes. *)
KeysUnique ==
    \A u, w \in Users : u # w =>
        /\ user[u].email \in Emails => user[u].email # user[w].email
        /\ social[u] \in Identities => social[u] # social[w]

(* A sign-up in progress is for a row that nobody has or knows of. *)
SignsUp(r) ==
    pc[r] \in {"lookup", "insert", "link", "commit"} =>
        /\ job[r].op \in {"signup", "complete"} /\ job[r].email \in Emails
        /\ pc[r] \in {"lookup", "link"} => job[r].op = "complete"
        /\ IF job[r].op = "complete" THEN job[r].identity \in Identities
                                     ELSE job[r].identity = None
        /\ user[job[r].user] = NoUser
        /\ \A s \in Requests \ {r} : job[s].user # job[r].user

(* A key that was inserted is the inserter's until it commits. *)
Reserves(r) ==
    /\ pc[r] \in {"link", "commit"} =>
          /\ ~EmailTaken(job[r].email)
          /\ \A s \in Requests \ {r} :
                pc[s] \in {"link", "commit"} => job[s].email # job[r].email
    /\ pc[r] = "commit" /\ job[r].identity \in Identities =>
          /\ ~IdentityTaken(job[r].identity)
          /\ \A s \in Requests \ {r} : pc[s] = "commit" => job[s].identity # job[r].identity

(* A deletion past its lock is of a live user, and the only one of it. *)
Erases(r) ==
    pc[r] = "erase" =>
        /\ Live(job[r].user)
        /\ \A s \in Requests \ {r} : pc[s] = "erase" => job[s].user # job[r].user

(* A login that stores a new hash does so in a row that exists. *)
Stores(r) == pc[r] = "rehash" => user[job[r].user] # NoUser

AccountsInv ==
    /\ TypeOK /\ Rows /\ KeysUnique /\ NoHalfAccounts /\ Erased
    /\ \A r \in Requests : SignsUp(r) /\ Reserves(r) /\ Erases(r) /\ Stores(r)

-----------------------------------------------------------------------------
(* The steps of Accounts by what they do. *)

Quits(r) == pc[r] # "idle" /\ End(r) /\ UNCHANGED <<user, social, plan, offered>>

Begins(r) ==
    \/ \E u \in Users, e \in Emails, phone \in BOOLEAN : BeginSignup(r, u, e, phone)
    \/ \E u \in Users, e \in Emails, i \in Identities : BeginComplete(r, u, e, i)
    \/ \E u \in Users : BeginDelete(r, u) \/ BeginRehash(r, u)
    \/ \E u \in Users, phone \in BOOLEAN : BeginUpdate(r, u, phone)

(* The transactions that write tables. *)
Writes(r) == CommitSignup(r) \/ CommitDelete(r) \/ UpdateMe(r) \/ StoreHash(r)

Advances(r) == LookUpIdentity(r) \/ InsertUser(r) \/ LinkIdentity(r) \/ LockDelete(r)

LEMMA StepKinds ==
    ASSUME [Next]_vars
    PROVE  \/ \E r \in Requests : \/ Begins(r) \/ Quits(r) \/ Advances(r)
                                  \/ Writes(r)
           \/ \E i \in Identities : OfferSignup(i)
           \/ UNCHANGED vars
<1>1. ASSUME NEW r \in Requests,
             \/ AlreadyConnected(r) \/ InsertUserConflict(r) \/ LinkConflict(r)
             \/ DeleteGone(r) \/ UpdateGone(r) \/ Fail(r)
      PROVE  Quits(r)
  BY <1>1 DEF AlreadyConnected, InsertUserConflict, LinkConflict, DeleteGone, UpdateGone, Fail,
              Quits
<1>2. QED
  BY <1>1 DEF Next, Serve, Begins, Advances, Writes

TablesStay == UNCHANGED <<user, social, plan>>

LEMMA TableKinds ==
    ASSUME [Next]_vars
    PROVE  \/ TablesStay
           \/ \E r \in Requests : Writes(r)
<1>1. ASSUME NEW r \in Requests, Begins(r) \/ Quits(r) \/ Advances(r)
      PROVE  TablesStay
  BY <1>1 DEF Begins, BeginSignup, BeginComplete, BeginDelete, BeginRehash, BeginUpdate, Start, Quits,
              Advances, LookUpIdentity, InsertUser, LinkIdentity, LockDelete, Goto, TablesStay
<1>2. QED
  BY <1>1, StepKinds DEF OfferSignup, vars, TablesStay

LEMMA JobFacts ==
    ASSUME TypeOK, NEW r \in Requests, pc[r] # "idle"
    PROVE  /\ job[r] \in Job
           /\ job[r].user \in Users /\ job[r].email \in Emails \cup {None}
           /\ job[r].identity \in Identities \cup {None} /\ job[r].phone \in BOOLEAN
<1>1. job[r] \in Job
  BY DEF TypeOK
<1>2. QED
  BY <1>1 DEF Job

LEMMA NotAJob ==
    /\ NoJob \notin Job /\ NoJob.user = None /\ NoJob.email = None /\ NoJob.identity = None
BY DEF NoJob, Job

(* A key is not a tombstone, and neither is NULL. *)
LEMMA Values ==
    /\ None \notin Users \cup Emails \cup Identities \cup Tombstones
    /\ Emails \cap Identities = {} /\ Emails \cap Tombstones = {}
    /\ Identities \cap Tombstones = {}
BY AccountsAssumption

LEMMA RowFacts ==
    ASSUME TypeOK, NEW u \in Users
    PROVE  /\ user[u] \in UserRow \cup {NoUser}
           /\ user[u] # NoUser => /\ user[u] \in UserRow
                                  /\ user[u].email \in Emails \cup Tombstones
           /\ social[u] \in Identities \cup Tombstones \cup {None}
           /\ NoUser \notin UserRow
           /\ NoUser.email = None /\ NoUser.deleted = FALSE /\ NoUser.phone = FALSE
<1>1. user[u] \in UserRow \cup {NoUser} /\ social[u] \in Identities \cup Tombstones \cup {None}
  BY DEF TypeOK
<1>2. NoUser.email = None /\ NoUser.deleted = FALSE /\ NoUser.phone = FALSE
  BY DEF NoUser
<1>3. \A row \in UserRow : row.email \in Emails \cup Tombstones
  BY DEF UserRow
<1>4. QED
  BY <1>1, <1>2, <1>3, Values

-----------------------------------------------------------------------------
(* What the writing steps store. *)

OthersKept(u) ==
    \A w \in Users : w # u => user'[w] = user[w] /\ social'[w] = social[w]

LEMMA SignupFacts ==
    ASSUME TypeOK, NEW r \in Requests, CommitSignup(r), SignsUp(r)
    PROVE  /\ job[r].user \in Users
           /\ user' \in [Users -> UserRow \cup {NoUser}]
           /\ social' \in [Users -> Identities \cup Tombstones \cup {None}]
           /\ user'[job[r].user] \in UserRow /\ ~user'[job[r].user].deleted
           /\ user'[job[r].user].email = job[r].email
           /\ user'[job[r].user].password = (job[r].op = "signup")
           /\ social'[job[r].user] = job[r].identity
           /\ plan' = plan \cup {job[r].user}
           /\ OthersKept(job[r].user)
<1> DEFINE u == job[r].user
           row == [email |-> job[r].email, password |-> job[r].op = "signup",
                   phone |-> job[r].phone, deleted |-> FALSE]
<1>1. /\ u \in Users /\ job[r].email \in Emails /\ job[r].phone \in BOOLEAN
      /\ job[r].identity \in Identities \cup {None}
  BY JobFacts DEF CommitSignup, SignsUp
<1>2. /\ row \in UserRow /\ row.email = job[r].email /\ row.deleted = FALSE
      /\ row.password = (job[r].op = "signup")
  BY <1>1 DEF UserRow
<1>3. /\ user' = [user EXCEPT ![u] = row] /\ social' = [social EXCEPT ![u] = job[r].identity]
      /\ plan' = plan \cup {u}
  BY DEF CommitSignup
<1> HIDE DEF u, row
<1>4. /\ user' \in [Users -> UserRow \cup {NoUser}]
      /\ social' \in [Users -> Identities \cup Tombstones \cup {None}]
  BY <1>1, <1>2, <1>3 DEF TypeOK
<1>5. user'[u] = row /\ social'[u] = job[r].identity /\ OthersKept(u)
  BY <1>1, <1>3 DEF TypeOK, OthersKept
<1>6. QED
  BY <1>1, <1>2, <1>3, <1>4, <1>5 DEF u

LEMMA DeleteFacts ==
    ASSUME TypeOK, Rows, NEW r \in Requests, CommitDelete(r), Erases(r)
    PROVE  /\ job[r].user \in Users /\ Live(job[r].user)
           /\ user' \in [Users -> UserRow \cup {NoUser}]
           /\ social' \in [Users -> Identities \cup Tombstones \cup {None}]
           /\ user'[job[r].user] \in UserRow /\ user'[job[r].user].deleted
           /\ ~user'[job[r].user].phone
           /\ user'[job[r].user].email \in Tombstones
           /\ social'[job[r].user] \in Tombstones \cup {None}
           /\ plan' = plan
           /\ OthersKept(job[r].user)
<1> DEFINE u == job[r].user
           row == [email |-> Tombstone(u, user[u].email), password |-> FALSE,
                   phone |-> FALSE, deleted |-> TRUE]
           soc == IF social[u] \in Identities THEN Tombstone(u, social[u]) ELSE social[u]
<1>1. u \in Users /\ Live(u) /\ user[u].email \in Emails
  BY JobFacts DEF CommitDelete, Erases, Rows
<1>2. Tombstone(u, user[u].email) \in Tombstones
  BY <1>1 DEF Tombstone, Tombstones
<1>3. soc \in Tombstones \cup {None}
  <2>1. CASE social[u] \in Identities
    BY <1>1, <2>1 DEF Tombstone, Tombstones
  <2>2. CASE social[u] \notin Identities
    BY <1>1, <2>2, RowFacts
  <2>3. QED
    BY <2>1, <2>2
<1>4. row \in UserRow /\ row.email \in Tombstones /\ row.deleted /\ ~row.phone
  BY <1>2 DEF UserRow
<1>5. user' = [user EXCEPT ![u] = row] /\ plan' = plan
  BY DEF CommitDelete
<1>6. social' = [social EXCEPT ![u] = soc]
  <2>1. CASE social[u] \in Identities
    BY <2>1 DEF CommitDelete
  <2>2. CASE social[u] \notin Identities
    BY <1>1, <2>2 DEF CommitDelete, TypeOK
  <2>3. QED
    BY <2>1, <2>2
<1> HIDE DEF u, row, soc
<1>7. /\ user' \in [Users -> UserRow \cup {NoUser}]
      /\ social' \in [Users -> Identities \cup Tombstones \cup {None}]
  BY <1>1, <1>3, <1>4, <1>5, <1>6 DEF TypeOK
<1>8. user'[u] = row /\ social'[u] = soc /\ OthersKept(u)
  BY <1>1, <1>5, <1>6 DEF TypeOK, OthersKept
<1>9. QED
  BY <1>1, <1>3, <1>4, <1>5, <1>7, <1>8 DEF u

LEMMA UpdateFacts ==
    ASSUME TypeOK, NEW r \in Requests, UpdateMe(r)
    PROVE  /\ job[r].user \in Users /\ Live(job[r].user)
           /\ user' \in [Users -> UserRow \cup {NoUser}]
           /\ user'[job[r].user] \in UserRow /\ ~user'[job[r].user].deleted
           /\ user'[job[r].user].email = user[job[r].user].email
           /\ user'[job[r].user].password = user[job[r].user].password
           /\ UNCHANGED <<social, plan>>
           /\ OthersKept(job[r].user)
<1> DEFINE u == job[r].user
           row == [user[u] EXCEPT !.phone = job[r].phone]
<1>1. u \in Users /\ Live(u) /\ job[r].phone \in BOOLEAN
  BY JobFacts DEF UpdateMe
<1>2. user[u] \in UserRow /\ ~user[u].deleted
  BY <1>1, RowFacts DEF Live
<1>3. /\ row \in UserRow /\ ~row.deleted /\ row.email = user[u].email
      /\ row.password = user[u].password
  BY <1>1, <1>2 DEF UserRow
<1>4. user' = [user EXCEPT ![u] = row] /\ UNCHANGED <<social, plan>>
  BY DEF UpdateMe
<1> HIDE DEF u, row
<1>5. user' \in [Users -> UserRow \cup {NoUser}] /\ user'[u] = row /\ OthersKept(u)
  BY <1>1, <1>3, <1>4 DEF TypeOK, OthersKept
<1>6. QED
  BY <1>1, <1>3, <1>4, <1>5 DEF u

LEMMA StoreFacts ==
    ASSUME TypeOK, NEW r \in Requests, StoreHash(r), Stores(r)
    PROVE  /\ job[r].user \in Users /\ user[job[r].user] # NoUser
           /\ user' \in [Users -> UserRow \cup {NoUser}]
           /\ user'[job[r].user] \in UserRow
           /\ user'[job[r].user] = [user[job[r].user] EXCEPT !.password = TRUE]
           /\ user'[job[r].user].email = user[job[r].user].email
           /\ user'[job[r].user].phone = user[job[r].user].phone
           /\ user'[job[r].user].deleted = user[job[r].user].deleted
           /\ user'[job[r].user].password
           /\ UNCHANGED <<social, plan>>
           /\ OthersKept(job[r].user)
<1> DEFINE u == job[r].user
           row == [user[u] EXCEPT !.password = TRUE]
<1>1. u \in Users /\ user[u] # NoUser /\ user[u] \in UserRow
  BY JobFacts, RowFacts DEF StoreHash, Stores
<1>2. /\ row \in UserRow /\ row.email = user[u].email /\ row.phone = user[u].phone
      /\ row.deleted = user[u].deleted /\ row.password
  BY <1>1 DEF UserRow
<1>3. user' = [user EXCEPT ![u] = row] /\ UNCHANGED <<social, plan>>
  <2>1. user' = [user EXCEPT ![u].password = TRUE] /\ UNCHANGED <<social, plan>>
    BY DEF StoreHash
  <2>2. QED
    BY <2>1
<1>4. row = [user[u] EXCEPT !.password = TRUE]
  OBVIOUS
<1> HIDE DEF u, row
<1>5. user' \in [Users -> UserRow \cup {NoUser}] /\ user'[u] = row /\ OthersKept(u)
  BY <1>1, <1>2, <1>3 DEF TypeOK, OthersKept
<1>6. QED
  BY <1>1, <1>2, <1>3, <1>4, <1>5 DEF u

(* A row stays a row, and only a transaction of its user writes it.        *)
LEMMA RowStep ==
    ASSUME AccountsInv, [Next]_vars
    PROVE  /\ user' \in [Users -> UserRow \cup {NoUser}]
           /\ social' \in [Users -> Identities \cup Tombstones \cup {None}]
           /\ plan' \in SUBSET Users
           /\ \A u \in Users :
                 \/ user'[u] = user[u] /\ social'[u] = social[u]
                 \/ \E r \in Requests : /\ u = job[r].user
                                        /\ Writes(r)
<1>0. TypeOK /\ Rows /\ \A r \in Requests : SignsUp(r) /\ Erases(r) /\ Stores(r)
  BY DEF AccountsInv
<1>1. CASE TablesStay
  BY <1>0, <1>1 DEF TablesStay, TypeOK
<1>2. ASSUME NEW r \in Requests, CommitSignup(r)
      PROVE  /\ user' \in [Users -> UserRow \cup {NoUser}]
             /\ social' \in [Users -> Identities \cup Tombstones \cup {None}]
             /\ plan' \in SUBSET Users /\ OthersKept(job[r].user)
  BY <1>0, <1>2, SignupFacts DEF TypeOK
<1>3. ASSUME NEW r \in Requests, CommitDelete(r)
      PROVE  /\ user' \in [Users -> UserRow \cup {NoUser}]
             /\ social' \in [Users -> Identities \cup Tombstones \cup {None}]
             /\ plan' \in SUBSET Users /\ OthersKept(job[r].user)
  BY <1>0, <1>3, DeleteFacts DEF TypeOK
<1>4. ASSUME NEW r \in Requests, UpdateMe(r)
      PROVE  /\ user' \in [Users -> UserRow \cup {NoUser}]
             /\ social' \in [Users -> Identities \cup Tombstones \cup {None}]
             /\ plan' \in SUBSET Users /\ OthersKept(job[r].user)
  BY <1>0, <1>4, UpdateFacts DEF TypeOK
<1>5. ASSUME NEW r \in Requests, StoreHash(r)
      PROVE  /\ user' \in [Users -> UserRow \cup {NoUser}]
             /\ social' \in [Users -> Identities \cup Tombstones \cup {None}]
             /\ plan' \in SUBSET Users /\ OthersKept(job[r].user)
  BY <1>0, <1>5, StoreFacts DEF TypeOK
<1>6. QED
  BY <1>1, <1>2, <1>3, <1>4, <1>5, TableKinds DEF OthersKept, Writes

LEMMA RowStays ==
    ASSUME AccountsInv, [Next]_vars, NEW u \in Users, user[u] # NoUser
    PROVE  user'[u] # NoUser
<1>0. TypeOK /\ Rows /\ \A r \in Requests : SignsUp(r) /\ Erases(r) /\ Stores(r)
  BY DEF AccountsInv
<1>1. ASSUME NEW r \in Requests, u = job[r].user, Writes(r)
      PROVE  user'[u] \in UserRow
  BY <1>0, <1>1, SignupFacts, DeleteFacts, UpdateFacts, StoreFacts DEF Writes
<1>2. QED
  BY <1>0, <1>1, RowStep, RowFacts

-----------------------------------------------------------------------------
(* The requests: a step moves one of them, or none.                        *)

Idle(r) == pc'[r] = "idle" /\ job'[r] = NoJob

(* The start of a sign-up, or of a deletion or an update. *)
Enters(r) ==
    /\ pc[r] = "idle" /\ job'[r] \in Job
    /\ \/ /\ pc'[r] \in {"insert", "lookup"} /\ Fresh(job'[r].user)
          /\ job'[r].email \in Emails /\ ~EmailTaken(job'[r].email)
          /\ job'[r].op \in {"signup", "complete"}
          /\ pc'[r] = "lookup" => job'[r].op = "complete"
          /\ IF job'[r].op = "complete" THEN job'[r].identity \in Identities
                                        ELSE job'[r].identity = None
       \/ pc'[r] \in {"delete", "update", "rehash"} /\ Live(job'[r].user)

GoesOn(r) ==
    /\ job'[r] = job[r]
    /\ \/ LookUpIdentity(r) /\ pc'[r] = "insert"
       \/ InsertUser(r) /\ pc'[r] = IF job[r].op = "complete" THEN "link" ELSE "commit"
       \/ LinkIdentity(r) /\ pc'[r] = "commit"
       \/ LockDelete(r) /\ pc'[r] = "erase"

Moves(r) == Idle(r) \/ Enters(r) \/ (GoesOn(r) /\ TablesStay)

Stays(s) == pc'[s] = pc[s] /\ job'[s] = job[s]

OthersStay(r) == \A s \in Requests \ {r} : Stays(s)

Doms == /\ pc' = [r \in Requests |-> pc'[r]] /\ job' = [r \in Requests |-> job'[r]]

LEMMA EntersJob ==
    ASSUME TypeOK, NEW r \in Requests, Begins(r)
    PROVE  Doms /\ Enters(r) /\ OthersStay(r)
<1>1. ASSUME NEW at \in {"insert", "lookup"}, NEW j \in Job, Start(r, at, j), Fresh(j.user),
             j.email \in Emails, ~EmailTaken(j.email), j.op \in {"signup", "complete"},
             at = "lookup" => j.op = "complete",
             IF j.op = "complete" THEN j.identity \in Identities ELSE j.identity = None
      PROVE  Doms /\ Enters(r) /\ OthersStay(r)
  BY <1>1 DEF Start, TypeOK, Doms, Enters, OthersStay, Stays
<1>2. ASSUME NEW at \in {"delete", "update", "rehash"}, NEW j \in Job, Start(r, at, j), Live(j.user)
      PROVE  Doms /\ Enters(r) /\ OthersStay(r)
  BY <1>2 DEF Start, TypeOK, Doms, Enters, OthersStay, Stays
<1>3. ASSUME NEW u \in Users, NEW e \in Emails, NEW phone \in BOOLEAN, BeginSignup(r, u, e, phone)
      PROVE  Doms /\ Enters(r) /\ OthersStay(r)
  <2> DEFINE j == [op |-> "signup", user |-> u, email |-> e, identity |-> None, phone |-> phone]
  <2>1. j \in Job /\ j.user = u /\ j.email = e /\ j.op = "signup" /\ j.identity = None
    BY DEF Job
  <2>2. Start(r, "insert", j) /\ Fresh(u) /\ ~EmailTaken(e)
    BY <1>3 DEF BeginSignup
  <2> HIDE DEF j
  <2>3. QED
    BY <1>1, <2>1, <2>2
<1>4. ASSUME NEW u \in Users, NEW e \in Emails, NEW i \in Identities, BeginComplete(r, u, e, i)
      PROVE  Doms /\ Enters(r) /\ OthersStay(r)
  <2> DEFINE j == [op |-> "complete", user |-> u, email |-> e, identity |-> i, phone |-> FALSE]
  <2>1. j \in Job /\ j.user = u /\ j.email = e /\ j.op = "complete" /\ j.identity = i
    BY DEF Job
  <2>2. Start(r, "lookup", j) /\ Fresh(u) /\ ~EmailTaken(e)
    BY <1>4 DEF BeginComplete
  <2> HIDE DEF j
  <2>3. QED
    BY <1>1, <2>1, <2>2
<1>5. ASSUME NEW u \in Users, NEW at \in {"delete", "update", "rehash"}, NEW phone \in BOOLEAN, Live(u),
             Start(r, at, [op |-> at, user |-> u, email |-> None, identity |-> None,
                           phone |-> phone])
      PROVE  Doms /\ Enters(r) /\ OthersStay(r)
  <2> DEFINE j == [op |-> at, user |-> u, email |-> None, identity |-> None, phone |-> phone]
  <2>1. j \in Job /\ j.user = u
    BY DEF Job
  <2>2. Start(r, at, j)
    BY <1>5
  <2> HIDE DEF j
  <2>3. QED
    BY <1>2, <1>5, <2>1, <2>2
<1>6. QED
  BY <1>3, <1>4, <1>5 DEF Begins, BeginDelete, BeginRehash, BeginUpdate

LEMMA JobStep ==
    ASSUME AccountsInv, [Next]_vars
    PROVE  Doms /\ \/ \A s \in Requests : Stays(s)
                   \/ \E r \in Requests : Moves(r) /\ OthersStay(r)
<1>0. TypeOK
  BY DEF AccountsInv
<1>1. ASSUME NEW r \in Requests, End(r)
      PROVE  Doms /\ Moves(r) /\ OthersStay(r)
  BY <1>0, <1>1 DEF End, TypeOK, Doms, Moves, Idle, OthersStay, Stays
<1>2. ASSUME NEW r \in Requests, Begins(r)
      PROVE  Doms /\ Moves(r) /\ OthersStay(r)
  BY <1>0, <1>2, EntersJob DEF Moves
<1>3. ASSUME NEW r \in Requests, Advances(r)
      PROVE  Doms /\ Moves(r) /\ OthersStay(r)
  <2>1. PICK at \in {"insert", "link", "commit", "erase"} :
           /\ Goto(r, at)
           /\ \/ LookUpIdentity(r) /\ at = "insert"
              \/ InsertUser(r) /\ at = IF job[r].op = "complete" THEN "link" ELSE "commit"
              \/ LinkIdentity(r) /\ at = "commit"
              \/ LockDelete(r) /\ at = "erase"
    BY <1>3 DEF Advances, LookUpIdentity, InsertUser, LinkIdentity, LockDelete
  <2>2. /\ Doms /\ OthersStay(r) /\ pc'[r] = at /\ job'[r] = job[r] /\ TablesStay
    BY <1>0, <2>1 DEF Goto, TypeOK, Doms, OthersStay, Stays, TablesStay
  <2>3. QED
    BY <2>1, <2>2 DEF Moves, GoesOn
<1>4. CASE UNCHANGED <<pc, job>>
  BY <1>0, <1>4 DEF TypeOK, Doms, Stays
<1>5. \/ UNCHANGED <<pc, job>>
      \/ \E r \in Requests : End(r) \/ Begins(r) \/ Advances(r)
  BY StepKinds DEF Quits, Writes, CommitSignup, CommitDelete, UpdateMe, StoreHash, OfferSignup,
     vars
<1>6. QED
  BY <1>1, <1>2, <1>3, <1>4, <1>5

(* A request that does not end has committed nothing. *)
LEMMA Commits ==
    ASSUME TypeOK, NEW r \in Requests, Writes(r)
    PROVE  Idle(r) /\ pc[r] \in {"commit", "erase", "update", "rehash"}
BY DEF TypeOK, Writes, CommitSignup, CommitDelete, UpdateMe, StoreHash, End, Idle

-----------------------------------------------------------------------------
(* Each part of the invariant is kept. *)

LEMMA TypeStep ==
    ASSUME AccountsInv, [Next]_vars
    PROVE  TypeOK'
<1>0. TypeOK
  BY DEF AccountsInv
<1> DEFINE PCs == {"idle", "lookup", "insert", "link", "commit", "delete", "erase", "update",
                   "rehash"}
           Good(r) == /\ pc'[r] \in PCs
                      /\ job'[r] \in Job \cup {NoJob}
                      /\ pc'[r] = "idle" <=> job'[r] = NoJob
<1>1. ASSUME NEW r \in Requests, Stays(r) PROVE Good(r)
  BY <1>0, <1>1 DEF Stays, TypeOK
<1>2. ASSUME NEW r \in Requests, Moves(r) PROVE Good(r)
  BY <1>0, <1>2, JobFacts, NotAJob DEF Moves, Idle, Enters, GoesOn, LookUpIdentity, InsertUser,
     LinkIdentity, LockDelete
<1>3. \A r \in Requests : Good(r)
  BY <1>1, <1>2, JobStep DEF OthersStay
<1>4. pc' \in [Requests -> PCs] /\ job' \in [Requests -> Job \cup {NoJob}]
  BY <1>3, JobStep DEF Doms
<1>5. offered' \in SUBSET Identities
  <2>1. UNCHANGED offered \/ \E i \in Identities : OfferSignup(i)
    BY StepKinds DEF Begins, BeginSignup, BeginComplete, BeginDelete, BeginRehash, BeginUpdate, Start, Quits,
       Advances, LookUpIdentity, InsertUser, LinkIdentity, LockDelete, Goto, CommitSignup,
       CommitDelete, UpdateMe, StoreHash, Writes, vars
  <2>2. QED
    BY <1>0, <2>1 DEF OfferSignup, TypeOK
<1>6. QED
  BY <1>3, <1>4, <1>5, RowStep DEF TypeOK

LEMMA RowsStep ==
    ASSUME AccountsInv, [Next]_vars
    PROVE  Rows' /\ NoHalfAccounts' /\ Erased'
<1>0. /\ TypeOK /\ Rows /\ NoHalfAccounts /\ Erased
      /\ \A r \in Requests : SignsUp(r) /\ Erases(r) /\ Stores(r)
  BY DEF AccountsInv
<1> DEFINE Good(u) ==
      /\ user'[u] = NoUser => social'[u] = None
      /\ user'[u] # NoUser /\ ~user'[u].deleted =>
            /\ user'[u].email \in Emails /\ u \in plan'
            /\ user'[u].password \/ social'[u] \in Identities
      /\ user'[u].deleted =>
            user'[u].email \notin Emails /\ social'[u] \notin Identities /\ ~user'[u].phone
<1>1. plan \subseteq plan'
  BY TableKinds DEF TablesStay, Writes, CommitSignup, CommitDelete, UpdateMe, StoreHash
<1>2. ASSUME NEW u \in Users, user'[u] = user[u], social'[u] = social[u]
      PROVE  Good(u)
  BY <1>0, <1>1, <1>2 DEF Live, Rows, NoHalfAccounts, Erased
<1>3. ASSUME NEW r \in Requests, CommitSignup(r)
      PROVE  Good(job[r].user)
  BY <1>0, <1>3, SignupFacts, RowFacts DEF CommitSignup, SignsUp, Live
<1>4. ASSUME NEW r \in Requests, CommitDelete(r)
      PROVE  Good(job[r].user)
  <2> DEFINE u == job[r].user
  <2>1. /\ u \in Users /\ user'[u] \in UserRow /\ user'[u].deleted /\ ~user'[u].phone
        /\ user'[u].email \in Tombstones /\ social'[u] \in Tombstones \cup {None}
    BY <1>0, <1>4, DeleteFacts
  <2>2. /\ user'[u] # NoUser /\ user'[u].email \notin Emails
        /\ social'[u] \notin Identities
    BY <1>0, <2>1, RowFacts, Values
  <2> HIDE DEF u
  <2>3. Good(u)
    BY <2>1, <2>2 DEF Live
  <2>4. QED
    BY <2>3 DEF u
<1>5. ASSUME NEW r \in Requests, UpdateMe(r)
      PROVE  Good(job[r].user)
  <2> DEFINE u == job[r].user
  <2>1. u \in Users /\ Live(u)
    BY <1>0, <1>5, UpdateFacts
  <2>2. /\ user'[u] # NoUser /\ ~user'[u].deleted /\ user'[u].email = user[u].email
        /\ user'[u].password = user[u].password /\ social' = social /\ plan' = plan
    BY <1>0, <1>5, <2>1, UpdateFacts, RowFacts
  <2>3. /\ user[u].email \in Emails /\ u \in plan
        /\ user[u].password \/ social[u] \in Identities
    BY <1>0, <2>1 DEF Rows, NoHalfAccounts
  <2> HIDE DEF u
  <2>4. Good(u)
    BY <2>2, <2>3
  <2>5. QED
    BY <2>4 DEF u
<1>6. ASSUME NEW r \in Requests, StoreHash(r)
      PROVE  Good(job[r].user)
  <2> DEFINE u == job[r].user
  <2>1. /\ u \in Users /\ user[u] # NoUser
        /\ user'[u] \in UserRow /\ user'[u].email = user[u].email
        /\ user'[u].phone = user[u].phone /\ user'[u].deleted = user[u].deleted
        /\ user'[u].password /\ social' = social /\ plan' = plan
    BY <1>0, <1>6, StoreFacts
  <2>2. user'[u] # NoUser
    BY <1>0, <2>1, RowFacts
  <2>3. /\ ~user[u].deleted => user[u].email \in Emails /\ u \in plan
        /\ user[u].deleted => /\ user[u].email \notin Emails /\ social[u] \notin Identities
                              /\ ~user[u].phone
    BY <1>0, <2>1 DEF Rows, NoHalfAccounts, Erased, Live
  <2> HIDE DEF u
  <2>4. Good(u)
    BY <2>1, <2>2, <2>3
  <2>5. QED
    BY <2>4 DEF u
<1> HIDE DEF Good
<1>7. \A u \in Users : Good(u)
  BY <1>2, <1>3, <1>4, <1>5, <1>6, RowStep DEF Writes
<1>8. QED
  BY <1>7 DEF Good, Live, Rows, NoHalfAccounts, Erased

(* What a step does to the keys: a sign-up takes those it has reserved,    *)
(* a deletion frees those of its user, no other step touches one.          *)
LEMMA KeyStep ==
    ASSUME AccountsInv, [Next]_vars, NEW u \in Users
    PROVE  /\ \/ user'[u].email = user[u].email
              \/ user'[u].email \in Tombstones
              \/ \E r \in Requests : /\ CommitSignup(r) /\ u = job[r].user
                                     /\ user'[u].email = job[r].email
           /\ \/ social'[u] = social[u]
              \/ social'[u] \in Tombstones \cup {None}
              \/ \E r \in Requests : /\ CommitSignup(r) /\ u = job[r].user
                                     /\ social'[u] = job[r].identity
<1>0. TypeOK /\ Rows /\ \A r \in Requests : SignsUp(r) /\ Erases(r) /\ Stores(r)
  BY DEF AccountsInv
<1>1. ASSUME NEW r \in Requests, u = job[r].user, CommitDelete(r)
      PROVE  user'[u].email \in Tombstones /\ social'[u] \in Tombstones \cup {None}
  BY <1>0, <1>1, DeleteFacts
<1>2. ASSUME NEW r \in Requests, u = job[r].user, CommitSignup(r)
      PROVE  user'[u].email = job[r].email /\ social'[u] = job[r].identity
  BY <1>0, <1>2, SignupFacts
<1>3. ASSUME NEW r \in Requests, u = job[r].user, UpdateMe(r) \/ StoreHash(r)
      PROVE  user'[u].email = user[u].email /\ social'[u] = social[u]
  BY <1>0, <1>3, UpdateFacts, StoreFacts
<1>4. \/ user'[u] = user[u] /\ social'[u] = social[u]
      \/ \E r \in Requests : u = job[r].user /\ Writes(r)
  BY RowStep
<1>5. QED
  BY <1>1, <1>2, <1>3, <1>4 DEF Writes

LEMMA KeysStep ==
    ASSUME AccountsInv, [Next]_vars
    PROVE  KeysUnique'
<1>0. TypeOK /\ KeysUnique /\ \A r \in Requests : SignsUp(r) /\ Reserves(r)
  BY DEF AccountsInv
<1>1. ASSUME NEW r \in Requests, NEW s \in Requests, CommitSignup(r), CommitSignup(s)
      PROVE  r = s
  BY <1>0, <1>1 DEF CommitSignup, End, TypeOK
<1>2. ASSUME NEW u \in Users, NEW w \in Users, u # w, user'[u].email \in Emails,
             user'[u].email = user'[w].email
      PROVE  FALSE
  <2>1. ASSUME NEW r \in Requests, CommitSignup(r), NEW x \in Users, user[x].email = job[r].email
        PROVE  FALSE
    BY <1>0, <2>1 DEF CommitSignup, Reserves, EmailTaken
  <2>2. QED
    BY <1>0, <1>1, <1>2, <2>1, KeyStep, Values DEF KeysUnique
<1>3. ASSUME NEW u \in Users, NEW w \in Users, u # w, social'[u] \in Identities,
             social'[u] = social'[w]
      PROVE  FALSE
  <2>1. ASSUME NEW r \in Requests, CommitSignup(r), job[r].identity \in Identities,
               NEW x \in Users, social[x] = job[r].identity
        PROVE  FALSE
    BY <1>0, <2>1 DEF CommitSignup, Reserves, IdentityTaken
  <2>2. QED
    BY <1>0, <1>1, <1>3, <2>1, KeyStep, Values DEF KeysUnique
<1>4. QED
  BY <1>2, <1>3 DEF KeysUnique

LEMMA SignsUpStep ==
    ASSUME AccountsInv, [Next]_vars, NEW r \in Requests
    PROVE  SignsUp(r)'
<1>0. TypeOK /\ SignsUp(r)
  BY DEF AccountsInv
<1> SUFFICES ASSUME pc'[r] \in {"lookup", "insert", "link", "commit"}
             PROVE  /\ job'[r].op \in {"signup", "complete"} /\ job'[r].email \in Emails
                    /\ pc'[r] \in {"lookup", "link"} => job'[r].op = "complete"
                    /\ IF job'[r].op = "complete" THEN job'[r].identity \in Identities
                                                  ELSE job'[r].identity = None
                    /\ user'[job'[r].user] = NoUser
                    /\ \A s \in Requests \ {r} : job'[s].user # job'[r].user
  BY DEF SignsUp
<1> DEFINE u == job'[r].user
<1>1. /\ job'[r].op \in {"signup", "complete"} /\ job'[r].email \in Emails
      /\ pc'[r] \in {"lookup", "link"} => job'[r].op = "complete"
      /\ IF job'[r].op = "complete" THEN job'[r].identity \in Identities
                                    ELSE job'[r].identity = None
      /\ user[u] = NoUser /\ u \in Users
      /\ \A s \in Requests \ {r} : job[s].user # u
      /\ job'[r] = job[r] \/ Fresh(u)
  <2>1. CASE Stays(r)
    BY <1>0, <2>1, JobFacts DEF Stays, SignsUp
  <2>2. CASE Enters(r)
    BY <2>2 DEF Enters, Fresh, Job
  <2>3. CASE GoesOn(r)
    BY <1>0, <2>3, JobFacts
       DEF GoesOn, LookUpIdentity, InsertUser, LinkIdentity, LockDelete, SignsUp
  <2>4. QED
    BY <2>1, <2>2, <2>3, JobStep DEF Moves, Idle, OthersStay
<1>2. ASSUME NEW s \in Requests \ {r}
      PROVE  job'[s].user # u
  <2>1. CASE Stays(s) \/ GoesOn(s)
    BY <1>1, <2>1 DEF Stays, GoesOn
  <2>2. CASE Idle(s)
    BY <1>1, <2>2, NotAJob, Values DEF Idle
  <2>3. CASE Enters(s) /\ Stays(r)
    BY <1>1, <2>3 DEF Enters, Stays, Fresh, Live
  <2>4. QED
    BY <2>1, <2>2, <2>3, JobStep DEF OthersStay, Moves
<1>3. user'[u] = NoUser
  <2>1. ASSUME NEW s \in Requests, u = job[s].user,
               Writes(s)
        PROVE  FALSE
    <3>1. s # r
      BY <1>0, <2>1, Commits DEF Idle
    <3>2. QED
      BY <1>1, <2>1, <3>1
  <2>2. QED
    BY <1>1, <2>1, RowStep
<1>4. QED
  BY <1>1, <1>2, <1>3

LEMMA EmailReserved ==
    ASSUME AccountsInv, [Next]_vars, NEW r \in Requests, pc'[r] \in {"link", "commit"}
    PROVE  /\ ~EmailTaken(job[r].email)' /\ job'[r] = job[r]
           /\ \A s \in Requests \ {r} :
                 pc'[s] \in {"link", "commit"} => job'[s].email # job'[r].email
<1>0. TypeOK /\ \A s \in Requests : SignsUp(s) /\ Reserves(s)
  BY DEF AccountsInv
<1> DEFINE e == job[r].email
<1>1. /\ job'[r] = job[r] /\ e \in Emails /\ ~EmailTaken(e)
      /\ \A s \in Requests \ {r} : pc[s] \in {"link", "commit"} => job[s].email # e
      /\ pc'[r] = pc[r] \/ OthersStay(r)
  <2>1. CASE Stays(r)
    BY <1>0, <2>1 DEF Stays, Reserves, SignsUp
  <2>2. CASE GoesOn(r) /\ OthersStay(r)
    BY <1>0, <2>2 DEF GoesOn, InsertUser, LinkIdentity, EmailInsertable, Reserves, SignsUp
  <2>3. QED
    BY <2>1, <2>2, JobStep DEF Moves, Idle, Enters, OthersStay
<1>2. ASSUME NEW s \in Requests \ {r}, pc'[s] \in {"link", "commit"}
      PROVE  job'[s].email # e
  <2>1. CASE Stays(s)
    BY <1>1, <1>2, <2>1 DEF Stays
  <2>2. CASE GoesOn(s) /\ Stays(r)
    <3>1. CASE InsertUser(s)
      BY <2>2, <3>1 DEF GoesOn, InsertUser, EmailInsertable, Stays
    <3>2. CASE LinkIdentity(s)
      BY <1>1, <2>2, <3>2 DEF GoesOn, LinkIdentity
    <3>3. QED
      BY <1>2, <2>2, <3>1, <3>2 DEF GoesOn
  <2>3. QED
    BY <1>2, <2>1, <2>2, JobStep DEF Moves, Idle, Enters, OthersStay
<1>3. ASSUME NEW w \in Users, user'[w].email = e
      PROVE  FALSE
  <2>1. ASSUME NEW s \in Requests, CommitSignup(s), job[s].email = e
        PROVE  FALSE
    <3>1. s # r /\ pc[s] = "commit"
      BY <1>0, <2>1, Commits DEF Idle, CommitSignup, Writes
    <3>2. QED
      BY <1>1, <2>1, <3>1
  <2>2. QED
    BY <1>1, <1>3, <2>1, KeyStep, Values DEF EmailTaken
<1>4. QED
  BY <1>1, <1>2, <1>3 DEF EmailTaken

LEMMA IdentityReserved ==
    ASSUME AccountsInv, [Next]_vars, NEW r \in Requests, pc'[r] = "commit",
           job'[r].identity \in Identities
    PROVE  /\ ~IdentityTaken(job[r].identity)' /\ job'[r] = job[r]
           /\ \A s \in Requests \ {r} : pc'[s] = "commit" => job'[s].identity # job'[r].identity
<1>0. TypeOK /\ \A s \in Requests : SignsUp(s) /\ Reserves(s)
  BY DEF AccountsInv
<1> DEFINE i == job[r].identity
<1>1. /\ job'[r] = job[r] /\ i \in Identities /\ ~IdentityTaken(i)
      /\ \A s \in Requests \ {r} : pc[s] = "commit" => job[s].identity # i
  <2>1. CASE Stays(r)
    BY <1>0, <2>1 DEF Stays, Reserves
  <2>2. CASE GoesOn(r) /\ InsertUser(r)
    <3>1. job[r].op # "complete" /\ pc[r] = "insert" /\ job'[r] = job[r]
      BY <2>2 DEF GoesOn, LookUpIdentity, InsertUser, LinkIdentity, LockDelete
    <3>2. QED
      BY <1>0, <3>1, Values DEF SignsUp
  <2>3. CASE GoesOn(r) /\ ~InsertUser(r)
    BY <1>0, <2>3 DEF GoesOn, LinkIdentity, IdentityInsertable
  <2>4. QED
    BY <2>1, <2>2, <2>3, JobStep DEF Moves, Idle, Enters, OthersStay
<1>2. ASSUME NEW s \in Requests \ {r}, pc'[s] = "commit"
      PROVE  job'[s].identity # i
  <2>1. CASE Stays(s)
    BY <1>1, <1>2, <2>1 DEF Stays
  <2>2. CASE GoesOn(s) /\ Stays(r)
    <3>1. CASE InsertUser(s)
      <4>1. job[s].op # "complete" /\ pc[s] = "insert" /\ job'[s] = job[s]
        BY <1>2, <2>2, <3>1 DEF GoesOn, LookUpIdentity, InsertUser, LinkIdentity, LockDelete
      <4>2. QED
        BY <1>0, <1>1, <4>1, Values DEF SignsUp
    <3>2. CASE LinkIdentity(s)
      BY <2>2, <3>2 DEF GoesOn, LinkIdentity, IdentityInsertable, Stays
    <3>3. QED
      BY <1>2, <2>2, <3>1, <3>2 DEF GoesOn
  <2>3. QED
    BY <1>2, <2>1, <2>2, JobStep DEF Moves, Idle, Enters, OthersStay
<1>3. ASSUME NEW w \in Users, social'[w] = i
      PROVE  FALSE
  <2>1. ASSUME NEW s \in Requests, CommitSignup(s), job[s].identity = i
        PROVE  FALSE
    <3>1. s # r /\ pc[s] = "commit"
      BY <1>0, <2>1, Commits DEF Idle, CommitSignup, Writes
    <3>2. QED
      BY <1>1, <2>1, <3>1
  <2>2. QED
    BY <1>1, <1>3, <2>1, KeyStep, Values DEF IdentityTaken
<1>4. QED
  BY <1>1, <1>2, <1>3 DEF IdentityTaken

LEMMA ErasesStep ==
    ASSUME AccountsInv, [Next]_vars, NEW r \in Requests
    PROVE  Erases(r)'
<1>0. TypeOK /\ \A s \in Requests : Erases(s) /\ SignsUp(s)
  BY DEF AccountsInv
<1> SUFFICES ASSUME pc'[r] = "erase"
             PROVE  /\ user'[job'[r].user] # NoUser /\ ~user'[job'[r].user].deleted
                    /\ \A s \in Requests \ {r} : pc'[s] = "erase" => job'[s].user # job'[r].user
  BY DEF Erases, Live
<1> DEFINE u == job[r].user
<1>1. /\ job'[r] = job[r] /\ u \in Users /\ Live(u)
      /\ \A s \in Requests \ {r} : pc[s] = "erase" => job[s].user # u
      /\ \/ pc[r] = "erase"
         \/ OthersStay(r) /\ TablesStay
  <2>1. CASE Stays(r)
    BY <1>0, <2>1, JobFacts DEF Stays, Erases
  <2>2. CASE GoesOn(r) /\ TablesStay /\ OthersStay(r)
    BY <1>0, <2>2, JobFacts DEF GoesOn, InsertUser, LockDelete, UserFree
  <2>3. QED
    BY <2>1, <2>2, JobStep DEF Moves, Idle, Enters, OthersStay
<1>2. ASSUME NEW s \in Requests \ {r}, pc'[s] = "erase"
      PROVE  job'[s].user # u
  <2>1. CASE Stays(s)
    BY <1>1, <1>2, <2>1 DEF Stays
  <2>2. CASE GoesOn(s) /\ Stays(r)
    BY <1>2, <2>2 DEF GoesOn, Stays, InsertUser, LockDelete, UserFree
  <2>3. QED
    BY <1>2, <2>1, <2>2, JobStep DEF Moves, Idle, Enters, OthersStay
<1>3. user'[u] # NoUser /\ ~user'[u].deleted
  <2>1. CASE TablesStay
    BY <1>1, <2>1 DEF TablesStay, Live
  <2>2. ASSUME NEW s \in Requests, u = job[s].user, pc[r] = "erase",
               Writes(s)
        PROVE  FALSE
    <3>1. s # r
      BY <1>0, <2>2, Commits DEF Idle
    <3>2. QED
      BY <1>0, <1>1, <2>2, <3>1
         DEF Writes, CommitSignup, SignsUp, Live, CommitDelete, UpdateMe, StoreHash, UserFree
  <2>3. QED
    BY <1>1, <2>1, <2>2, RowStep DEF Live
<1>4. QED
  BY <1>1, <1>2, <1>3

LEMMA StoresStep ==
    ASSUME AccountsInv, [Next]_vars, NEW r \in Requests
    PROVE  Stores(r)'
<1>0. TypeOK /\ Stores(r)
  BY DEF AccountsInv
<1> SUFFICES ASSUME pc'[r] = "rehash" PROVE user'[job'[r].user] # NoUser
  BY DEF Stores
<1>1. job'[r].user \in Users /\ user[job'[r].user] # NoUser
  <2>1. CASE Stays(r)
    BY <1>0, <2>1, JobFacts DEF Stays, Stores
  <2>2. CASE Enters(r)
    BY <2>2 DEF Enters, Live, Job
  <2>3. QED
    BY <2>1, <2>2, JobStep DEF Moves, Idle, GoesOn, OthersStay
<1>2. QED
  BY <1>1, RowStays

-----------------------------------------------------------------------------
(* The invariant. *)

LEMMA InitInv ==
    Init => AccountsInv
<1> SUFFICES ASSUME Init PROVE AccountsInv
  OBVIOUS
<1>1. TypeOK
  BY DEF Init, TypeOK
<1>2. \A r \in Requests : pc[r] = "idle"
  BY DEF Init
<1>3. \A u \in Users : user[u] = NoUser /\ social[u] = None
  BY DEF Init
<1>4. QED
  BY <1>1, <1>2, <1>3, RowFacts, Values
     DEF AccountsInv, Rows, Live, KeysUnique, NoHalfAccounts, Erased, SignsUp, Reserves, Erases,
         Stores

LEMMA ReservesStep ==
    ASSUME AccountsInv, [Next]_vars, NEW r \in Requests
    PROVE  Reserves(r)'
<1>1. ASSUME pc'[r] \in {"link", "commit"}
      PROVE  /\ ~EmailTaken(job[r].email)' /\ job'[r] = job[r]
             /\ \A s \in Requests \ {r} :
                   pc'[s] \in {"link", "commit"} => job'[s].email # job'[r].email
  BY <1>1, EmailReserved
<1>2. ASSUME pc'[r] = "commit", job'[r].identity \in Identities
      PROVE  /\ ~IdentityTaken(job[r].identity)' /\ job'[r] = job[r]
             /\ \A s \in Requests \ {r} :
                   pc'[s] = "commit" => job'[s].identity # job'[r].identity
  BY <1>2, IdentityReserved
<1>3. QED
  BY <1>1, <1>2 DEF Reserves, EmailTaken, IdentityTaken

LEMMA NextInv ==
    AccountsInv /\ [Next]_vars => AccountsInv'
BY TypeStep, RowsStep, KeysStep, SignsUpStep, ReservesStep, ErasesStep, StoresStep
   DEF AccountsInv

LEMMA AccountsInvariant ==
    Spec => []AccountsInv
BY InitInv, NextInv, PTL DEF Spec

-----------------------------------------------------------------------------
(* Who owns a key: CHOOSE has no choice, as keys are unique. *)

Bears(u, k) == user[u].email = k \/ social[u] = k

OwnersRight ==
    \A k \in Emails \cup Identities :
        /\ OwnerOf[k] \in Users \cup {None}
        /\ \A u \in Users : OwnerOf[k] = u <=> Bears(u, k)

LEMMA Owners ==
    AccountsInv => OwnersRight
<1> SUFFICES ASSUME AccountsInv, NEW k \in Emails \cup Identities
             PROVE  /\ OwnerOf[k] \in Users \cup {None}
                    /\ \A u \in Users : OwnerOf[k] = u <=> Bears(u, k)
  BY DEF OwnersRight
<1>0. TypeOK /\ KeysUnique
  BY DEF AccountsInv
<1>1. ASSUME NEW u \in Bearers(k), NEW w \in Bearers(k) PROVE u = w
  BY <1>0, <1>1, RowFacts, Values DEF Bearers, KeysUnique
<1>2. OwnerOf[k] = IF Bearers(k) = {} THEN None ELSE CHOOSE u \in Bearers(k) : TRUE
  BY DEF OwnerOf
<1>3. CASE Bearers(k) = {}
  BY <1>2, <1>3, Values DEF Bearers, Bears
<1>4. ASSUME NEW u \in Bearers(k) PROVE OwnerOf[k] = u
  BY <1>1, <1>2, <1>4
<1>5. QED
  BY <1>3, <1>4 DEF Bearers, Bears

LEMMA OwnersNext ==
    ASSUME AccountsInv, [Next]_vars
    PROVE  OwnersRight /\ OwnersRight'
<1>1. AccountsInv'
  BY NextInv
<1>2. OwnersRight /\ OwnersRight'
  BY <1>1, Owners, PTL
<1>3. QED
  BY <1>2

(* A row that bears the same keys as before leaves the owners as they are. *)
LEMMA SameOwner ==
    ASSUME OwnersRight, OwnersRight', NEW k \in Emails \cup Identities,
           \A w \in Users : Bears(w, k)' <=> Bears(w, k)
    PROVE  OwnerOf'[k] = OwnerOf[k]
BY DEF OwnersRight

LEMMA SignupRegisters ==
    ASSUME AccountsInv, [Next]_vars, NEW r \in Requests, CommitSignup(r)
    PROVE  Book!Next
<1>0. TypeOK /\ Rows /\ SignsUp(r) /\ Reserves(r)
  BY DEF AccountsInv
<1> DEFINE u == job[r].user
           e == job[r].email
           i == job[r].identity
           Keys == Emails \cup Identities
           K == {e} \cup ({i} \cap Identities)
<1>1. /\ user[u] = NoUser /\ e \in Emails /\ i \in Identities \cup {None}
      /\ ~EmailTaken(e) /\ (i \in Identities => ~IdentityTaken(i))
  BY <1>0 DEF CommitSignup, SignsUp, Reserves
<1>2. /\ u \in Users /\ OthersKept(u)
      /\ user'[u].email = e /\ ~user'[u].deleted /\ social'[u] = i
  BY <1>0, SignupFacts
<1> HIDE DEF u, e, i
<1>3. OwnersRight /\ OwnersRight'
  BY OwnersNext
<1>4. ~user[u].deleted /\ \A k \in Keys : ~Bears(u, k)
  BY <1>0, <1>1, <1>2, RowFacts, Values DEF Rows, Bears
<1>5. \A k \in K : OwnerOf[k] = None
  <2>1. ASSUME NEW k \in K, NEW w \in Users
        PROVE  ~Bears(w, k)
    <3>1. user[w].email \in Emails \cup Tombstones \cup {None}
      BY <1>0, RowFacts
    <3>2. social[w] \in Identities \cup Tombstones \cup {None}
      BY <1>0, RowFacts
    <3>3. CASE k = e
      BY <1>1, <3>2, <3>3, Values DEF Bears, EmailTaken
    <3>4. CASE k = i /\ i \in Identities
      BY <1>1, <3>1, <3>4, Values DEF Bears, IdentityTaken
    <3>5. QED
      BY <2>1, <3>3, <3>4
  <2>2. K \subseteq Keys
    BY <1>1
  <2>3. QED
    BY <1>3, <2>1, <2>2 DEF OwnersRight
<1>6. ASSUME NEW k \in Keys
      PROVE  OwnerOf'[k] = IF k \in K THEN u ELSE OwnerOf[k]
  <2>1. CASE k \in K
    BY <1>2, <1>3, <2>1 DEF OwnersRight, Bears
  <2>2. CASE k \notin K
    <3>1. k # e /\ k # i
      BY <1>1, <2>2, Values
    <3>2. ASSUME NEW w \in Users
          PROVE  (user'[w].email = k \/ social'[w] = k) <=> Bears(w, k)
      BY <1>2, <1>4, <3>1 DEF Bears, OthersKept
    <3>3. QED
      BY <1>3, <2>2, <3>2, SameOwner DEF Bears
  <2>3. QED
    BY <2>1, <2>2
<1>7. OwnerOf' = [k \in Keys |-> IF k \in K THEN u ELSE OwnerOf[k]]
  BY <1>6 DEF OwnerOf
<1>8. {w \in Users : user'[w].deleted} = {w \in Users : user[w].deleted}
  BY <1>2, <1>4 DEF OthersKept
<1>9. K \in SUBSET Keys /\ K # {}
  BY <1>1
<1>10. Book!Owns(u) = {}
  BY <1>2, <1>3, <1>4 DEF Book!Owns, OwnersRight
<1> HIDE DEF K
<1>11. Book!Register(u, K)
  BY <1>4, <1>5, <1>7, <1>8, <1>9, <1>10 DEF Book!Register
<1>12. QED
  BY <1>2, <1>9, <1>11 DEF Book!Next

LEMMA DeleteRemoves ==
    ASSUME AccountsInv, [Next]_vars, NEW r \in Requests, CommitDelete(r),
           NEW u \in Users, u = job[r].user
    PROVE  Book!Remove(u)
<1>0. TypeOK /\ Rows /\ Erases(r)
  BY DEF AccountsInv
<1> DEFINE Keys == Emails \cup Identities
<1>1. /\ Live(u) /\ OthersKept(u) /\ user'[u].deleted
      /\ user'[u].email \in Tombstones /\ social'[u] \in Tombstones \cup {None}
  BY <1>0, DeleteFacts
<1>2. OwnersRight /\ OwnersRight'
  BY OwnersNext
<1>3. \A k \in Keys : user'[u].email # k /\ social'[u] # k
  BY <1>1, Values
<1>4. ASSUME NEW k \in Keys
      PROVE  OwnerOf'[k] = IF OwnerOf[k] = u THEN None ELSE OwnerOf[k]
  <2>1. ASSUME NEW w \in Users
        PROVE  (user'[w].email = k \/ social'[w] = k) <=> (Bears(w, k) /\ w # u)
    BY <1>1, <1>3 DEF Bears, OthersKept
  <2>2. CASE OwnerOf[k] = u
    BY <1>1, <1>2, <2>1, <2>2 DEF OwnersRight, Bears
  <2>3. CASE OwnerOf[k] # u
    <3>1. ~Bears(u, k)
      BY <1>1, <1>2, <2>3 DEF OwnersRight
    <3>2. \A w \in Users : (user'[w].email = k \/ social'[w] = k) <=> Bears(w, k)
      BY <2>1, <3>1
    <3>3. QED
      BY <1>2, <2>3, <3>2, SameOwner DEF Bears
  <2>4. QED
    BY <2>2, <2>3
<1>5. OwnerOf' = [k \in Keys |-> IF OwnerOf[k] = u THEN None ELSE OwnerOf[k]]
  BY <1>4 DEF OwnerOf
<1>6. {w \in Users : user'[w].deleted} = {w \in Users : user[w].deleted} \cup {u}
  BY <1>1 DEF OthersKept
<1>7. Book!Owns(u) # {}
  <2>1. user[u].email \in Keys /\ Bears(u, user[u].email)
    BY <1>0, <1>1 DEF Rows, Bears
  <2>2. QED
    BY <1>1, <1>2, <2>1 DEF Book!Owns, OwnersRight
<1>8. QED
  BY <1>5, <1>6, <1>7 DEF Book!Remove

LEMMA OthersStutter ==
    ASSUME AccountsInv, [Next]_vars, \A r \in Requests : ~CommitSignup(r) /\ ~CommitDelete(r)
    PROVE  UNCHANGED <<OwnerOf, {u \in Users : user[u].deleted}>>
<1>0. TypeOK /\ \A r \in Requests : Stores(r)
  BY DEF AccountsInv
<1>1. CASE TablesStay
  BY <1>1 DEF TablesStay, OwnerOf, Bearers
<1>2. ASSUME NEW r \in Requests, UpdateMe(r) \/ StoreHash(r)
      PROVE  UNCHANGED <<OwnerOf, {u \in Users : user[u].deleted}>>
  <2>1. \A w \in Users : /\ user'[w].email = user[w].email /\ social'[w] = social[w]
                         /\ user'[w].deleted <=> user[w].deleted
    BY <1>0, <1>2, UpdateFacts, StoreFacts DEF OthersKept, Live
  <2>2. OwnersRight /\ OwnersRight'
    BY OwnersNext
  <2>3. \A k \in Emails \cup Identities : OwnerOf'[k] = OwnerOf[k]
    BY <2>1, <2>2, SameOwner DEF Bears
  <2>4. OwnerOf' = OwnerOf
    BY <2>3 DEF OwnerOf
  <2>5. QED
    BY <2>1, <2>4
<1>3. QED
  BY <1>1, <1>2, TableKinds DEF Writes

-----------------------------------------------------------------------------
(* The theorems. *)

(* The tables and requests have their types. *)
THEOREM TypeCorrect ==
    Spec => []TypeOK
<1>1. AccountsInv => TypeOK
  BY DEF AccountsInv
<1>2. QED
  BY <1>1, AccountsInvariant, PTL

(* Who has an account can sign in to it and has a subscription, whatever   *)
(* conflicted or failed on the way: all of a sign-up commits at once.      *)
THEOREM AccountsWhole ==
    Spec => []NoHalfAccounts
<1>1. AccountsInv => NoHalfAccounts
  BY DEF AccountsInv
<1>2. QED
  BY <1>1, AccountsInvariant, PTL

(* No request puts contact data or an identity back into a deleted account.*)
THEOREM DeletedStayErased ==
    Spec => []Erased
<1>1. AccountsInv => Erased
  BY DEF AccountsInv
<1>2. QED
  BY <1>1, AccountsInvariant, PTL

(* No two rows have the same address or the same identity, and no sign-up  *)
(* that has inserted its keys finds one of them taken when it commits.     *)
THEOREM UniqueKeys ==
    Spec => [](KeysUnique /\ \A r \in Requests : Reserves(r))
<1>1. AccountsInv => KeysUnique /\ \A r \in Requests : Reserves(r)
  BY DEF AccountsInv
<1>2. QED
  BY <1>1, AccountsInvariant, PTL

(* Accounts implements Directory: the commit of a sign-up registers its    *)
(* address and identity together, that of a deletion removes both, and     *)
(* every other step leaves every key with its account.                     *)
THEOREM Refinement ==
    Spec => ImplementsDirectory
<1>1. Init => Book!Init
  <2> SUFFICES ASSUME Init PROVE Book!Init
    OBVIOUS
  <2>1. \A u \in Users : user[u] = NoUser /\ social[u] = None
    BY DEF Init
  <2>2. NoUser.email = None /\ NoUser.deleted = FALSE
    BY DEF NoUser
  <2>3. \A k \in Emails \cup Identities : Bearers(k) = {}
    BY <2>1, <2>2, Values DEF Bearers
  <2>4. OwnerOf = [k \in Emails \cup Identities |-> None]
    BY <2>3 DEF OwnerOf
  <2>5. {u \in Users : user[u].deleted} = {}
    BY <2>1, <2>2
  <2>6. QED
    BY <2>4, <2>5 DEF Book!Init
<1>2. AccountsInv /\ [Next]_vars => [Book!Next]_(Book!vars)
  <2> SUFFICES ASSUME AccountsInv, [Next]_vars PROVE [Book!Next]_(Book!vars)
    OBVIOUS
  <2>1. ASSUME NEW r \in Requests, CommitDelete(r)
        PROVE  Book!Next
    <3>1. job[r].user \in Users
      BY <2>1, JobFacts DEF AccountsInv, CommitDelete
    <3>2. PICK u \in Users : u = job[r].user
      BY <3>1
    <3>3. Book!Remove(u)
      BY <2>1, <3>2, DeleteRemoves
    <3>4. QED
      BY <3>3 DEF Book!Next
  <2>2. QED
    BY <2>1, SignupRegisters, OthersStutter DEF Book!vars
<1>3. QED
  BY <1>1, <1>2, AccountsInvariant, PTL DEF ImplementsDirectory, Book!Spec, Spec

-----------------------------------------------------------------------------
(* What happens to an account once it is deleted, or about to be.          *)

(* The row of u and the identity linked to it. *)
SameAccount(u) == user'[u] = user[u] /\ social'[u] = social[u]

(* The same but for the password hash, which a login may have stored. *)
Rehashed(u) == user'[u] = [user[u] EXCEPT !.password = TRUE] /\ social'[u] = social[u]

LEMMA ClosedStep ==
    ASSUME AccountsInv, [Next]_vars, NEW u \in Users, user[u].deleted
    PROVE  SameAccount(u) \/ Rehashed(u)
<1>1. TypeOK /\ Rows /\ \A r \in Requests : SignsUp(r) /\ Erases(r) /\ Stores(r)
  BY DEF AccountsInv
<1>2. ~Live(u) /\ user[u] # NoUser
  BY DEF Live, NoUser
<1>3. ASSUME NEW r \in Requests, u = job[r].user, Writes(r)
      PROVE  StoreHash(r)
  BY <1>1, <1>2, <1>3 DEF Writes, CommitSignup, SignsUp, CommitDelete, Erases, UpdateMe
<1>4. ASSUME NEW r \in Requests, u = job[r].user, StoreHash(r)
      PROVE  Rehashed(u)
  BY <1>1, <1>4, StoreFacts DEF Rehashed
<1>5. QED
  BY <1>3, <1>4, RowStep DEF SameAccount

LEMMA LockedStep ==
    ASSUME AccountsInv, [Next]_vars, NEW r \in Requests, pc[r] = "erase", pc'[r] = "erase"
    PROVE  job'[r] = job[r] /\ SameAccount(job[r].user)
<1> DEFINE u == job[r].user
<1>1. TypeOK /\ u \in Users /\ Live(u) /\ \A s \in Requests : SignsUp(s) /\ Erases(s)
  BY JobFacts DEF AccountsInv, Erases
<1>2. job'[r] = job[r]
  BY JobStep DEF OthersStay, Stays, Moves, Idle, Enters, GoesOn
<1>3. ASSUME NEW s \in Requests, u = job[s].user, Writes(s)
      PROVE  FALSE
  <2>1. s # r
    BY <1>1, <1>3, Commits DEF Idle
  <2>2. QED
    BY <1>1, <1>3, <2>1
       DEF Writes, CommitSignup, SignsUp, Live, CommitDelete, Erases, UpdateMe, StoreHash, UserFree
<1>4. QED
  BY <1>1, <1>2, <1>3, RowStep DEF SameAccount

LEMMA ClosesStep ==
    ASSUME AccountsInv, [Next]_vars, NEW u \in Users, Live(u), ~Live(u)'
    PROVE  user'[u].deleted /\ \E r \in Requests : pc[r] = "erase" /\ job[r].user = u
<1>1. TypeOK /\ Rows /\ \A r \in Requests : SignsUp(r) /\ Erases(r) /\ Stores(r)
  BY DEF AccountsInv
<1>2. PICK r \in Requests : u = job[r].user /\ Writes(r)
  BY RowStep DEF Live
<1>3. ~CommitSignup(r)
  BY <1>1, <1>2 DEF CommitSignup, SignsUp, Live
<1>4. ASSUME UpdateMe(r) \/ StoreHash(r) PROVE FALSE
  <2>1. user'[u] \in UserRow /\ ~user'[u].deleted
    BY <1>1, <1>2, <1>4, UpdateFacts, StoreFacts DEF Live
  <2>2. NoUser \notin UserRow
    BY Values DEF NoUser, UserRow
  <2>3. QED
    BY <2>1, <2>2 DEF Live
<1>5. QED
  BY <1>1, <1>2, <1>3, <1>4, DeleteFacts DEF Writes, CommitDelete

(* Only a deletion that holds the row closes an account, alone, and while  *)
(* it holds the row nobody writes the account.  A closed account stays     *)
(* closed, and nothing that waited for its row changes it but a login that *)
(* stores a new hash: the one writer that does not look whether the        *)
(* account is still there.                                                 *)
THEOREM ClosedForGood ==
    Spec => /\ [](\A r \in Requests : Erases(r))
            /\ [][/\ \A u \in Users : user[u].deleted => SameAccount(u) \/ Rehashed(u)
                  /\ \A r \in Requests : pc[r] = "erase" /\ pc'[r] = "erase"
                        => SameAccount(job[r].user)
                  /\ \A u \in Users : Live(u) /\ ~Live(u)'
                        => \E r \in Requests : pc[r] = "erase" /\ job[r].user = u]_vars
<1>1. AccountsInv => \A r \in Requests : Erases(r)
  BY DEF AccountsInv
<1>2. AccountsInv /\ [Next]_vars
         => [/\ \A u \in Users : user[u].deleted => SameAccount(u) \/ Rehashed(u)
             /\ \A r \in Requests : pc[r] = "erase" /\ pc'[r] = "erase"
                   => SameAccount(job[r].user)
             /\ \A u \in Users : Live(u) /\ ~Live(u)'
                   => \E r \in Requests : pc[r] = "erase" /\ job[r].user = u]_vars
  BY ClosedStep, LockedStep, ClosesStep
<1>3. QED
  BY <1>1, <1>2, AccountsInvariant, PTL DEF Spec
=============================================================================
