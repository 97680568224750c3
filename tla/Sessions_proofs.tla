----------------------------- MODULE Sessions_proofs -----------------------------
(***************************************************************************)
(* Theorems about Sessions, for every set of users, tokens, requests and   *)
(* passwords.                                                              *)
(***************************************************************************)
EXTENDS Sessions, TLAPS

-----------------------------------------------------------------------------
(* The inductive invariant. *)

(* The row lock of a token is one request's; only stored tokens are locked.*)
HeldApart ==
    /\ \A r, s \in Requests : r # s => held[r] \cap held[s] = {}
    /\ \A r \in Requests : \A t \in held[r] : token[t] # NoToken

(* What a request was started for, by where it is; the token it will issue *)
(* is in no table and in no other request.                                 *)
Issues(r) ==
    pc[r] \in {"login", "token", "user"} =>
        /\ job[r].new \in Tokens /\ token[job[r].new] = NoToken
        /\ \A s \in Requests \ {r} : job[s].new # job[r].new

Presents(r) ==
    pc[r] \in {"token", "user"} => job[r].op = "refresh" /\ job[r].token \in Tokens

Deletes(r) == pc[r] = "delete" => job[r].op = "delete"

(* A refresh that waits for the user row has its live token locked.        *)
Rotates(r) ==
    pc[r] = "user" => /\ held[r] = {job[r].token}
                      /\ token[job[r].token].state = "live"

(* A deletion that has locked the user has every rotated live token of the *)
(* user locked or still before it.                                         *)
Catches(r) ==
    \A u \in Users : HoldsUser(r, u) =>
        \A t \in LiveTokens(u) : token[t].parent # None => t \in todo[r] \cup held[r]

SessionsInv ==
    /\ TypeOK /\ SessionChain /\ DeletedHasNoChain /\ HeldApart
    /\ \A r \in Requests : Issues(r) /\ Presents(r) /\ Deletes(r) /\ Rotates(r) /\ Catches(r)

-----------------------------------------------------------------------------
(* The steps of Sessions by what they do. *)

Quits(r) == pc[r] # "idle" /\ End(r) /\ UNCHANGED <<user, token>>

Begins(r) ==
    \/ \E u \in Users, p \in Passwords, n \in Tokens : BeginLogin(r, u, p, n)
    \/ \E u \in Users, n \in Tokens : BeginSocialLogin(r, u, n)
    \/ \E t \in Tokens, n \in Tokens : BeginRefresh(r, t, n)
    \/ \E u \in Users : BeginDelete(r, u)

(* Steps that only move their request. *)
Advances(r) ==
    \/ Quits(r) \/ Begins(r) \/ RefreshValid(r) \/ RefreshReuse(r) \/ LockDelete(r)
    \/ \E t \in Tokens : RevokeRow(r, t)

LEMMA StepKinds ==
    ASSUME [Next]_vars
    PROVE  \/ \E r \in Requests : Advances(r) \/ Login(r) \/ Rotate(r) \/ RevokeDone(r)
           \/ \E t \in Tokens : Logout(t)
           \/ \E u \in Users, p \in Passwords : ChangePassword(u, p)
           \/ UNCHANGED vars
<1>1. ASSUME NEW r \in Requests,
             RefreshExpired(r) \/ RefreshUserGone(r) \/ DeleteGone(r) \/ Fail(r)
      PROVE  Quits(r)
  BY <1>1 DEF RefreshExpired, RefreshUserGone, DeleteGone, Fail, Quits
<1>2. ASSUME NEW r \in Requests, DeadlockAbort(r)
      PROVE  Quits(r)
  <2>1. PICK S \in SUBSET Requests : r \in S /\ Tangle(S)
    BY <1>2 DEF DeadlockAbort, WaitCycle
  <2>2. pc[r] # "idle"
    BY <2>1 DEF Tangle, WaitsFor
  <2>3. QED
    BY <1>2, <2>2 DEF DeadlockAbort, Quits
<1>3. QED
  BY <1>1, <1>2 DEF Next, Serve, Advances, Begins

LEMMA AdvanceKeeps ==
    ASSUME NEW r \in Requests, Advances(r)
    PROVE  UNCHANGED <<user, token>>
BY DEF Advances, Quits, Begins, BeginLogin, BeginSocialLogin, BeginRefresh, BeginDelete, Start,
       RefreshValid, RefreshReuse, LockDelete, RevokeRow

LEMMA JobFacts ==
    ASSUME TypeOK, NEW r \in Requests, pc[r] # "idle"
    PROVE  /\ job[r] \in Job
           /\ job[r].op \in {"login", "refresh", "delete"} /\ job[r].user \in Users
           /\ job[r].token \in Tokens \cup {None} /\ job[r].new \in Tokens \cup {None}
           /\ job[r].password \in Passwords \cup {None}
<1>1. job[r] \in Job
  BY DEF TypeOK
<1>2. QED
  BY <1>1 DEF Job

LEMMA NotAJob ==
    NoJob \notin Job /\ NoJob.op = "none" /\ NoJob.new = None
BY DEF NoJob, Job

LEMMA RowFacts ==
    ASSUME TypeOK, NEW t \in Tokens
    PROVE  /\ token[t] \in TokenRow \cup {NoToken}
           /\ token[t] # NoToken =>
                 /\ token[t] \in TokenRow /\ token[t].user \in Users
                 /\ token[t].state \in {"live", "revoked"}
                 /\ token[t].parent \in Tokens \cup {None}
           /\ NoToken \notin TokenRow /\ NoToken.state = "absent" /\ NoToken.parent = None
BY DEF TypeOK, TokenRow, NoToken

LEMMA RevokedRow ==
    ASSUME NEW row \in TokenRow
    PROVE  /\ [row EXCEPT !.state = "revoked"] \in TokenRow
           /\ [row EXCEPT !.state = "revoked"].state = "revoked"
           /\ [row EXCEPT !.state = "revoked"].user = row.user
           /\ [row EXCEPT !.state = "revoked"].parent = row.parent
BY DEF TokenRow

LEMMA IssuedRow ==
    ASSUME NEW n \in Tokens, NEW u \in Users, NEW p \in Tokens \cup {None}
    PROVE  /\ Issue(n, u, p) \in TokenRow
           /\ Issue(n, u, p).state = "live" /\ Issue(n, u, p).user = u
           /\ Issue(n, u, p).parent = p
BY DEF Issue, TokenRow

-----------------------------------------------------------------------------
(* The token table: rows stay with their user and parent, and revoked once *)
(* revoked; new rows are those that a login or a rotation issues.          *)

RowsKept ==
    \A t \in Tokens : token[t] # NoToken =>
        /\ token'[t] \in TokenRow
        /\ token'[t].user = token[t].user /\ token'[t].parent = token[t].parent
        /\ token[t].state = "revoked" => token'[t].state = "revoked"

NewRows(r) ==
    \A t \in Tokens : token[t] = NoToken /\ token'[t] # NoToken =>
        /\ t = job[r].new /\ token'[t].user = job[r].user
        /\ \/ Login(r) /\ token'[t].parent = None
           \/ Rotate(r) /\ token'[t].parent = job[r].token

(* What a request has locked only it changes. *)
HeldKept(r) ==
    \A s \in Requests \ {r} : \A t \in held[s] : token'[t] = token[t]

TableStep(r) ==
    token' \in [Tokens -> TokenRow \cup {NoToken}] /\ RowsKept /\ NewRows(r) /\ HeldKept(r)

LEMMA LoginRows ==
    ASSUME TypeOK, HeldApart, NEW r \in Requests, Login(r), Issues(r)
    PROVE  TableStep(r)
<1> DEFINE n == job[r].new
           row == Issue(n, job[r].user, None)
<1>1. n \in Tokens /\ token[n] = NoToken /\ job[r].user \in Users
  BY JobFacts DEF Login, Issues
<1>2. row \in TokenRow /\ row.user = job[r].user /\ row.parent = None
  BY <1>1, IssuedRow
<1>3. token' = [token EXCEPT ![n] = row]
  BY DEF Login
<1> HIDE DEF row, n
<1>4. token' \in [Tokens -> TokenRow \cup {NoToken}]
  BY <1>1, <1>2, <1>3 DEF TypeOK
<1>5. RowsKept
  BY <1>1, <1>3, RowFacts DEF TypeOK, RowsKept
<1>6. NewRows(r)
  BY <1>1, <1>2, <1>3 DEF TypeOK, NewRows, n
<1>7. HeldKept(r)
  BY <1>1, <1>3 DEF TypeOK, HeldKept, HeldApart
<1>8. QED
  BY <1>4, <1>5, <1>6, <1>7 DEF TableStep

LEMMA RotateRows ==
    ASSUME TypeOK, HeldApart, NEW r \in Requests, Rotate(r), Issues(r), Presents(r), Rotates(r)
    PROVE  /\ TableStep(r)
           /\ token[job[r].token].state = "live" /\ token'[job[r].token].state = "revoked"
<1> DEFINE n == job[r].new
           t == job[r].token
           row == Issue(n, job[r].user, t)
           old == [token[t] EXCEPT !.state = "revoked"]
<1>1. n \in Tokens /\ token[n] = NoToken /\ job[r].user \in Users
  BY JobFacts DEF Rotate, Issues
<1>2. t \in Tokens /\ token[t].state = "live" /\ held[r] = {t}
  BY DEF Rotate, Presents, Rotates
<1>3. token[t] \in TokenRow /\ t # n
  BY <1>1, <1>2, RowFacts
<1>4. row \in TokenRow /\ row.user = job[r].user /\ row.parent = t
  BY <1>1, <1>2, IssuedRow
<1>5. /\ old \in TokenRow /\ old.state = "revoked"
      /\ old.user = token[t].user /\ old.parent = token[t].parent
  BY <1>3, RevokedRow
<1>6. token' = [token EXCEPT ![t] = old, ![n] = row]
  BY DEF Rotate
<1> HIDE DEF row, old
<1>7. /\ DOMAIN token' = Tokens /\ token'[t] = old /\ token'[n] = row
      /\ \A x \in Tokens \ {t, n} : token'[x] = token[x]
  BY <1>1, <1>2, <1>3, <1>6 DEF TypeOK
<1>8. token' \in [Tokens -> TokenRow \cup {NoToken}]
  BY <1>1, <1>2, <1>3, <1>4, <1>5, <1>6 DEF TypeOK
<1> HIDE DEF n, t
<1>9. RowsKept
  BY <1>1, <1>2, <1>5, <1>7, RowFacts DEF RowsKept
<1>10. NewRows(r)
  BY <1>1, <1>2, <1>3, <1>4, <1>7, RowFacts DEF NewRows, n, t
<1>11. HeldKept(r)
  <2>1. ASSUME NEW s \in Requests \ {r}, NEW x \in held[s]
        PROVE  x \in Tokens /\ x # t /\ x # n
    BY <1>1, <1>2, <2>1 DEF HeldApart, TypeOK
  <2>2. QED
    BY <1>7, <2>1 DEF HeldKept
<1>12. QED
  BY <1>2, <1>5, <1>7, <1>8, <1>9, <1>10, <1>11 DEF TableStep, t

LEMMA RevokeRows ==
    ASSUME TypeOK, HeldApart, NEW r \in Requests, RevokeDone(r)
    PROVE  /\ TableStep(r)
           /\ \A t \in held[r] : token'[t].state = "revoked"
           /\ \A t \in Tokens : token[t] = NoToken => token'[t] = NoToken
<1>1. token' = [t \in Tokens |->
                  IF t \in held[r] THEN [token[t] EXCEPT !.state = "revoked"] ELSE token[t]]
  BY DEF RevokeDone, Revoked
<1>2. held[r] \subseteq Tokens /\ \A t \in held[r] : token[t] # NoToken
  BY DEF TypeOK, HeldApart
<1>3. ASSUME NEW t \in held[r]
      PROVE  /\ t \in Tokens /\ token[t] \in TokenRow
             /\ token'[t] \in TokenRow /\ token'[t].state = "revoked"
             /\ token'[t].user = token[t].user /\ token'[t].parent = token[t].parent
  <2> DEFINE old == [token[t] EXCEPT !.state = "revoked"]
  <2>1. t \in Tokens /\ token[t] \in TokenRow
    BY <1>2, <1>3, RowFacts
  <2>2. /\ old \in TokenRow /\ old.state = "revoked"
        /\ old.user = token[t].user /\ old.parent = token[t].parent
    BY <2>1, RevokedRow
  <2>3. token'[t] = old
    BY <1>1, <1>3, <2>1
  <2> HIDE DEF old
  <2>4. QED
    BY <2>1, <2>2, <2>3
<1>4. ASSUME NEW t \in Tokens \ held[r]
      PROVE  token'[t] = token[t]
  BY <1>1
<1>5. token' \in [Tokens -> TokenRow \cup {NoToken}]
  <2>1. ASSUME NEW t \in Tokens PROVE token'[t] \in TokenRow \cup {NoToken}
    BY <1>3, <1>4, RowFacts
  <2>2. QED
    BY <1>1, <2>1
<1>6. RowsKept
  BY <1>3, <1>4, RowFacts DEF RowsKept
<1>7. \A t \in Tokens : token[t] = NoToken => token'[t] = NoToken
  BY <1>2, <1>4
<1>8. HeldKept(r)
  BY <1>4 DEF HeldKept, HeldApart, TypeOK
<1>9. \A t \in held[r] : token'[t].state = "revoked"
  BY <1>3
<1>10. NewRows(r)
  BY <1>7 DEF NewRows
<1>11. QED
  BY <1>5, <1>6, <1>7, <1>8, <1>9, <1>10 DEF TableStep

LEMMA LogoutRows ==
    ASSUME TypeOK, NEW t \in Tokens, Logout(t)
    PROVE  /\ token' \in [Tokens -> TokenRow \cup {NoToken}] /\ RowsKept
           /\ \A x \in Tokens : token[x] = NoToken => token'[x] = NoToken
           /\ \A s \in Requests : \A x \in held[s] : token'[x] = token[x]
<1> DEFINE old == [token[t] EXCEPT !.state = "revoked"]
<1>1. token[t] \in TokenRow
  BY RowFacts DEF Logout
<1>2. old \in TokenRow /\ old.state = "revoked" /\ old.user = token[t].user
        /\ old.parent = token[t].parent
  BY <1>1, RevokedRow
<1>3. token' = [token EXCEPT ![t] = old] /\ \A s \in Requests : t \notin held[s]
  BY DEF Logout
<1> HIDE DEF old
<1>4. QED
  BY <1>1, <1>2, <1>3, RowFacts DEF TypeOK, RowsKept

LEMMA TokenStep ==
    ASSUME SessionsInv, [Next]_vars
    PROVE  /\ token' \in [Tokens -> TokenRow \cup {NoToken}] /\ RowsKept
           /\ \A t \in Tokens : token[t] = NoToken /\ token'[t] # NoToken =>
                 \E r \in Requests :
                    /\ t = job[r].new /\ token'[t].user = job[r].user
                    /\ \/ Login(r) /\ token'[t].parent = None
                       \/ Rotate(r) /\ token'[t].parent = job[r].token
           /\ \A s \in Requests : \A t \in held[s] : pc'[s] # "idle" => token'[t] = token[t]
<1>0. /\ TypeOK /\ HeldApart
      /\ \A r \in Requests : Issues(r) /\ Presents(r) /\ Rotates(r)
  BY DEF SessionsInv
<1>1. ASSUME NEW r \in Requests, Login(r) \/ Rotate(r) \/ RevokeDone(r)
      PROVE  TableStep(r) /\ pc'[r] = "idle"
  <2>1. TableStep(r)
    BY <1>0, <1>1, LoginRows, RotateRows, RevokeRows
  <2>2. pc'[r] = "idle"
    BY <1>0, <1>1 DEF Login, Rotate, RevokeDone, End, TypeOK
  <2>3. QED
    BY <2>1, <2>2
<1>2. CASE \E r \in Requests : Login(r) \/ Rotate(r) \/ RevokeDone(r)
  BY <1>1, <1>2 DEF TableStep, NewRows, HeldKept
<1>3. CASE \E t \in Tokens : Logout(t)
  BY <1>0, <1>3, LogoutRows
<1>4. CASE UNCHANGED token
  BY <1>0, <1>4, RowFacts DEF TypeOK, RowsKept
<1>5. \/ UNCHANGED token
      \/ \E r \in Requests : Login(r) \/ Rotate(r) \/ RevokeDone(r)
      \/ \E t \in Tokens : Logout(t)
  BY StepKinds, AdvanceKeeps DEF ChangePassword, vars
<1>6. QED
  BY <1>2, <1>3, <1>4, <1>5

-----------------------------------------------------------------------------
(* The requests: a step moves one of them, or none.                        *)

Idle(r) == pc'[r] = "idle" /\ job'[r] = NoJob /\ todo'[r] = {} /\ held'[r] = {}

Enters(r) ==
    /\ pc[r] = "idle" /\ pc'[r] \in {"login", "token", "delete"}
    /\ job'[r] \in Job /\ todo'[r] = todo[r] /\ held'[r] = held[r]
    /\ pc'[r] # "delete" => job'[r].new \in Tokens /\ Fresh(job'[r].new)
    /\ pc'[r] = "delete" => job'[r].op = "delete" /\ job'[r].new = None
    /\ pc'[r] = "token" => /\ job'[r].op = "refresh" /\ job'[r].token \in Tokens
                           /\ token[job'[r].token] # NoToken
                           /\ token[job'[r].token].user = job'[r].user

GoesOn(r) ==
    /\ job'[r] = job[r]
    /\ \/ /\ RefreshValid(r) /\ pc'[r] = "user" /\ todo'[r] = todo[r]
          /\ held'[r] = {job[r].token}
       \/ /\ RefreshReuse(r) /\ pc'[r] = "revoke" /\ todo'[r] = LiveTokens(job[r].user)
          /\ held'[r] = {job[r].token}
       \/ /\ LockDelete(r) /\ pc'[r] = "revoke" /\ todo'[r] = LiveTokens(job[r].user)
          /\ held'[r] = held[r]
       \/ \E t \in Tokens :
             /\ RevokeRow(r, t) /\ pc'[r] = pc[r] /\ todo'[r] = todo[r] \ {t}
             /\ held'[r] = IF token[t].state = "live" THEN held[r] \cup {t} ELSE held[r]

Moves(r) == Idle(r) \/ Enters(r) \/ GoesOn(r)

Stays(s) == pc'[s] = pc[s] /\ job'[s] = job[s] /\ todo'[s] = todo[s] /\ held'[s] = held[s]

OthersStay(r) == \A s \in Requests \ {r} : Stays(s)

Doms == /\ pc' = [r \in Requests |-> pc'[r]] /\ job' = [r \in Requests |-> job'[r]]
        /\ todo' = [r \in Requests |-> todo'[r]] /\ held' = [r \in Requests |-> held'[r]]

LEMMA EntersJob ==
    ASSUME TypeOK, NEW r \in Requests, Begins(r)
    PROVE  Doms /\ Enters(r) /\ OthersStay(r)
<1>1. ASSUME NEW at \in {"login", "token", "delete"}, NEW j \in Job, Start(r, at, j),
             at # "delete" => j.new \in Tokens /\ Fresh(j.new),
             at = "delete" => j.op = "delete" /\ j.new = None,
             at = "token" => /\ j.op = "refresh" /\ j.token \in Tokens
                             /\ token[j.token] # NoToken /\ token[j.token].user = j.user
      PROVE  Doms /\ Enters(r) /\ OthersStay(r)
  BY <1>1 DEF Start, TypeOK, Doms, Enters, OthersStay, Stays
<1>2. ASSUME NEW u \in Users, NEW p \in Passwords, NEW n \in Tokens, BeginLogin(r, u, p, n)
      PROVE  Doms /\ Enters(r) /\ OthersStay(r)
  <2> DEFINE j == [op |-> "login", user |-> u, token |-> None, new |-> n,
                   password |-> IF user[u].old THEN p ELSE None, rehash |-> user[u].old]
  <2>1. user[u].old \in BOOLEAN
    BY DEF TypeOK, UserRow
  <2>2. j \in Job /\ j.new = n
    BY <2>1 DEF Job
  <2>3. Start(r, "login", j) /\ Fresh(n)
    BY <1>2 DEF BeginLogin
  <2> HIDE DEF j
  <2>4. QED
    BY <1>1, <2>2, <2>3
<1>3. ASSUME NEW u \in Users, NEW n \in Tokens, BeginSocialLogin(r, u, n)
      PROVE  Doms /\ Enters(r) /\ OthersStay(r)
  <2> DEFINE j == [op |-> "login", user |-> u, token |-> None, new |-> n,
                   password |-> None, rehash |-> FALSE]
  <2>1. j \in Job /\ j.new = n
    BY DEF Job
  <2>2. Start(r, "login", j) /\ Fresh(n)
    BY <1>3 DEF BeginSocialLogin
  <2> HIDE DEF j
  <2>3. QED
    BY <1>1, <2>1, <2>2
<1>4. ASSUME NEW t \in Tokens, NEW n \in Tokens, BeginRefresh(r, t, n)
      PROVE  Doms /\ Enters(r) /\ OthersStay(r)
  <2> DEFINE j == [op |-> "refresh", user |-> token[t].user, token |-> t, new |-> n,
                   password |-> None, rehash |-> FALSE]
  <2>1. token[t].user \in Users
    BY <1>4, RowFacts DEF BeginRefresh
  <2>2. j \in Job /\ j.new = n /\ j.op = "refresh" /\ j.token = t /\ j.user = token[t].user
    BY <2>1 DEF Job
  <2>3. Start(r, "token", j) /\ Fresh(n) /\ token[t] # NoToken
    BY <1>4 DEF BeginRefresh
  <2> HIDE DEF j
  <2>4. QED
    BY <1>1, <2>2, <2>3
<1>5. ASSUME NEW u \in Users, BeginDelete(r, u)
      PROVE  Doms /\ Enters(r) /\ OthersStay(r)
  <2> DEFINE j == [op |-> "delete", user |-> u, token |-> None, new |-> None,
                   password |-> None, rehash |-> FALSE]
  <2>1. j \in Job /\ j.new = None /\ j.op = "delete"
    BY DEF Job
  <2>2. Start(r, "delete", j)
    BY <1>5 DEF BeginDelete
  <2> HIDE DEF j
  <2>3. QED
    BY <1>1, <2>1, <2>2
<1>6. QED
  BY <1>2, <1>3, <1>4, <1>5 DEF Begins

LEMMA JobStep ==
    ASSUME SessionsInv, [Next]_vars
    PROVE  Doms /\ \/ \A s \in Requests : Stays(s)
                   \/ \E r \in Requests : Moves(r) /\ OthersStay(r)
<1>0. TypeOK
  BY DEF SessionsInv
<1>1. ASSUME NEW r \in Requests, End(r)
      PROVE  Doms /\ Moves(r) /\ OthersStay(r)
  BY <1>0, <1>1 DEF End, TypeOK, Doms, Moves, Idle, OthersStay, Stays
<1>2. ASSUME NEW r \in Requests, Begins(r)
      PROVE  Doms /\ Moves(r) /\ OthersStay(r)
  BY <1>0, <1>2, EntersJob DEF Moves
<1>3. ASSUME NEW r \in Requests, RefreshValid(r) \/ RefreshReuse(r) \/ LockDelete(r)
      PROVE  Doms /\ Moves(r) /\ OthersStay(r)
  <2>1. Doms /\ OthersStay(r)
    BY <1>0, <1>3 DEF RefreshValid, RefreshReuse, LockDelete, TypeOK, Doms, OthersStay, Stays
  <2>2. GoesOn(r)
    BY <1>0, <1>3 DEF RefreshValid, RefreshReuse, LockDelete, TypeOK, GoesOn
  <2>3. QED
    BY <2>1, <2>2 DEF Moves
<1>4. ASSUME NEW r \in Requests, NEW t \in Tokens, RevokeRow(r, t)
      PROVE  Doms /\ Moves(r) /\ OthersStay(r)
  <2>1. Doms /\ OthersStay(r)
    BY <1>0, <1>4 DEF RevokeRow, TypeOK, Doms, OthersStay, Stays
  <2>2. /\ pc'[r] = pc[r] /\ job'[r] = job[r] /\ todo'[r] = todo[r] \ {t}
        /\ held'[r] = IF token[t].state = "live" THEN held[r] \cup {t} ELSE held[r]
    BY <1>0, <1>4 DEF RevokeRow, TypeOK
  <2>3. QED
    BY <1>4, <2>1, <2>2 DEF Moves, GoesOn
<1>5. CASE UNCHANGED <<pc, job, todo, held>>
  BY <1>0, <1>5 DEF TypeOK, Doms, Stays
<1>6. \/ UNCHANGED <<pc, job, todo, held>>
      \/ \E r \in Requests :
            \/ End(r) \/ Begins(r) \/ RefreshValid(r) \/ RefreshReuse(r) \/ LockDelete(r)
            \/ \E t \in Tokens : RevokeRow(r, t)
  BY StepKinds DEF Advances, Quits, Login, Rotate, RevokeDone, Logout, ChangePassword, vars
<1>7. QED
  BY <1>1, <1>2, <1>3, <1>4, <1>5, <1>6

-----------------------------------------------------------------------------
(* Each part of the invariant is kept. *)

LEMMA UserRowSet ==
    ASSUME NEW row \in UserRow, NEW p \in Passwords \cup {None}
    PROVE  /\ [row EXCEPT !.password = p, !.old = FALSE] \in UserRow
           /\ [row EXCEPT !.password = p, !.old = FALSE].deleted = row.deleted
           /\ [row EXCEPT !.deleted = TRUE, !.password = p] \in UserRow
           /\ [row EXCEPT !.deleted = TRUE, !.password = p].deleted
<1>1. [row EXCEPT !.password = p] \in UserRow /\ [row EXCEPT !.deleted = TRUE] \in UserRow
  BY DEF UserRow
<1>2. [row EXCEPT !.password = p, !.old = FALSE]
        = [[row EXCEPT !.password = p] EXCEPT !.old = FALSE]
  OBVIOUS
<1>3. [row EXCEPT !.deleted = TRUE, !.password = p]
        = [[row EXCEPT !.deleted = TRUE] EXCEPT !.password = p]
  OBVIOUS
<1>4. QED
  BY <1>1, <1>2, <1>3 DEF UserRow

LEMMA UserStep ==
    ASSUME SessionsInv, [Next]_vars
    PROVE  /\ user' \in [Users -> UserRow]
           /\ \A u \in Users : user[u].deleted => user'[u].deleted
           /\ \A u \in Users : user'[u].deleted /\ ~user[u].deleted =>
                 \E r \in Requests : RevokeDone(r) /\ HoldsUser(r, u)
<1>0. TypeOK
  BY DEF SessionsInv
<1>1. ASSUME NEW u \in Users, NEW p \in Passwords \cup {None},
             user' = [user EXCEPT ![u].password = p, ![u].old = FALSE]
      PROVE  /\ user' \in [Users -> UserRow]
             /\ \A w \in Users : user'[w].deleted = user[w].deleted
  <2> DEFINE row == [user[u] EXCEPT !.password = p, !.old = FALSE]
  <2>1. row \in UserRow /\ row.deleted = user[u].deleted
    BY <1>0, UserRowSet DEF TypeOK
  <2>2. user' = [user EXCEPT ![u] = row]
    BY <1>0, <1>1 DEF TypeOK
  <2> HIDE DEF row
  <2>3. QED
    BY <1>0, <2>1, <2>2 DEF TypeOK
<1>2. ASSUME NEW r \in Requests, Login(r)
      PROVE  /\ user' \in [Users -> UserRow]
             /\ \A w \in Users : user'[w].deleted = user[w].deleted
  <2>1. job[r].user \in Users /\ job[r].password \in Passwords \cup {None}
    BY <1>0, <1>2, JobFacts DEF Login
  <2>2. CASE user' = user
    BY <1>0, <2>2 DEF TypeOK
  <2>3. CASE user' = [user EXCEPT ![job[r].user].password = job[r].password,
                                  ![job[r].user].old = FALSE]
    BY <1>1, <2>1, <2>3
  <2>4. QED
    BY <1>2, <2>2, <2>3 DEF Login
<1>3. ASSUME NEW r \in Requests, RevokeDone(r), user' # user
      PROVE  /\ user' \in [Users -> UserRow] /\ HoldsUser(r, job[r].user)
             /\ \A w \in Users : w # job[r].user => user'[w] = user[w]
             /\ user'[job[r].user].deleted
  <2>1. job[r].user \in Users /\ pc[r] = "revoke" /\ job[r].op = "delete"
    BY <1>0, <1>3, JobFacts DEF RevokeDone
  <2>2. user' = [user EXCEPT ![job[r].user].deleted = TRUE, ![job[r].user].password = None]
    BY <1>3 DEF RevokeDone
  <2> DEFINE u == job[r].user
             row == [user[u] EXCEPT !.deleted = TRUE, !.password = None]
  <2>3. row \in UserRow /\ row.deleted
    BY <1>0, <2>1, UserRowSet DEF TypeOK
  <2>4. user' = [user EXCEPT ![u] = row]
    BY <1>0, <2>1, <2>2 DEF TypeOK
  <2>5. HoldsUser(r, u)
    BY <2>1 DEF HoldsUser
  <2> HIDE DEF row, u
  <2>6. user' \in [Users -> UserRow] /\ user'[u].deleted
          /\ \A w \in Users : w # u => user'[w] = user[w]
    BY <1>0, <2>1, <2>3, <2>4 DEF TypeOK, u
  <2>7. QED
    BY <2>5, <2>6 DEF u
<1>4. ASSUME NEW r \in Requests, RevokeDone(r), user' # user
      PROVE  /\ user' \in [Users -> UserRow]
             /\ \A u \in Users : user[u].deleted => user'[u].deleted
             /\ \A u \in Users : user'[u].deleted /\ ~user[u].deleted =>
                 \E s \in Requests : RevokeDone(s) /\ HoldsUser(s, u)
  BY <1>3, <1>4
<1>5. ASSUME NEW u \in Users, NEW p \in Passwords, ChangePassword(u, p)
      PROVE  /\ user' \in [Users -> UserRow]
             /\ \A w \in Users : user'[w].deleted = user[w].deleted
  BY <1>1, <1>5 DEF ChangePassword
<1>6. \/ UNCHANGED user
      \/ \E r \in Requests : Login(r) \/ (RevokeDone(r) /\ user' # user)
      \/ \E u \in Users, p \in Passwords : ChangePassword(u, p)
  BY StepKinds, AdvanceKeeps DEF Rotate, Logout, vars
<1>7. QED
  BY <1>0, <1>2, <1>4, <1>5, <1>6 DEF TypeOK

LEMMA TypeStep ==
    ASSUME SessionsInv, [Next]_vars
    PROVE  TypeOK'
<1>0. TypeOK
  BY DEF SessionsInv
<1> DEFINE Good(r) ==
      /\ pc'[r] \in {"idle", "login", "token", "user", "delete", "revoke"}
      /\ job'[r] \in Job \cup {NoJob}
      /\ todo'[r] \in SUBSET Tokens /\ held'[r] \in SUBSET Tokens
      /\ pc'[r] = "idle" <=> job'[r] = NoJob
      /\ pc'[r] # "revoke" => todo'[r] = {}
      /\ pc'[r] \notin {"user", "revoke"} => held'[r] = {}
<1>1. ASSUME NEW r \in Requests, Stays(r) PROVE Good(r)
  BY <1>0, <1>1 DEF Stays, TypeOK
<1>2. ASSUME NEW r \in Requests, Idle(r) PROVE Good(r)
  BY <1>0, <1>2 DEF Idle
<1>3. ASSUME NEW r \in Requests, Enters(r) PROVE Good(r)
  BY <1>0, <1>3, NotAJob DEF Enters, TypeOK
<1>4. ASSUME NEW r \in Requests, GoesOn(r) PROVE Good(r)
  <2>1. pc[r] # "idle"
    BY <1>4 DEF GoesOn, RefreshValid, RefreshReuse, LockDelete, RevokeRow
  <2>2. job'[r] \in Job /\ job'[r] # NoJob
    BY <1>0, <1>4, <2>1, JobFacts, NotAJob DEF GoesOn
  <2>3. LiveTokens(job[r].user) \subseteq Tokens
    BY DEF LiveTokens
  <2>4. ASSUME RefreshValid(r) \/ RefreshReuse(r) PROVE job[r].token \in Tokens
    BY <2>4 DEF RefreshValid, RefreshReuse, SessionsInv, Presents
  <2>5. todo[r] \in SUBSET Tokens /\ held[r] \in SUBSET Tokens
    BY <1>0 DEF TypeOK
  <2>6. CASE RefreshValid(r) /\ pc'[r] = "user" /\ todo'[r] = todo[r] /\ held'[r] = {job[r].token}
    BY <1>0, <2>2, <2>4, <2>5, <2>6 DEF RefreshValid, TypeOK
  <2>7. CASE /\ RefreshReuse(r) /\ pc'[r] = "revoke" /\ todo'[r] = LiveTokens(job[r].user)
             /\ held'[r] = {job[r].token}
    BY <2>2, <2>3, <2>4, <2>7
  <2>8. CASE /\ LockDelete(r) /\ pc'[r] = "revoke" /\ todo'[r] = LiveTokens(job[r].user)
             /\ held'[r] = held[r]
    BY <2>2, <2>3, <2>5, <2>8
  <2>9. ASSUME NEW t \in Tokens, RevokeRow(r, t), pc'[r] = pc[r], todo'[r] = todo[r] \ {t},
               held'[r] = IF token[t].state = "live" THEN held[r] \cup {t} ELSE held[r]
        PROVE  Good(r)
    BY <2>2, <2>5, <2>9 DEF RevokeRow
  <2>10. QED
    BY <1>4, <2>6, <2>7, <2>8, <2>9 DEF GoesOn
<1>5. \A r \in Requests : Good(r)
  BY <1>1, <1>2, <1>3, <1>4, JobStep DEF Moves, OthersStay
<1>6. /\ pc' \in [Requests -> {"idle", "login", "token", "user", "delete", "revoke"}]
      /\ job' \in [Requests -> Job \cup {NoJob}]
      /\ todo' \in [Requests -> SUBSET Tokens] /\ held' \in [Requests -> SUBSET Tokens]
  <2>1. Doms
    BY JobStep
  <2> HIDE DEF Good
  <2>2. ASSUME NEW r \in Requests
        PROVE  /\ pc'[r] \in {"idle", "login", "token", "user", "delete", "revoke"}
               /\ job'[r] \in Job \cup {NoJob}
               /\ todo'[r] \in SUBSET Tokens /\ held'[r] \in SUBSET Tokens
    BY <1>5 DEF Good
  <2>3. QED
    BY <2>1, <2>2 DEF Doms
<1>7. QED
  BY <1>5, <1>6, TokenStep, UserStep DEF TypeOK

LEMMA HeldStep ==
    ASSUME SessionsInv, [Next]_vars
    PROVE  HeldApart'
<1>0. TypeOK /\ HeldApart /\ \A r \in Requests : Presents(r)
  BY DEF SessionsInv
<1>1. ASSUME NEW r \in Requests, Moves(r), NEW t \in held'[r]
      PROVE  /\ t \in held[r] \/ \A s \in Requests \ {r} : t \notin held[s]
             /\ t \in Tokens /\ token[t] # NoToken
  <2>1. \/ t \in held[r]
        \/ t = job[r].token /\ (RefreshValid(r) \/ RefreshReuse(r))
        \/ RevokeRow(r, t) /\ t \in Tokens /\ token[t].state = "live"
    BY <1>0, <1>1 DEF Moves, Idle, Enters, GoesOn
  <2>2. CASE t \in held[r]
    BY <1>0, <2>2 DEF HeldApart, TypeOK
  <2>3. CASE t = job[r].token /\ (RefreshValid(r) \/ RefreshReuse(r))
    BY <1>0, <2>3, RowFacts DEF RefreshValid, RefreshReuse, Presents, TokenFree
  <2>4. CASE RevokeRow(r, t) /\ t \in Tokens /\ token[t].state = "live"
    BY <1>0, <2>4, RowFacts DEF RevokeRow, TokenFree
  <2>5. QED
    BY <2>1, <2>2, <2>3, <2>4
<1>2. ASSUME NEW r \in Requests, NEW t \in held'[r]
      PROVE  t \in Tokens /\ token[t] # NoToken
  BY <1>0, <1>1, <1>2, JobStep DEF OthersStay, Stays, HeldApart, TypeOK
<1>3. ASSUME NEW r \in Requests, NEW t \in held'[r]
      PROVE  token'[t] # NoToken
  BY <1>0, <1>2, <1>3, TokenStep, RowFacts DEF RowsKept
<1>4. ASSUME NEW r \in Requests, NEW s \in Requests, r # s, NEW t \in held'[r] \cap held'[s]
      PROVE  FALSE
  <2>1. ASSUME NEW m \in Requests, Moves(m), OthersStay(m) PROVE FALSE
    <3>1. CASE m = r
      BY <1>0, <1>1, <1>4, <2>1, <3>1 DEF OthersStay, Stays, HeldApart
    <3>2. CASE m = s
      BY <1>0, <1>1, <1>4, <2>1, <3>2 DEF OthersStay, Stays, HeldApart
    <3>3. CASE m # r /\ m # s
      BY <1>0, <1>4, <2>1, <3>3 DEF OthersStay, Stays, HeldApart
    <3>4. QED
      BY <3>1, <3>2, <3>3
  <2>2. CASE \A m \in Requests : Stays(m)
    BY <1>0, <1>4, <2>2 DEF Stays, HeldApart
  <2>3. QED
    BY <2>1, <2>2, JobStep
<1>5. QED
  BY <1>3, <1>4 DEF HeldApart

LEMMA IssuesStep ==
    ASSUME SessionsInv, [Next]_vars, NEW r \in Requests
    PROVE  Issues(r)'
<1>0. TypeOK /\ \A s \in Requests : Issues(s)
  BY DEF SessionsInv
<1> SUFFICES ASSUME pc'[r] \in {"login", "token", "user"}
             PROVE  /\ job'[r].new \in Tokens /\ token'[job'[r].new] = NoToken
                    /\ \A s \in Requests \ {r} : job'[s].new # job'[r].new
  BY DEF Issues
<1>1. \/ /\ job'[r] = job[r] /\ job[r].new \in Tokens /\ token[job[r].new] = NoToken
         /\ \A s \in Requests \ {r} : job[s].new # job[r].new
      \/ job'[r].new \in Tokens /\ Fresh(job'[r].new) /\ OthersStay(r)
  <2>1. CASE Stays(r)
    BY <1>0, <2>1 DEF Stays, Issues
  <2>2. CASE Moves(r) /\ OthersStay(r)
    BY <1>0, <2>2 DEF Moves, Idle, Enters, GoesOn, RefreshValid, RevokeRow, Issues
  <2>3. QED
    BY <2>1, <2>2, JobStep DEF OthersStay
<1>2. ASSUME NEW s \in Requests \ {r}
      PROVE  job'[s].new # job'[r].new
  <2>1. job[s].new # job'[r].new
    BY <1>1 DEF Fresh
  <2>2. CASE job'[s] = job[s]
    BY <2>1, <2>2
  <2>3. CASE Moves(s) /\ OthersStay(s)
    <3>1. job'[r] = job[r] /\ job[r].new # None
      BY <1>1, <2>3, SessionsAssumption DEF OthersStay, Stays
    <3>2. job'[s].new = None \/ job'[s] = job[s] \/ Fresh(job'[s].new)
      BY <2>3, NotAJob DEF Moves, Idle, Enters, GoesOn
    <3>3. QED
      BY <2>1, <3>1, <3>2 DEF Fresh
  <2>4. QED
    BY <2>2, <2>3, JobStep DEF OthersStay, Stays
<1>3. token'[job'[r].new] = NoToken
  <2>1. job'[r].new \in Tokens /\ token[job'[r].new] = NoToken
    BY <1>1 DEF Fresh
  <2>2. ASSUME NEW s \in Requests, Login(s) \/ Rotate(s), job'[r].new = job[s].new
        PROVE  FALSE
    <3>1. s # r
      BY <1>0, <2>2 DEF Login, Rotate, End, TypeOK
    <3>2. QED
      BY <1>1, <2>2, <3>1 DEF Fresh
  <2>3. QED
    BY <2>1, <2>2, TokenStep
<1>4. QED
  BY <1>1, <1>2, <1>3 DEF Fresh

LEMMA PresentsStep ==
    ASSUME SessionsInv, [Next]_vars, NEW r \in Requests
    PROVE  Presents(r)' /\ Deletes(r)'
<1>0. Presents(r) /\ Deletes(r)
  BY DEF SessionsInv
<1>1. CASE Stays(r)
  BY <1>0, <1>1 DEF Stays, Presents, Deletes
<1>2. CASE Idle(r) \/ Enters(r)
  BY <1>2 DEF Idle, Enters, Presents, Deletes
<1>3. CASE GoesOn(r)
  BY <1>0, <1>3 DEF GoesOn, RefreshValid, RevokeRow, Presents, Deletes
<1>4. QED
  BY <1>1, <1>2, <1>3, JobStep DEF Moves, OthersStay

LEMMA RotatesStep ==
    ASSUME SessionsInv, [Next]_vars, NEW r \in Requests
    PROVE  Rotates(r)'
<1>0. TypeOK /\ Rotates(r)
  BY DEF SessionsInv
<1>1. CASE Stays(r)
  <2>1. ASSUME pc'[r] = "user"
        PROVE  held'[r] = {job'[r].token} /\ token'[job'[r].token].state = "live"
    <3>1. held[r] = {job[r].token} /\ token[job[r].token].state = "live"
      BY <1>0, <1>1, <2>1 DEF Stays, Rotates
    <3>2. token'[job[r].token] = token[job[r].token]
      BY <2>1, <3>1, TokenStep
    <3>3. QED
      BY <1>1, <3>1, <3>2 DEF Stays
  <2>2. QED
    BY <2>1 DEF Rotates
<1>2. CASE Idle(r) \/ Enters(r)
  BY <1>2 DEF Idle, Enters, Rotates
<1>3. CASE GoesOn(r)
  BY <1>0, <1>3 DEF GoesOn, RefreshValid, RevokeRow, Rotates
<1>4. QED
  BY <1>1, <1>2, <1>3, JobStep DEF Moves, OthersStay

LEMMA CatchesStep ==
    ASSUME SessionsInv, [Next]_vars, NEW r \in Requests
    PROVE  Catches(r)'
<1>0. TypeOK /\ Catches(r) /\ Presents(r)
  BY DEF SessionsInv
<1> SUFFICES ASSUME NEW u \in Users, pc'[r] = "revoke", job'[r].op = "delete", job'[r].user = u,
                    NEW t \in Tokens, token'[t].state = "live", token'[t].user = u,
                    token'[t].parent # None
             PROVE  t \in todo'[r] \cup held'[r]
  BY DEF Catches, HoldsUser, LiveTokens
<1>1. ASSUME UNCHANGED token
      PROVE  t \in LiveTokens(u) /\ token[t].parent # None
  BY <1>1 DEF LiveTokens
<1>2. CASE Stays(r)
  <2>1. HoldsUser(r, u)
    BY <1>2 DEF Stays, HoldsUser
  <2>2. token[t] # NoToken
    <3>1. ASSUME NEW s \in Requests, Rotate(s), job[s].user = u PROVE FALSE
      BY <2>1, <3>1 DEF Rotate, UserFree, HoldsUser
    <3>2. QED
      BY <3>1, TokenStep, RowFacts, <1>0
  <2>3. t \in LiveTokens(u) /\ token[t].parent # None
    BY <1>0, <2>2, TokenStep, RowFacts DEF RowsKept, LiveTokens
  <2>4. QED
    BY <1>0, <1>2, <2>1, <2>3 DEF Stays, Catches
<1>3. CASE LockDelete(r) /\ job'[r] = job[r] /\ todo'[r] = LiveTokens(job[r].user)
  BY <1>1, <1>3 DEF LockDelete
<1>4. ASSUME NEW x \in Tokens, RevokeRow(r, x), job'[r] = job[r], todo'[r] = todo[r] \ {x},
             held'[r] = IF token[x].state = "live" THEN held[r] \cup {x} ELSE held[r]
      PROVE  t \in todo'[r] \cup held'[r]
  <2>1. HoldsUser(r, u) /\ UNCHANGED token
    BY <1>4 DEF RevokeRow, HoldsUser
  <2>2. t \in todo[r] \cup held[r] /\ token[t].state = "live"
    BY <1>0, <1>1, <2>1 DEF Catches
  <2>3. QED
    BY <1>4, <2>2
<1>5. CASE Moves(r)
  <2>1. ~RefreshReuse(r) \/ job'[r] # job[r]
    BY <1>0 DEF RefreshReuse, Presents
  <2>2. QED
    BY <1>3, <1>4, <1>5, <2>1 DEF Moves, Idle, Enters, GoesOn
<1>6. QED
  BY <1>2, <1>5, JobStep DEF OthersStay

LEMMA ChainStep ==
    ASSUME SessionsInv, [Next]_vars
    PROVE  SessionChain'
<1>0. /\ TypeOK /\ SessionChain /\ HeldApart
      /\ \A r \in Requests : Issues(r) /\ Presents(r) /\ Rotates(r)
  BY DEF SessionsInv
<1> SUFFICES ASSUME NEW t \in Tokens, token'[t] # NoToken, token'[t].parent # None
             PROVE  /\ token'[token'[t].parent].state = "revoked"
                    /\ \A s \in Tokens \ {t} : token'[s].parent # token'[t].parent
  BY DEF SessionChain
<1> DEFINE p == token'[t].parent
<1>1. ASSUME NEW s \in Tokens, token'[s].parent # None, token[s] = NoToken
      PROVE  \E r \in Requests :
                /\ Rotate(r) /\ s = job[r].new /\ token'[s].parent = job[r].token
                /\ token[job[r].token].state = "live" /\ token'[job[r].token].state = "revoked"
                /\ held[r] = {job[r].token}
  <2>1. token'[s] # NoToken
    BY <1>0, <1>1, RowFacts
  <2>2. PICK r \in Requests : Rotate(r) /\ s = job[r].new /\ token'[s].parent = job[r].token
    BY <1>1, <2>1, TokenStep
  <2>3. token[job[r].token].state = "live" /\ token'[job[r].token].state = "revoked"
    BY <1>0, <2>2, RotateRows
  <2>4. held[r] = {job[r].token}
    BY <1>0, <2>2 DEF Rotate, Rotates
  <2>5. QED
    BY <2>2, <2>3, <2>4
<1>2. ASSUME NEW s \in Tokens, token'[s].parent # None, token[s] # NoToken
      PROVE  /\ token'[s].parent = token[s].parent /\ token[s].parent \in Tokens
             /\ token[token[s].parent].state = "revoked"
             /\ \A x \in Tokens \ {s} : token[x].parent # token[s].parent
  <2>1. token'[s].parent = token[s].parent
    BY <1>2, TokenStep DEF RowsKept
  <2>2. QED
    BY <1>0, <1>2, <2>1, RowFacts DEF SessionChain
<1>3. CASE token[t] # NoToken
  <2>1. p \in Tokens /\ token[p].state = "revoked" /\ p = token[t].parent
    BY <1>2, <1>3
  <2>2. token'[p].state = "revoked"
    BY <1>0, <2>1, TokenStep, RowFacts DEF RowsKept
  <2>3. ASSUME NEW s \in Tokens \ {t}, token'[s].parent = p PROVE FALSE
    BY <1>1, <1>2, <1>3, <2>1, <2>3
  <2>4. QED
    BY <2>2, <2>3
<1>4. CASE token[t] = NoToken
  <2>1. PICK r \in Requests :
                /\ Rotate(r) /\ t = job[r].new /\ p = job[r].token
                /\ token[p].state = "live" /\ token'[p].state = "revoked" /\ held[r] = {p}
    BY <1>1, <1>4
  <2>2. ASSUME NEW s \in Tokens \ {t}, token'[s].parent = p, token[s] = NoToken PROVE FALSE
    BY <1>0, <1>1, <2>1, <2>2 DEF HeldApart
  <2>3. ASSUME NEW s \in Tokens \ {t}, token'[s].parent = p, token[s] # NoToken PROVE FALSE
    BY <1>2, <2>1, <2>3
  <2>4. QED
    BY <2>1, <2>2, <2>3
<1>5. QED
  BY <1>3, <1>4

LEMMA DeletedStep ==
    ASSUME SessionsInv, [Next]_vars
    PROVE  DeletedHasNoChain'
<1>0. TypeOK /\ HeldApart /\ DeletedHasNoChain /\ \A r \in Requests : Catches(r)
  BY DEF SessionsInv
<1> SUFFICES ASSUME NEW t \in Tokens, token'[t].state = "live", user'[token'[t].user].deleted,
                    token'[t].parent # None
             PROVE  FALSE
  BY DEF DeletedHasNoChain
<1> DEFINE u == token'[t].user
<1>1. CASE token[t] # NoToken
  <2>1. /\ token[t].state = "live" /\ token[t].parent # None
        /\ token[t].user = u /\ u \in Users
    BY <1>0, <1>1, TokenStep, RowFacts DEF RowsKept
  <2>2. ~user[u].deleted
    BY <1>0, <2>1 DEF DeletedHasNoChain
  <2>3. PICK r \in Requests : RevokeDone(r) /\ HoldsUser(r, u)
    BY <2>1, <2>2, UserStep
  <2>4. t \in held[r]
    BY <1>0, <2>1, <2>3 DEF Catches, LiveTokens, RevokeDone
  <2>5. QED
    BY <1>0, <2>3, <2>4, RevokeRows
<1>2. CASE token[t] = NoToken
  <2>1. PICK r \in Requests : Rotate(r) /\ u = job[r].user
    BY <1>0, <1>2, TokenStep, RowFacts
  <2>2. QED
    BY <2>1 DEF Rotate
<1>3. QED
  BY <1>1, <1>2

-----------------------------------------------------------------------------
(* The theorems. *)

LEMMA InitInv ==
    Init => SessionsInv
<1> SUFFICES ASSUME Init PROVE SessionsInv
  OBVIOUS
<1>1. TypeOK
  <2>1. user \in [Users -> UserRow]
    BY SessionsAssumption DEF Init, UserRow
  <2>2. QED
    BY <2>1 DEF Init, TypeOK
<1>2. \A r \in Requests : pc[r] = "idle" /\ held[r] = {}
  BY DEF Init
<1>3. \A t \in Tokens : token[t] = NoToken /\ token[t].state = "absent"
  BY DEF Init, NoToken
<1>4. QED
  BY <1>1, <1>2, <1>3
     DEF SessionsInv, SessionChain, DeletedHasNoChain, HeldApart, Issues, Presents, Deletes,
         Rotates, Catches, HoldsUser

LEMMA NextInv ==
    SessionsInv /\ [Next]_vars => SessionsInv'
BY TypeStep, ChainStep, DeletedStep, HeldStep, IssuesStep, PresentsStep, RotatesStep, CatchesStep
   DEF SessionsInv

LEMMA SessionsInvariant ==
    Spec => []SessionsInv
BY InitInv, NextInv, PTL DEF Spec

(* The tables and requests have their types; a request has row locks only  *)
(* where it waits for another or runs the UPDATE.                          *)
THEOREM TypeCorrect ==
    Spec => []TypeOK
<1>1. SessionsInv => TypeOK
  BY DEF SessionsInv
<1>2. QED
  BY <1>1, SessionsInvariant, PTL

(* A token has at most one successor and is revoked when it has, for any   *)
(* number of refreshes of it: they go one by one through its row lock.     *)
THEOREM RotatedOnce ==
    Spec => []SessionChain
<1>1. SessionsInv => SessionChain
  BY DEF SessionsInv
<1>2. QED
  BY <1>1, SessionsInvariant, PTL

(* A deleted account has no live token that a rotation issued: a deletion  *)
(* looks for tokens only once nobody can rotate one of this user's.        *)
THEOREM DeletionIsComplete ==
    Spec => []DeletedHasNoChain
<1>1. SessionsInv => DeletedHasNoChain
  BY DEF SessionsInv
<1>2. QED
  BY <1>1, SessionsInvariant, PTL

(* A token row is locked by one request, and a token that a request will   *)
(* issue is nobody else's.                                                 *)
THEOREM RowLocks ==
    Spec => [](HeldApart /\ \A r \in Requests : Issues(r))
<1>1. SessionsInv => HeldApart /\ \A r \in Requests : Issues(r)
  BY DEF SessionsInv
<1>2. QED
  BY <1>1, SessionsInvariant, PTL

-----------------------------------------------------------------------------
(* Sessions implements Credentials: what the invariant lacks for it.       *)

(* What a refresh presents and what an UPDATE locks or will look at are    *)
(* tokens of the request's user.                                           *)
Owns(r) ==
    /\ pc[r] \in {"token", "user"} =>
          token[job[r].token] # NoToken /\ token[job[r].token].user = job[r].user
    /\ \A t \in todo[r] \cup held[r] : token[t] # NoToken /\ token[t].user = job[r].user

(* A deletion past its lock is of a live account, and the only one.        *)
Closes(r) ==
    \A u \in Users : HoldsUser(r, u) =>
        ~user[u].deleted /\ \A s \in Requests \ {r} : ~HoldsUser(s, u)

PromiseInv == SessionsInv /\ \A r \in Requests : Owns(r) /\ Closes(r)

LEMMA OwnsStep ==
    ASSUME SessionsInv, [Next]_vars, NEW r \in Requests, Owns(r)
    PROVE  Owns(r)'
<1>0. TypeOK /\ Presents(r)
  BY DEF SessionsInv
<1>1. \A t \in Tokens : token[t] # NoToken =>
         token'[t] # NoToken /\ token'[t].user = token[t].user
  BY <1>0, TokenStep, RowFacts DEF RowsKept
<1>2. todo[r] \subseteq Tokens /\ held[r] \subseteq Tokens
  BY <1>0 DEF TypeOK
<1>3. CASE Stays(r)
  BY <1>0, <1>1, <1>2, <1>3 DEF Stays, Owns, Presents
<1>4. CASE Idle(r)
  BY <1>4 DEF Idle, Owns
<1>5. CASE Enters(r)
  <2>1. todo'[r] = {} /\ held'[r] = {}
    BY <1>0, <1>5 DEF Enters, TypeOK
  <2>2. QED
    BY <1>1, <1>5, <2>1 DEF Enters, Owns
<1>6. CASE GoesOn(r)
  <2>1. \A t \in LiveTokens(job[r].user) :
           t \in Tokens /\ token[t] # NoToken /\ token[t].user = job[r].user
    BY <1>0, RowFacts DEF LiveTokens
  <2>2. CASE RefreshValid(r) /\ pc'[r] = "user" /\ todo'[r] = todo[r] /\ held'[r] = {job[r].token}
    BY <1>0, <1>1, <1>2, <1>6, <2>2 DEF GoesOn, RefreshValid, Presents, Owns
  <2>3. CASE /\ RefreshReuse(r) /\ pc'[r] = "revoke" /\ todo'[r] = LiveTokens(job[r].user)
             /\ held'[r] = {job[r].token}
    BY <1>0, <1>1, <1>6, <2>1, <2>3 DEF GoesOn, RefreshReuse, Presents, Owns
  <2>4. CASE /\ LockDelete(r) /\ pc'[r] = "revoke" /\ todo'[r] = LiveTokens(job[r].user)
             /\ held'[r] = held[r]
    BY <1>1, <1>2, <1>6, <2>1, <2>4 DEF GoesOn, Owns
  <2>5. ASSUME NEW t \in Tokens, RevokeRow(r, t), pc'[r] = pc[r], todo'[r] = todo[r] \ {t},
               held'[r] = IF token[t].state = "live" THEN held[r] \cup {t} ELSE held[r]
        PROVE  Owns(r)'
    <3>1. todo'[r] \cup held'[r] \subseteq todo[r] \cup held[r]
      BY <2>5 DEF RevokeRow
    <3>2. job'[r] = job[r] /\ pc'[r] = "revoke"
      BY <1>6, <2>5 DEF GoesOn, RevokeRow
    <3>3. QED
      BY <1>1, <1>2, <3>1, <3>2 DEF Owns
  <2>6. QED
    BY <1>6, <2>2, <2>3, <2>4, <2>5 DEF GoesOn
<1>7. QED
  BY <1>3, <1>4, <1>5, <1>6, JobStep DEF Moves, OthersStay

(* Who comes to hold a user row does so by LockDelete. *)
LEMMA LocksUser ==
    ASSUME SessionsInv, [Next]_vars, NEW r \in Requests, NEW u \in Users, HoldsUser(r, u)'
    PROVE  HoldsUser(r, u) \/ (LockDelete(r) /\ job[r].user = u)
<1>0. Presents(r)
  BY DEF SessionsInv
<1>1. pc'[r] = "revoke" /\ job'[r].op = "delete" /\ job'[r].user = u
  BY DEF HoldsUser
<1>2. CASE Stays(r)
  BY <1>1, <1>2 DEF Stays, HoldsUser
<1>3. CASE Moves(r)
  BY <1>0, <1>1, <1>3
     DEF Moves, Idle, Enters, GoesOn, RefreshReuse, RevokeRow, Presents, HoldsUser
<1>4. QED
  BY <1>2, <1>3, JobStep DEF OthersStay

LEMMA ClosesStep ==
    ASSUME PromiseInv, [Next]_vars, NEW r \in Requests
    PROVE  Closes(r)'
<1>0. SessionsInv /\ \A s \in Requests : Closes(s)
  BY DEF PromiseInv
<1> SUFFICES ASSUME NEW u \in Users, HoldsUser(r, u)'
             PROVE  ~user'[u].deleted /\ \A s \in Requests \ {r} : ~HoldsUser(s, u)'
  BY DEF Closes
<1>1. ~user[u].deleted
  BY <1>0, LocksUser DEF Closes, LockDelete
<1>2. ~user'[u].deleted
  <2>1. ASSUME NEW s \in Requests, RevokeDone(s), HoldsUser(s, u) PROVE FALSE
    <3>1. pc[s] = "revoke" /\ pc' = [pc EXCEPT ![s] = "idle"]
      BY <2>1 DEF RevokeDone, End
    <3>2. r # s
      BY <1>0, <3>1 DEF HoldsUser, SessionsInv, TypeOK
    <3>3. pc'[r] = pc[r]
      BY <1>0, <3>1, <3>2 DEF SessionsInv, TypeOK
    <3>4. ~HoldsUser(r, u)
      BY <1>0, <2>1, <3>2 DEF Closes
    <3>5. LockDelete(r)
      BY <1>0, <3>4, LocksUser
    <3>6. QED
      BY <3>3, <3>5 DEF LockDelete, HoldsUser
  <2>2. QED
    BY <1>0, <1>1, <2>1, UserStep
<1>3. ASSUME NEW s \in Requests \ {r}, HoldsUser(s, u)' PROVE FALSE
  <2>1. ASSUME NEW x \in Requests, NEW y \in Requests, x # y, LockDelete(x), job[x].user = u,
               HoldsUser(y, u) \/ LockDelete(y), HoldsUser(y, u)'
        PROVE  FALSE
    <3>1. ~HoldsUser(y, u)
      BY <2>1 DEF LockDelete, UserFree
    <3>2. pc[y] = "delete" /\ pc' = [pc EXCEPT ![x] = "revoke"]
      BY <2>1, <3>1 DEF LockDelete
    <3>3. pc'[y] = "delete"
      BY <1>0, <2>1, <3>2 DEF SessionsInv, TypeOK
    <3>4. QED
      BY <2>1, <3>3 DEF HoldsUser
  <2>2. QED
    BY <1>0, <1>3, <2>1, LocksUser DEF Closes
<1>4. QED
  BY <1>2, <1>3

LEMMA PromiseInvariant ==
    Spec => []PromiseInv
<1>1. Init => PromiseInv
  <2> SUFFICES ASSUME Init PROVE PromiseInv
    OBVIOUS
  <2>1. \A r \in Requests : pc[r] = "idle" /\ held[r] = {} /\ todo[r] = {}
    BY DEF Init
  <2>2. QED
    BY <2>1, InitInv DEF PromiseInv, Owns, Closes, HoldsUser
<1>2. PromiseInv /\ [Next]_vars => PromiseInv'
  BY NextInv, OwnsStep, ClosesStep DEF PromiseInv
<1>3. QED
  BY <1>1, <1>2, PTL DEF Spec

-----------------------------------------------------------------------------
(* Each kind of step as a step of Credentials. *)

LEMMA ClosedKept ==
    ASSUME SessionsInv, [Next]_vars,
           \/ \E r \in Requests : Login(r) \/ Rotate(r) \/ Advances(r)
           \/ \E t \in Tokens : Logout(t)
           \/ \E u \in Users, p \in Passwords : ChangePassword(u, p)
    PROVE  UNCHANGED ClosedAccounts
<1>1. ASSUME NEW s \in Requests, RevokeDone(s), NEW r \in Requests, Login(r) PROVE FALSE
  <2>1. /\ pc[s] = "revoke" /\ pc' = [pc EXCEPT ![s] = "idle"]
        /\ pc[r] = "login" /\ pc' = [pc EXCEPT ![r] = "idle"]
    BY <1>1 DEF RevokeDone, Login, End
  <2>2. pc \in [Requests -> {"idle", "login", "token", "user", "delete", "revoke"}]
    BY DEF SessionsInv, TypeOK
  <2>3. QED
    BY <2>1, <2>2
<1>2. ASSUME NEW s \in Requests, RevokeDone(s), NEW u \in Users, NEW p \in Passwords,
             ChangePassword(u, p)
      PROVE  FALSE
  BY <1>2 DEF RevokeDone, End, ChangePassword, SessionsInv, TypeOK
<1>3. CASE user' = user
  BY <1>3 DEF ClosedAccounts
<1>4. CASE \/ \E r \in Requests : Login(r)
           \/ \E u \in Users, p \in Passwords : ChangePassword(u, p)
  BY <1>1, <1>2, <1>4, UserStep DEF ClosedAccounts
<1>5. QED
  BY <1>3, <1>4, AdvanceKeeps DEF Rotate, Logout

(* A token as Credentials sees it. *)
LEMMA Seen ==
    ASSUME TypeOK, NEW t \in Tokens
    PROVE  /\ HolderOf[t] = IF token[t].state = "live" THEN token[t].user ELSE None
           /\ t \in SpentTokens <=> token[t].state = "revoked"
           /\ t \in RenewedTokens <=> token[t].parent # None
           /\ token[t].state = "live" => HolderOf[t] \in Users /\ HolderOf[t] # None
BY RowFacts, SessionsAssumption DEF HolderOf, SpentTokens, RenewedTokens

LEMMA LoginGrants ==
    ASSUME SessionsInv, [Next]_vars, NEW r \in Requests, Login(r)
    PROVE  Promise!Next
<1>0. TypeOK /\ Issues(r)
  BY DEF SessionsInv
<1> DEFINE n == job[r].new
           u == job[r].user
           row == Issue(n, u, None)
<1>1. n \in Tokens /\ token[n] = NoToken /\ u \in Users
  BY <1>0, JobFacts DEF Login, Issues
<1>2. row \in TokenRow /\ row.state = "live" /\ row.user = u /\ row.parent = None
  BY <1>1, IssuedRow
<1>3. token' = [token EXCEPT ![n] = row] /\ UNCHANGED ClosedAccounts
  BY ClosedKept DEF Login
<1> HIDE DEF row, n, u
<1>4. token'[n] = row /\ \A t \in Tokens \ {n} : token'[t] = token[t]
  BY <1>0, <1>1, <1>3 DEF TypeOK
<1>5. NoToken.state = "absent" /\ NoToken.parent = None
  BY DEF NoToken
<1>6. HolderOf[n] = None /\ n \notin SpentTokens
  BY <1>0, <1>1, <1>5, Seen
<1>7. HolderOf' = [HolderOf EXCEPT ![n] = u]
  BY <1>1, <1>2, <1>4 DEF HolderOf
<1>8. SpentTokens' = SpentTokens /\ RenewedTokens' = RenewedTokens
  BY <1>1, <1>2, <1>4, <1>5 DEF SpentTokens, RenewedTokens
<1>9. Promise!Grant(u, n)
  BY <1>3, <1>6, <1>7, <1>8 DEF Promise!Grant, Promise!Unused
<1>10. QED
  BY <1>1, <1>9 DEF Promise!Next

LEMMA RotateExchanges ==
    ASSUME PromiseInv, [Next]_vars, NEW r \in Requests, Rotate(r)
    PROVE  Promise!Next
<1>0. SessionsInv /\ TypeOK /\ HeldApart /\ Issues(r) /\ Presents(r) /\ Rotates(r) /\ Owns(r)
  BY DEF PromiseInv, SessionsInv
<1> DEFINE n == job[r].new
           t == job[r].token
           u == job[r].user
           row == Issue(n, u, t)
           old == [token[t] EXCEPT !.state = "revoked"]
<1>1. n \in Tokens /\ token[n] = NoToken /\ u \in Users /\ ~user[u].deleted
  BY <1>0, JobFacts DEF Rotate, Issues
<1>2. t \in Tokens /\ token[t].state = "live" /\ token[t].user = u
  BY <1>0 DEF Rotate, Presents, Rotates, Owns
<1>3. token[t] \in TokenRow /\ t # n
  BY <1>0, <1>1, <1>2, RowFacts
<1>4. row \in TokenRow /\ row.state = "live" /\ row.user = u /\ row.parent = t
  BY <1>1, <1>2, IssuedRow
<1>5. old \in TokenRow /\ old.state = "revoked" /\ old.parent = token[t].parent
  BY <1>3, RevokedRow
<1>6. token' = [token EXCEPT ![t] = old, ![n] = row] /\ UNCHANGED ClosedAccounts
  BY <1>0, ClosedKept DEF Rotate
<1>7. NoToken.state = "absent" /\ NoToken.parent = None /\ t # None
  BY <1>2, SessionsAssumption DEF NoToken
<1> HIDE DEF row, old, n, t, u
<1>8. /\ token'[t] = old /\ token'[n] = row
      /\ \A x \in Tokens \ {t, n} : token'[x] = token[x]
  BY <1>0, <1>1, <1>2, <1>3, <1>6 DEF TypeOK
<1>9. /\ HolderOf[n] = None /\ n \notin SpentTokens /\ HolderOf[t] = u
      /\ u \notin ClosedAccounts
  BY <1>0, <1>1, <1>2, <1>7, Seen DEF ClosedAccounts
<1>10. HolderOf' = [HolderOf EXCEPT ![t] = None, ![n] = u]
  BY <1>1, <1>2, <1>3, <1>4, <1>5, <1>8 DEF HolderOf
<1>11. SpentTokens' = SpentTokens \cup {t}
  BY <1>1, <1>2, <1>3, <1>4, <1>5, <1>7, <1>8 DEF SpentTokens
<1>12. RenewedTokens' = RenewedTokens \cup {n}
  BY <1>1, <1>2, <1>3, <1>4, <1>5, <1>7, <1>8 DEF RenewedTokens
<1>13. Promise!Exchange(u, t, n)
  BY <1>6, <1>9, <1>10, <1>11, <1>12 DEF Promise!Exchange, Promise!Unused
<1>14. QED
  BY <1>1, <1>2, <1>13 DEF Promise!Next

(* The tokens of T become revoked and no others change. *)
LEMMA Withdrawn ==
    ASSUME TypeOK, NEW T \in SUBSET Tokens, token' \in [Tokens -> TokenRow \cup {NoToken}],
           \A t \in T : token'[t].state = "revoked" /\ token'[t].parent = token[t].parent,
           \A t \in Tokens \ T : token'[t] = token[t]
    PROVE  Promise!Withdraw(T)
<1>1. HolderOf' = [t \in Tokens |-> IF t \in T THEN None ELSE HolderOf[t]]
  BY DEF HolderOf
<1>2. SpentTokens' = SpentTokens \cup T /\ RenewedTokens' = RenewedTokens
  BY DEF SpentTokens, RenewedTokens
<1>3. QED
  BY <1>1, <1>2 DEF Promise!Withdraw

LEMMA LogoutRevokes ==
    ASSUME SessionsInv, [Next]_vars, NEW t \in Tokens, Logout(t)
    PROVE  Promise!Next
<1>0. TypeOK
  BY DEF SessionsInv
<1> DEFINE u == token[t].user
           old == [token[t] EXCEPT !.state = "revoked"]
<1>1. token[t] \in TokenRow /\ u \in Users /\ HolderOf[t] = u
  BY <1>0, RowFacts, Seen DEF Logout
<1>2. old \in TokenRow /\ old.state = "revoked" /\ old.parent = token[t].parent
  BY <1>1, RevokedRow
<1>3. token' = [token EXCEPT ![t] = old] /\ UNCHANGED ClosedAccounts
  BY ClosedKept DEF Logout
<1> HIDE DEF old, u
<1>4. Promise!Withdraw({t})
  BY <1>0, <1>2, <1>3, Withdrawn DEF TypeOK
<1>5. {t} \subseteq Promise!Works(u)
  BY <1>1 DEF Promise!Works
<1>6. QED
  BY <1>1, <1>3, <1>4, <1>5 DEF Promise!Next, Promise!Revoke

(* A deletion withdraws every token its account got in exchange.           *)
LEMMA RevokeWithdraws ==
    ASSUME PromiseInv, [Next]_vars, NEW r \in Requests, RevokeDone(r)
    PROVE  Promise!Next
<1>0. /\ SessionsInv /\ TypeOK /\ HeldApart /\ Catches(r) /\ Owns(r) /\ Closes(r)
  BY DEF PromiseInv, SessionsInv
<1> DEFINE T == {t \in held[r] : token[t].state = "live"}
           u == job[r].user
<1>1. u \in Users /\ pc[r] = "revoke" /\ todo[r] = {} /\ job[r] \in Job
  BY <1>0, JobFacts DEF RevokeDone
<1>2. held[r] \subseteq Tokens /\ T \in SUBSET Tokens
  BY <1>0 DEF TypeOK
<1>3. Promise!Withdraw(T)
  <2>1. /\ token' \in [Tokens -> TokenRow \cup {NoToken}] /\ RowsKept
        /\ \A t \in held[r] : token'[t].state = "revoked"
    BY <1>0, RevokeRows DEF TableStep
  <2>2. token' = [t \in Tokens |->
                    IF t \in held[r] THEN [token[t] EXCEPT !.state = "revoked"] ELSE token[t]]
    BY DEF RevokeDone, Revoked
  <2>3. ASSUME NEW t \in held[r], t \notin T PROVE token'[t] = token[t]
    <3>1. token[t] \in TokenRow /\ token[t].state = "revoked"
      BY <1>0, <1>2, <2>3, RowFacts DEF HeldApart
    <3>2. [token[t] EXCEPT !.state = "revoked"] = token[t]
      BY <3>1 DEF TokenRow
    <3>3. QED
      BY <1>2, <2>2, <2>3, <3>2
  <2>4. \A t \in Tokens \ T : token'[t] = token[t]
    BY <2>2, <2>3
  <2>5. \A t \in T : token'[t].state = "revoked" /\ token'[t].parent = token[t].parent
    BY <1>0, <1>2, <2>1 DEF RowsKept, HeldApart
  <2>6. QED
    BY <1>0, <1>2, <2>1, <2>4, <2>5, Withdrawn
<1>4. T \subseteq Promise!Works(u)
  BY <1>0, <1>2, Seen DEF Promise!Works, Owns
<1> HIDE DEF T
<1>5. CASE job[r].op = "delete"
  <2>1. HoldsUser(r, u) /\ u \notin ClosedAccounts
    BY <1>0, <1>1, <1>5 DEF HoldsUser, Closes, ClosedAccounts
  <2>2. Promise!Works(u) \cap RenewedTokens \subseteq T
    <3>1. ASSUME NEW t \in Tokens, HolderOf[t] = u, t \in RenewedTokens PROVE t \in T
      <4>1. token[t].state = "live" /\ token[t].user = u /\ token[t].parent # None
        BY <1>0, <1>1, <3>1, Seen, SessionsAssumption
      <4>2. t \in held[r]
        BY <1>0, <1>1, <2>1, <4>1 DEF Catches, LiveTokens
      <4>3. QED
        BY <4>1, <4>2 DEF T
    <3>2. QED
      BY <3>1 DEF Promise!Works
  <2>3. ClosedAccounts' = ClosedAccounts \cup {u}
    <3>1. user' = [user EXCEPT ![u].deleted = TRUE, ![u].password = None]
      BY <1>5 DEF RevokeDone
    <3> DEFINE row == [user[u] EXCEPT !.deleted = TRUE, !.password = None]
    <3>2. row.deleted
      BY <1>0, <1>1, UserRowSet DEF TypeOK
    <3>3. user' = [user EXCEPT ![u] = row]
      BY <1>0, <1>1, <3>1 DEF TypeOK
    <3> HIDE DEF row, u
    <3>4. user'[u].deleted /\ \A w \in Users \ {u} : user'[w] = user[w]
      BY <1>0, <1>1, <3>2, <3>3 DEF TypeOK
    <3>5. QED
      BY <1>1, <3>4 DEF ClosedAccounts
  <2>4. Promise!Close(u, T)
    BY <1>3, <1>4, <2>1, <2>2, <2>3 DEF Promise!Close
  <2>5. QED
    BY <1>1, <1>2, <2>4 DEF Promise!Next
<1>6. CASE job[r].op # "delete"
  <2>1. UNCHANGED ClosedAccounts
    BY <1>6 DEF RevokeDone, ClosedAccounts
  <2>2. Promise!Revoke(u, T)
    BY <1>3, <1>4, <2>1 DEF Promise!Revoke
  <2>3. QED
    BY <1>1, <1>2, <2>2 DEF Promise!Next
<1>7. QED
  BY <1>5, <1>6

(* Sessions implements Credentials: a login grants a token, a rotation     *)
(* exchanges one, a logout, the reuse of a token and a deletion withdraw   *)
(* theirs in the one step of their commit, and nothing else (waiting,      *)
(* locking, running an UPDATE row by row, deadlocks, crashes, password     *)
(* changes) changes what works, for any number of overlapping requests of  *)
(* AuthService (app/services/auth_service.py).                             *)
THEOREM Refinement ==
    Spec => ImplementsCredentials
<1>1. Init => Promise!Init
  <2> SUFFICES ASSUME Init PROVE Promise!Init
    OBVIOUS
  <2>1. \A t \in Tokens : token[t] = NoToken
    BY DEF Init
  <2>2. NoToken.state = "absent" /\ NoToken.parent = None
    BY DEF NoToken
  <2>3. \A u \in Users : user[u].deleted = FALSE
    BY DEF Init
  <2>4. HolderOf = [t \in Tokens |-> None]
    BY <2>1, <2>2 DEF HolderOf
  <2>5. SpentTokens = {} /\ RenewedTokens = {} /\ ClosedAccounts = {}
    BY <2>1, <2>2, <2>3 DEF SpentTokens, RenewedTokens, ClosedAccounts
  <2>6. QED
    BY <2>4, <2>5 DEF Promise!Init
<1>2. PromiseInv /\ [Next]_vars => [Promise!Next]_(Promise!vars)
  <2> SUFFICES ASSUME PromiseInv, [Next]_vars PROVE [Promise!Next]_(Promise!vars)
    OBVIOUS
  <2>1. SessionsInv
    BY DEF PromiseInv
  <2>2. ASSUME token' = token, UNCHANGED ClosedAccounts PROVE UNCHANGED Promise!vars
    BY <2>2 DEF Promise!vars, HolderOf, SpentTokens, RenewedTokens
  <2>3. ASSUME NEW r \in Requests, Advances(r) PROVE UNCHANGED Promise!vars
    BY <2>1, <2>2, <2>3, ClosedKept, AdvanceKeeps
  <2>4. ASSUME NEW u \in Users, NEW p \in Passwords, ChangePassword(u, p)
        PROVE  UNCHANGED Promise!vars
    <3>1. token' = token
      BY <2>4 DEF ChangePassword
    <3>2. QED
      BY <2>1, <2>2, <2>4, <3>1, ClosedKept
  <2>5. CASE UNCHANGED vars
    BY <2>2, <2>5 DEF vars, ClosedAccounts
  <2>6. QED
    BY <2>1, <2>3, <2>4, <2>5, StepKinds, LoginGrants, RotateExchanges, LogoutRevokes,
       RevokeWithdraws
<1>3. QED
  BY <1>1, <1>2, PromiseInvariant, PTL DEF ImplementsCredentials, Promise!Spec, Spec

-----------------------------------------------------------------------------
(* What a rehash takes to bring an old password back. *)

(* The outdated hash that a login is to replace is the one it has read, as *)
(* long as it is there and its account lives.                              *)
Rehashes(r) ==
    pc[r] = "login" /\ job[r].rehash =>
        LET row == user[job[r].user] IN
            OldHashes /\ (row.old /\ ~row.deleted => row.password = job[r].password)

RehashInv ==
    /\ \A u \in Users : user[u].old => OldHashes
    /\ \A r \in Requests : Rehashes(r)

(* Whoever writes a user row leaves a new hash there, or deletes it. *)
LEMMA RowChange ==
    ASSUME SessionsInv, [Next]_vars, NEW u \in Users
    PROVE  /\ user'[u] = user[u] \/ ~user'[u].old \/ user'[u].deleted
           /\ user'[u].old => user[u].old
<1>1. user \in [Users -> UserRow]
  BY DEF SessionsInv, TypeOK
<1>2. ASSUME NEW w \in Users, NEW p,
             user' = [user EXCEPT ![w].password = p, ![w].old = FALSE]
      PROVE  user'[u] = user[u] \/ (~user'[u].old /\ user[u] \in UserRow)
  BY <1>1, <1>2 DEF UserRow
<1>3. ASSUME NEW w \in Users, user' = [user EXCEPT ![w].deleted = TRUE, ![w].password = None]
      PROVE  user'[u] = user[u] \/ (user'[u].deleted /\ user'[u].old = user[u].old)
  BY <1>1, <1>3 DEF UserRow
<1>4. ASSUME NEW r \in Requests, Login(r) \/ RevokeDone(r) PROVE job[r].user \in Users
  BY <1>4, JobFacts DEF SessionsInv, Login, RevokeDone
<1>5. ASSUME NEW r \in Requests, Login(r)
      PROVE  user'[u] = user[u] \/ ~user'[u].old
  BY <1>2, <1>4, <1>5 DEF Login
<1>6. ASSUME NEW r \in Requests, RevokeDone(r)
      PROVE  user'[u] = user[u] \/ (user'[u].deleted /\ user'[u].old = user[u].old)
  BY <1>3, <1>4, <1>6 DEF RevokeDone
<1>7. ASSUME NEW w \in Users, NEW p \in Passwords, ChangePassword(w, p)
      PROVE  user'[u] = user[u] \/ ~user'[u].old
  BY <1>2, <1>7 DEF ChangePassword
<1>8. \/ user' = user
      \/ \E r \in Requests : Login(r) \/ RevokeDone(r)
      \/ \E w \in Users, p \in Passwords : ChangePassword(w, p)
  BY StepKinds, AdvanceKeeps DEF Rotate, Logout, vars
<1>9. QED
  BY <1>5, <1>6, <1>7, <1>8

(* Who comes to a login has read the user just now. *)
LEMMA EntersLogin ==
    ASSUME SessionsInv, [Next]_vars, NEW r \in Requests, Enters(r), pc'[r] = "login"
    PROVE  Begins(r)
<1>1. pc[r] = "idle" /\ pc \in [Requests -> {"idle", "login", "token", "user", "delete", "revoke"}]
  BY DEF Enters, SessionsInv, TypeOK
<1>2. ASSUME NEW s \in Requests, NEW at, pc' = [pc EXCEPT ![s] = at], s = r => at # "login"
      PROVE  FALSE
  BY <1>1, <1>2
<1>3. ASSUME NEW s \in Requests, Begins(s) PROVE s = r
  BY <1>2, <1>3 DEF Begins, BeginLogin, BeginSocialLogin, BeginRefresh, BeginDelete, Start
<1>4. pc' # pc
  BY <1>1
<1>5. ASSUME NEW s \in Requests, Quits(s) \/ Login(s) \/ Rotate(s) \/ RevokeDone(s) PROVE FALSE
  BY <1>2, <1>5 DEF Quits, Login, Rotate, RevokeDone, End
<1>6. ASSUME NEW s \in Requests, RefreshValid(s) \/ RefreshReuse(s) \/ LockDelete(s) PROVE FALSE
  BY <1>2, <1>6 DEF RefreshValid, RefreshReuse, LockDelete
<1>7. QED
  BY <1>3, <1>4, <1>5, <1>6, StepKinds DEF Advances, RevokeRow, Logout, ChangePassword, vars

LEMMA RehashStep ==
    ASSUME SessionsInv, RehashInv, [Next]_vars
    PROVE  RehashInv'
<1>0. TypeOK
  BY DEF SessionsInv
<1>1. \A u \in Users : user'[u].old => OldHashes
  BY RowChange DEF RehashInv
<1>2. ASSUME NEW r \in Requests, pc'[r] = "login", job'[r].rehash, Stays(r) PROVE Rehashes(r)'
  <2>1. pc[r] = "login" /\ job[r].rehash /\ job'[r] = job[r] /\ job[r].user \in Users
    BY <1>0, <1>2, JobFacts DEF Stays
  <2>2. QED
    BY <2>1, RowChange DEF RehashInv, Rehashes
<1>3. ASSUME NEW r \in Requests, pc'[r] = "login", job'[r].rehash, Enters(r) PROVE Rehashes(r)'
  <2>1. Begins(r) /\ user' = user
    BY <1>3, EntersLogin, AdvanceKeeps DEF Advances
  <2>2. job \in [Requests -> Job \cup {NoJob}]
    BY <1>0 DEF TypeOK
  <2>3. ASSUME NEW u \in Users, NEW n \in Tokens, BeginSocialLogin(r, u, n) PROVE FALSE
    BY <1>3, <2>2, <2>3 DEF BeginSocialLogin, Start
  <2>4. ASSUME NEW u \in Users, NEW p \in Passwords, NEW n \in Tokens, BeginLogin(r, u, p, n)
        PROVE  Rehashes(r)'
    <3>1. /\ job'[r].user = u /\ job'[r].rehash = user[u].old /\ user[u].password = p
          /\ job'[r].password = IF user[u].old THEN p ELSE None
      BY <2>2, <2>4 DEF BeginLogin, Start
    <3>2. user[u].old /\ OldHashes
      BY <1>3, <3>1 DEF RehashInv
    <3>3. QED
      BY <2>1, <3>1, <3>2 DEF Rehashes
  <2>5. ASSUME NEW t \in Tokens, NEW n \in Tokens, BeginRefresh(r, t, n) PROVE FALSE
    BY <1>0, <1>3, <2>5 DEF BeginRefresh, Start, TypeOK
  <2>6. ASSUME NEW u \in Users, BeginDelete(r, u) PROVE FALSE
    BY <1>0, <1>3, <2>6 DEF BeginDelete, Start, TypeOK
  <2>7. QED
    BY <2>1, <2>3, <2>4, <2>5, <2>6 DEF Begins
<1>4. ASSUME NEW r \in Requests, Idle(r) PROVE Rehashes(r)'
  BY <1>4 DEF Idle, Rehashes
<1>5. ASSUME NEW r \in Requests, GoesOn(r) PROVE Rehashes(r)'
  BY <1>5 DEF GoesOn, RevokeRow, Rehashes
<1>6. ASSUME NEW r \in Requests PROVE Rehashes(r)'
  <2>1. CASE ~(pc'[r] = "login" /\ job'[r].rehash)
    BY <2>1 DEF Rehashes
  <2>2. Stays(r) \/ Idle(r) \/ Enters(r) \/ GoesOn(r)
    BY JobStep DEF Moves, OthersStay
  <2>3. QED
    BY <1>2, <1>3, <1>4, <1>5, <2>1, <2>2
<1>7. QED
  BY <1>1, <1>6 DEF RehashInv

LEMMA RehashInvariant ==
    Spec => [](SessionsInv /\ RehashInv)
<1>1. Init => RehashInv
  <2> SUFFICES ASSUME Init PROVE RehashInv
    OBVIOUS
  <2>1. \A r \in Requests : pc[r] = "idle"
    BY DEF Init
  <2>2. \A u \in Users : user[u].old => OldHashes
    BY DEF Init
  <2>3. QED
    BY <2>1, <2>2 DEF RehashInv, Rehashes
<1>2. QED
  BY <1>1, RehashStep, SessionsInvariant, PTL DEF Spec

(* A login brings an old password back only if the outdated hash that it   *)
(* read has been replaced or its account deleted, and never where hashes   *)
(* do not get outdated.                                                    *)
THEOREM RehashRaces ==
    Spec => RehashNeedsRace
<1> DEFINE Races ==
        \A r \in Requests : \A u \in Users :
            (/\ pc[r] = "login" /\ pc'[r] = "idle" /\ job[r].user = u
             /\ user'[u].password # user[u].password)
               => OldHashes /\ (~user[u].old \/ user[u].deleted)
<1>1. SessionsInv /\ RehashInv /\ [Next]_vars => [Races]_vars
  <2> SUFFICES ASSUME SessionsInv, RehashInv, Next, NEW r \in Requests, NEW u \in Users,
                      pc[r] = "login", pc'[r] = "idle", job[r].user = u,
                      user'[u].password # user[u].password
               PROVE  OldHashes /\ (~user[u].old \/ user[u].deleted)
    OBVIOUS
  <2>0. TypeOK
    BY DEF SessionsInv
  <2>1. ASSUME NEW s \in Requests, NEW at, pc' = [pc EXCEPT ![s] = at], at # "idle" \/ s # r
        PROVE  FALSE
    BY <2>0, <2>1 DEF TypeOK
  <2>2. CASE Login(r)
    <3>1. job[r].rehash
      BY <2>2 DEF Login
    <3>2. user' = [user EXCEPT ![u].password = job[r].password, ![u].old = FALSE]
      BY <2>2, <3>1 DEF Login
    <3>3. user'[u].password = job[r].password
      BY <2>0, <3>2 DEF TypeOK, UserRow
    <3>4. QED
      BY <3>1, <3>3 DEF RehashInv, Rehashes
  <2>3. ASSUME NEW s \in Requests, Login(s) PROVE s = r
    BY <2>1, <2>3 DEF Login, End
  <2>4. ASSUME NEW s \in Requests, RevokeDone(s) PROVE FALSE
    BY <2>1, <2>4 DEF RevokeDone, End
  <2>5. ASSUME NEW w \in Users, NEW p \in Passwords, ChangePassword(w, p) PROVE FALSE
    BY <2>5 DEF ChangePassword
  <2>6. user' # user
    OBVIOUS
  <2>7. QED
    BY <2>2, <2>3, <2>4, <2>5, <2>6, StepKinds, AdvanceKeeps DEF Rotate, Logout, vars
<1>2. QED
  BY <1>1, RehashInvariant, PTL DEF Spec, RehashNeedsRace
=============================================================================
