----------------------- MODULE EmailVerification_proofs -----------------------
(***************************************************************************)
(* Theorems about EmailVerification, for every set of users, links and     *)
(* requests and every set of deployments.                                  *)
(***************************************************************************)
EXTENDS EmailVerification, TLAPS

-----------------------------------------------------------------------------
(* The inductive invariant. *)

Drafts(r) == pc[r] \in {"ask", "send", "commit"}

(* The row lock: two requests past it are about two users. *)
Exclusive ==
    \A r, s \in Requests :
        r # s /\ pc[r] \in Locked /\ pc[s] \in Locked => job[r].user # job[s].user

(* A link that is being issued is in no table and in no other request. *)
OwnLink(r) ==
    Drafts(r) => /\ link[job[r].link] = NoLink
                 /\ \A s \in Requests \ {r} : job[s].link # job[r].link

(* Past the lock, what a request has decided stays right: the links it     *)
(* will revoke are all that work, and the user still wants the new one.    *)
Decided(r) ==
    pc[r] \in {"send", "commit"} =>
        /\ UsableLinks(job[r].user) \subseteq job[r].revokes
        /\ \A l \in job[r].revokes : link[l] # NoLink
        /\ ~user[job[r].user].deleted /\ ~user[job[r].user].verified

(* What is committed has been mailed, or will be in the answer. *)
Mailed(r) ==
    /\ pc[r] = "send" => settings.smtp
    /\ pc[r] = "commit" => job[r].link \in known \/ settings.development

(* A confirmation is about a link there is, of the user it will lock. *)
Confirms(r) ==
    /\ pc[r] \in {"confirm", "check"} =>
          link[job[r].link] # NoLink /\ link[job[r].link].user = job[r].user
    /\ pc[r] = "check" => ~user[job[r].user].deleted

EmailInv ==
    /\ TypeOK /\ Exclusive /\ OneUsableLink /\ LinksHandedOut
    /\ \A r \in Requests : OwnLink(r) /\ Decided(r) /\ Mailed(r) /\ Confirms(r)

-----------------------------------------------------------------------------
(* The steps of EmailVerification by what they do. *)

Quits(r) == pc[r] # "idle" /\ End(r) /\ UNCHANGED <<settings, user, link, known>>

LEMMA StepKinds ==
    ASSUME [Next]_vars
    PROVE  \/ \E r \in Requests :
                 \/ \E u \in Users, l \in Links : BeginRequest(r, u, l)
                 \/ \E l \in Links : BeginConfirm(r, l)
                 \/ Quits(r) \/ WriteRequest(r) \/ Mail(r) \/ CommitRequest(r)
                 \/ LockConfirm(r) \/ Confirm(r)
           \/ \E u \in Users : DeleteUser(u)
           \/ \E l \in Links : Expire(l)
           \/ UNCHANGED vars
<1>1. ASSUME NEW r \in Requests,
             \/ RefuseRequest(r) \/ MailFails(r) \/ ConfirmUserGone(r)
             \/ RejectConfirm(r) \/ Fail(r)
      PROVE  Quits(r)
  BY <1>1 DEF RefuseRequest, MailFails, ConfirmUserGone, RejectConfirm, Fail, Quits
<1>2. QED
  BY <1>1 DEF Next, Serve

LEMMA JobFacts ==
    ASSUME TypeOK, NEW r \in Requests, pc[r] # "idle"
    PROVE  /\ job[r] \in Job
           /\ job[r].user \in Users /\ job[r].link \in Links
           /\ job[r].seen \in LinkRow \cup {NoLink} /\ job[r].revokes \in SUBSET Links
<1>1. job[r] \in Job
  BY DEF TypeOK
<1>2. QED
  BY <1>1 DEF Job

LEMMA RowFacts ==
    ASSUME TypeOK, NEW l \in Links
    PROVE  /\ link[l] \in LinkRow \cup {NoLink}
           /\ link[l] # NoLink => link[l] \in LinkRow /\ link[l].user \in Users
           /\ link[l].user \in Users => link[l] # NoLink
<1>1. link[l] \in LinkRow \cup {NoLink}
  BY DEF TypeOK
<1>2. NoLink.user = None
  BY DEF NoLink
<1>3. QED
  BY <1>1, <1>2, EmailAssumption DEF LinkRow

LEMMA NotAJob ==
    NoJob \notin Job
BY EmailAssumption DEF NoJob, Job

(* A row with other flags is a row of the same user. *)
LEMMA FlagSet ==
    ASSUME NEW row \in LinkRow
    PROVE  /\ [row EXCEPT !.used = TRUE] \in LinkRow
           /\ [row EXCEPT !.revoked = TRUE] \in LinkRow
           /\ [row EXCEPT !.expired = TRUE] \in LinkRow
           /\ [row EXCEPT !.used = TRUE].user = row.user
           /\ [row EXCEPT !.revoked = TRUE].user = row.user
           /\ [row EXCEPT !.expired = TRUE].user = row.user
           /\ ~Usable([row EXCEPT !.used = TRUE])
           /\ ~Usable([row EXCEPT !.revoked = TRUE])
           /\ ~Usable([row EXCEPT !.expired = TRUE])
BY DEF LinkRow, Usable

-----------------------------------------------------------------------------
(* The link table: rows stay, stay their user's, and never work again once *)
(* they do not; a new one is that of a request that commits.               *)

RowsKept ==
    \A l \in Links : link[l] # NoLink =>
        /\ link'[l] \in LinkRow
        /\ link'[l].user = link[l].user
        /\ Usable(link'[l]) => Usable(link[l])

NewRows(r) ==
    \A l \in Links : link[l] = NoLink /\ link'[l] # NoLink =>
        l = job[r].link /\ pc[r] = "commit" /\ link'[l].user = job[r].user

LEMMA CommitRows ==
    ASSUME TypeOK, NEW r \in Requests, CommitRequest(r), OwnLink(r), Decided(r)
    PROVE  /\ link' \in [Links -> LinkRow \cup {NoLink}]
           /\ RowsKept /\ NewRows(r)
           /\ link'[job[r].link] \in LinkRow /\ link'[job[r].link].user = job[r].user
           /\ \A l \in job[r].revokes : ~Usable(link'[l])
<1> DEFINE j == job[r]
           new == [user |-> j.user, used |-> FALSE, revoked |-> FALSE, expired |-> FALSE]
<1>1. pc[r] = "commit" /\ link' = [l \in Links |->
                      IF l = j.link THEN new
                      ELSE IF l \in j.revokes THEN [link[l] EXCEPT !.revoked = TRUE]
                      ELSE link[l]]
  BY DEF CommitRequest
<1>2. j.user \in Users /\ j.link \in Links /\ j.revokes \in SUBSET Links
  BY <1>1, JobFacts
<1>3. new \in LinkRow /\ new.user = j.user
  BY <1>2 DEF LinkRow
<1> HIDE DEF new
<1>4. link[j.link] = NoLink /\ \A l \in j.revokes : link[l] # NoLink
  BY <1>1 DEF OwnLink, Decided, Drafts
<1>5. ASSUME NEW l \in Links
      PROVE  link'[l] = IF l = j.link THEN new
                        ELSE IF l \in j.revokes THEN [link[l] EXCEPT !.revoked = TRUE]
                        ELSE link[l]
  BY <1>1
<1>6. link' \in [Links -> LinkRow \cup {NoLink}]
  <2>1. ASSUME NEW l \in Links PROVE link'[l] \in LinkRow \cup {NoLink}
    BY <2>1, <1>3, <1>4, <1>5, RowFacts, FlagSet
  <2>2. QED
    BY <1>1, <2>1
<1>7. RowsKept
  BY <1>4, <1>5, RowFacts, FlagSet DEF RowsKept
<1>8. NewRows(r)
  BY <1>1, <1>2, <1>3, <1>4, <1>5, RowFacts DEF NewRows
<1>9. link'[j.link] = new
  BY <1>2, <1>5
<1>10. ASSUME NEW l \in j.revokes PROVE ~Usable(link'[l])
  <2>1. l \in Links /\ link[l] # NoLink /\ l # j.link
    BY <1>2, <1>4
  <2>2. link[l] \in LinkRow
    BY <2>1, RowFacts
  <2>3. link'[l] = [link[l] EXCEPT !.revoked = TRUE]
    BY <1>5, <2>1
  <2>4. QED
    BY <2>2, <2>3, FlagSet
<1>11. QED
  BY <1>3, <1>6, <1>7, <1>8, <1>9, <1>10

LEMMA RowStep ==
    ASSUME EmailInv, [Next]_vars
    PROVE  /\ link' \in [Links -> LinkRow \cup {NoLink}] /\ RowsKept
           /\ \A l \in Links : link[l] = NoLink /\ link'[l] # NoLink =>
                 \E r \in Requests : CommitRequest(r) /\ l = job[r].link
                                        /\ link'[l].user = job[r].user
<1>0. TypeOK /\ \A r \in Requests : OwnLink(r) /\ Decided(r) /\ Confirms(r)
  BY DEF EmailInv
<1>1. CASE \E r \in Requests : CommitRequest(r)
  BY <1>0, <1>1, CommitRows DEF NewRows
<1>2. ASSUME NEW r \in Requests, Confirm(r)
      PROVE  link' \in [Links -> LinkRow \cup {NoLink}] /\ RowsKept
                /\ \A l \in Links : link[l] = NoLink => link'[l] = NoLink
  <2> DEFINE k == job[r].link
             row == [link[k] EXCEPT !.used = TRUE]
  <2>1. k \in Links /\ link[k] # NoLink
    BY <1>0, <1>2, JobFacts DEF Confirm, Confirms
  <2>2. link[k] \in LinkRow
    BY <1>0, <2>1, RowFacts
  <2>3. row \in LinkRow /\ row.user = link[k].user /\ ~Usable(row)
    BY <2>2, FlagSet
  <2>4. link' = [link EXCEPT ![k] = row]
    BY <1>2 DEF Confirm
  <2> HIDE DEF row, k
  <2>5. QED
    BY <1>0, <2>1, <2>3, <2>4, RowFacts DEF TypeOK, RowsKept
<1>3. ASSUME NEW k \in Links, Expire(k)
      PROVE  link' \in [Links -> LinkRow \cup {NoLink}] /\ RowsKept
                /\ \A l \in Links : link[l] = NoLink => link'[l] = NoLink
  <2> DEFINE row == [link[k] EXCEPT !.expired = TRUE]
  <2>1. link[k] # NoLink
    BY <1>3 DEF Expire
  <2>2. link[k] \in LinkRow
    BY <1>0, <2>1, RowFacts
  <2>3. row \in LinkRow /\ row.user = link[k].user /\ ~Usable(row)
    BY <2>2, FlagSet
  <2>4. link' = [link EXCEPT ![k] = row]
    BY <1>3 DEF Expire
  <2> HIDE DEF row
  <2>5. QED
    BY <1>0, <2>1, <2>3, <2>4, RowFacts DEF TypeOK, RowsKept
<1>4. CASE UNCHANGED link
  BY <1>0, <1>4, RowFacts DEF TypeOK, RowsKept
<1>5. \/ UNCHANGED link
      \/ \E r \in Requests : CommitRequest(r) \/ Confirm(r)
      \/ \E l \in Links : Expire(l)
  BY StepKinds DEF BeginRequest, BeginConfirm, Quits, WriteRequest, Mail, LockConfirm,
                   DeleteUser, vars
<1>6. QED
  BY <1>1, <1>2, <1>3, <1>4, <1>5

-----------------------------------------------------------------------------
(* The users: who is deleted was locked by nobody, who becomes verified    *)
(* was locked by the request that confirmed, and had not been deleted.     *)

UserChange(u) ==
    \/ /\ \A s \in Requests : ~HoldsUser(s, u)
       /\ user' = [user EXCEPT ![u].deleted = TRUE]
    \/ \E r \in Requests :
          /\ Confirm(r) /\ u = job[r].user /\ ~user[u].deleted
          /\ user' = [user EXCEPT ![u].verified = TRUE]

LEMMA UserStep ==
    ASSUME EmailInv, [Next]_vars
    PROVE  /\ user' \in [Users -> UserRow]
           /\ \/ UNCHANGED user
              \/ \E u \in Users : UserChange(u)
<1>0. TypeOK /\ \A r \in Requests : Confirms(r)
  BY DEF EmailInv
<1>1. ASSUME NEW r \in Requests, Confirm(r)
      PROVE  user' \in [Users -> UserRow] /\ \E u \in Users : UserChange(u)
  <2>1. job[r].user \in Users /\ ~user[job[r].user].deleted
    BY <1>0, <1>1, JobFacts DEF Confirm, Confirms
  <2>2. user' = [user EXCEPT ![job[r].user].verified = TRUE]
    BY <1>1 DEF Confirm
  <2>3. user' \in [Users -> UserRow]
    BY <1>0, <2>1, <2>2 DEF TypeOK, UserRow
  <2>4. UserChange(job[r].user)
    BY <1>1, <2>1, <2>2 DEF UserChange
  <2>5. QED
    BY <2>1, <2>3, <2>4
<1>2. ASSUME NEW u \in Users, DeleteUser(u)
      PROVE  user' \in [Users -> UserRow] /\ UserChange(u)
  <2>1. user' = [user EXCEPT ![u].deleted = TRUE]
    BY <1>2 DEF DeleteUser
  <2>2. \A s \in Requests : ~HoldsUser(s, u)
    BY <1>2, EmailAssumption DEF DeleteUser, UserFree
  <2>3. user' \in [Users -> UserRow]
    BY <1>0, <2>1 DEF TypeOK, UserRow
  <2>4. QED
    BY <2>1, <2>2, <2>3 DEF UserChange
<1>3. \/ UNCHANGED user
      \/ \E r \in Requests : Confirm(r)
      \/ \E u \in Users : DeleteUser(u)
  BY StepKinds DEF BeginRequest, BeginConfirm, Quits, WriteRequest, Mail, LockConfirm,
                   CommitRequest, Expire, vars
<1>4. QED
  BY <1>0, <1>1, <1>2, <1>3 DEF TypeOK

(* A locked user row does not change under a request that goes on.         *)
LEMMA LockKeepsUser ==
    ASSUME EmailInv, [Next]_vars, NEW r \in Requests,
           pc[r] \in Locked, pc'[r] # "idle"
    PROVE  user'[job[r].user] = user[job[r].user]
<1>0. TypeOK /\ Exclusive
  BY DEF EmailInv
<1>1. job[r].user \in Users
  BY <1>0, JobFacts DEF Locked
<1>2. ASSUME NEW u \in Users, UserChange(u)
      PROVE  u # job[r].user
  <2>1. CASE \A s \in Requests : ~HoldsUser(s, u)
    BY <2>1 DEF HoldsUser
  <2>2. ASSUME NEW s \in Requests, Confirm(s), u = job[s].user
        PROVE  u # job[r].user
    <3>1. s # r
      BY <1>0, <2>2 DEF Confirm, End, TypeOK
    <3>2. pc[s] \in Locked
      BY <2>2 DEF Confirm, Locked
    <3>3. QED
      BY <1>0, <2>2, <3>1, <3>2 DEF Exclusive
  <2>3. QED
    BY <1>2, <2>1, <2>2 DEF UserChange
<1>3. ASSUME NEW u \in Users, UserChange(u)
      PROVE  user'[job[r].user] = user[job[r].user]
  BY <1>0, <1>1, <1>2, <1>3 DEF UserChange, TypeOK
<1>4. QED
  BY <1>3, UserStep

-----------------------------------------------------------------------------
(* The requests: a step moves one of them, or none.                        *)

Idle(r) == pc'[r] = "idle" /\ job'[r] = NoJob

Moves(r) ==
    \/ Idle(r)
    \/ pc[r] = "idle" /\ pc'[r] = "ask" /\ job'[r] \in Job /\ Fresh(job'[r].link)
    \/ /\ pc[r] = "idle" /\ pc'[r] = "confirm" /\ job'[r] \in Job
       /\ link[job'[r].link] # NoLink /\ job'[r].user = link[job'[r].link].user
    \/ /\ WriteRequest(r)
       /\ pc'[r] = IF settings.smtp THEN "send" ELSE "commit"
       /\ job'[r] \in Job /\ job'[r].user = job[r].user /\ job'[r].link = job[r].link
       /\ job'[r].revokes = UsableLinks(job[r].user)
    \/ /\ Mail(r) /\ pc'[r] = "commit" /\ job'[r] = job[r]
    \/ /\ LockConfirm(r) /\ pc'[r] = "check" /\ job'[r] = job[r]

OthersStay(r) ==
    \A s \in Requests \ {r} : pc'[s] = pc[s] /\ job'[s] = job[s]

LEMMA JobStep ==
    ASSUME EmailInv, [Next]_vars
    PROVE  /\ DOMAIN pc' = Requests /\ DOMAIN job' = Requests
           /\ \/ UNCHANGED <<pc, job>>
              \/ \E r \in Requests : Moves(r) /\ OthersStay(r)
<1>0. TypeOK
  BY DEF EmailInv
<1> DEFINE Doms == DOMAIN pc' = Requests /\ DOMAIN job' = Requests
<1>1. ASSUME NEW r \in Requests, End(r)
      PROVE  Doms /\ Moves(r) /\ OthersStay(r)
  BY <1>0, <1>1 DEF End, TypeOK, Moves, Idle, OthersStay
<1>2. ASSUME NEW r \in Requests, NEW u \in Users, NEW l \in Links, BeginRequest(r, u, l)
      PROVE  Doms /\ Moves(r) /\ OthersStay(r)
  <2> DEFINE j == [user |-> u, link |-> l, seen |-> NoLink, revokes |-> {}]
  <2>1. j \in Job /\ j.link = l
    BY DEF Job
  <2>2. job' = [job EXCEPT ![r] = j] /\ pc' = [pc EXCEPT ![r] = "ask"]
    BY <1>2 DEF BeginRequest
  <2>3. pc[r] = "idle" /\ Fresh(l)
    BY <1>2 DEF BeginRequest
  <2> HIDE DEF j
  <2>4. QED
    BY <1>0, <2>1, <2>2, <2>3 DEF TypeOK, Moves, OthersStay
<1>3. ASSUME NEW r \in Requests, NEW l \in Links, BeginConfirm(r, l)
      PROVE  Doms /\ Moves(r) /\ OthersStay(r)
  <2> DEFINE j == [user |-> link[l].user, link |-> l, seen |-> link[l], revokes |-> {}]
  <2>1. link[l] \in LinkRow /\ link[l].user \in Users
    BY <1>0, <1>3, RowFacts DEF BeginConfirm
  <2>2. j \in Job /\ j.link = l /\ j.user = link[l].user
    BY <2>1 DEF Job
  <2>3. job' = [job EXCEPT ![r] = j] /\ pc' = [pc EXCEPT ![r] = "confirm"]
    BY <1>3 DEF BeginConfirm
  <2>4. pc[r] = "idle" /\ link[l] # NoLink
    BY <1>3 DEF BeginConfirm
  <2> HIDE DEF j
  <2>5. QED
    BY <1>0, <2>2, <2>3, <2>4 DEF TypeOK, Moves, OthersStay
<1>4. ASSUME NEW r \in Requests, WriteRequest(r)
      PROVE  Doms /\ Moves(r) /\ OthersStay(r)
  <2> DEFINE j == [job[r] EXCEPT !.revokes = UsableLinks(job[r].user)]
             to == IF settings.smtp THEN "send" ELSE "commit"
  <2>1. job[r] \in Job /\ UsableLinks(job[r].user) \subseteq Links
    BY <1>0, <1>4, JobFacts DEF WriteRequest, UsableLinks
  <2>2. /\ j \in Job /\ j.user = job[r].user /\ j.link = job[r].link
        /\ j.revokes = UsableLinks(job[r].user)
    BY <2>1 DEF Job
  <2>3. job' = [job EXCEPT ![r] = j] /\ pc' = [pc EXCEPT ![r] = to]
    BY <1>4 DEF WriteRequest
  <2> HIDE DEF j
  <2>4. QED
    BY <1>0, <1>4, <2>2, <2>3 DEF TypeOK, Moves, OthersStay
<1>5. ASSUME NEW r \in Requests, Mail(r) \/ LockConfirm(r)
      PROVE  Doms /\ Moves(r) /\ OthersStay(r)
  BY <1>0, <1>5 DEF Mail, LockConfirm, TypeOK, Moves, OthersStay
<1>6. CASE UNCHANGED <<pc, job>>
  BY <1>0, <1>6 DEF TypeOK
<1>7. \/ UNCHANGED <<pc, job>>
      \/ \E r \in Requests :
            \/ End(r) \/ WriteRequest(r) \/ Mail(r) \/ LockConfirm(r)
            \/ \E u \in Users, l \in Links : BeginRequest(r, u, l)
            \/ \E l \in Links : BeginConfirm(r, l)
  BY StepKinds DEF Quits, CommitRequest, Confirm, DeleteUser, Expire, vars
<1>8. QED
  BY <1>1, <1>2, <1>3, <1>4, <1>5, <1>6, <1>7

-----------------------------------------------------------------------------
(* Each part of the invariant is kept. *)

LEMMA TypeStep ==
    ASSUME EmailInv, [Next]_vars
    PROVE  TypeOK'
<1>0. TypeOK
  BY DEF EmailInv
<1>1. settings' = settings
  BY StepKinds DEF BeginRequest, BeginConfirm, Quits, WriteRequest, Mail, CommitRequest,
                   LockConfirm, Confirm, DeleteUser, Expire, vars
<1>2. known' \in SUBSET Links
  <2>1. UNCHANGED known \/ \E r \in Requests : Mail(r) \/ CommitRequest(r)
    BY StepKinds DEF BeginRequest, BeginConfirm, Quits, WriteRequest, LockConfirm, Confirm,
                     DeleteUser, Expire, vars
  <2>2. ASSUME NEW r \in Requests, Mail(r) \/ CommitRequest(r)
        PROVE  known' \in SUBSET Links
    BY <1>0, <2>2, JobFacts DEF Mail, CommitRequest, TypeOK
  <2>3. QED
    BY <1>0, <2>1, <2>2 DEF TypeOK
<1>3. ASSUME NEW r \in Requests
      PROVE  /\ pc'[r] \in {"idle", "ask", "send", "commit", "confirm", "check"}
             /\ job'[r] \in Job \cup {NoJob}
             /\ pc'[r] = "idle" <=> job'[r] = NoJob
  <2>1. ASSUME Moves(r)
        PROVE  /\ pc'[r] \in {"idle", "ask", "send", "commit", "confirm", "check"}
               /\ job'[r] \in Job \cup {NoJob}
               /\ pc'[r] = "idle" <=> job'[r] = NoJob
    BY <1>0, <2>1, JobFacts, NotAJob DEF Moves, Idle, Mail, LockConfirm
  <2>2. CASE pc'[r] = pc[r] /\ job'[r] = job[r]
    BY <1>0, <2>2 DEF TypeOK
  <2>3. QED
    BY <2>1, <2>2, JobStep DEF OthersStay
<1>4. /\ pc' \in [Requests -> {"idle", "ask", "send", "commit", "confirm", "check"}]
      /\ job' \in [Requests -> Job \cup {NoJob}]
  <2>1. pc' = [r \in Requests |-> pc'[r]] /\ job' = [r \in Requests |-> job'[r]]
    BY <1>0, StepKinds DEF TypeOK, BeginRequest, BeginConfirm, Quits, End, WriteRequest,
             Mail, CommitRequest, LockConfirm, Confirm, DeleteUser, Expire, vars
  <2>2. QED
    BY <1>3, <2>1
<1>5. QED
  BY <1>0, <1>1, <1>2, <1>3, <1>4, RowStep, UserStep DEF TypeOK

LEMMA ExclusiveStep ==
    ASSUME EmailInv, [Next]_vars
    PROVE  Exclusive'
<1>0. TypeOK /\ Exclusive
  BY DEF EmailInv
<1>1. ASSUME NEW r \in Requests, Moves(r), OthersStay(r), pc'[r] \in Locked,
             NEW s \in Requests \ {r}, pc[s] \in Locked
      PROVE  job'[r].user # job[s].user
  <2>1. CASE WriteRequest(r) /\ job'[r].user = job[r].user
    BY <2>1, <1>1 DEF WriteRequest, UserFree, HoldsUser
  <2>2. CASE LockConfirm(r) /\ job'[r] = job[r]
    BY <2>2, <1>1 DEF LockConfirm, UserFree, HoldsUser
  <2>3. CASE Mail(r) /\ job'[r] = job[r]
    BY <1>0, <2>3, <1>1 DEF Mail, Exclusive, Locked
  <2>4. QED
    BY <1>1, <2>1, <2>2, <2>3 DEF Moves, Idle, Locked
<1>2. ASSUME NEW r \in Requests, NEW s \in Requests, r # s, pc'[r] \in Locked, pc'[s] \in Locked
      PROVE  job'[r].user # job'[s].user
  <2>1. CASE UNCHANGED <<pc, job>>
    BY <1>0, <1>2, <2>1 DEF Exclusive
  <2>2. ASSUME NEW m \in Requests, Moves(m), OthersStay(m)
        PROVE  job'[r].user # job'[s].user
    <3>1. CASE m = r
      BY <1>1, <1>2, <2>2, <3>1 DEF OthersStay
    <3>2. CASE m = s
      BY <1>1, <1>2, <2>2, <3>2 DEF OthersStay
    <3>3. CASE m # r /\ m # s
      BY <1>0, <1>2, <2>2, <3>3 DEF OthersStay, Exclusive
    <3>4. QED
      BY <3>1, <3>2, <3>3
  <2>3. QED
    BY <2>1, <2>2, JobStep
<1>3. QED
  BY <1>2 DEF Exclusive, Locked

LEMMA OwnLinkStep ==
    ASSUME EmailInv, [Next]_vars, NEW r \in Requests
    PROVE  OwnLink(r)'
<1>0. TypeOK /\ \A s \in Requests : OwnLink(s)
  BY DEF EmailInv
<1> SUFFICES ASSUME pc'[r] \in {"ask", "send", "commit"}
             PROVE  /\ link'[job'[r].link] = NoLink
                    /\ \A s \in Requests \ {r} : job'[s].link # job'[r].link
  BY DEF OwnLink, Drafts
<1>1. NoJob.link = None
  BY DEF NoJob
<1>2. \/ Drafts(r) /\ job'[r].link = job[r].link /\ job[r].link \in Links
      \/ /\ pc[r] = "idle" /\ job'[r].link \in Links /\ Fresh(job'[r].link)
         /\ OthersStay(r)
  <2>1. CASE pc'[r] = pc[r] /\ job'[r] = job[r]
    BY <1>0, <2>1, JobFacts DEF Drafts
  <2>2. CASE Moves(r) /\ OthersStay(r)
    BY <1>0, <2>2, JobFacts DEF Moves, Idle, Drafts, WriteRequest, Mail, LockConfirm, Job
  <2>3. QED
    BY <2>1, <2>2, JobStep DEF OthersStay
<1>3. link[job'[r].link] = NoLink /\ job'[r].link \in Links
  BY <1>0, <1>2 DEF OwnLink, Fresh
<1>4. ASSUME NEW s \in Requests \ {r}
      PROVE  job'[s].link # job'[r].link
  <2>1. job[s].link # job'[r].link
    BY <1>0, <1>2 DEF OwnLink, Fresh
  <2>2. CASE job'[s] = job[s]
    BY <2>1, <2>2
  <2>3. CASE Moves(s) /\ OthersStay(s)
    <3>1. Drafts(r) /\ job'[r] = job[r]
      BY <1>0, <2>3 DEF OthersStay, Drafts
    <3>2. job'[s].link = NoJob.link \/ job'[s].link = job[s].link \/ Fresh(job'[s].link)
             \/ link[job'[s].link] # NoLink
      BY <2>3 DEF Moves, Idle
    <3>3. QED
      BY <1>1, <1>3, <2>1, <3>1, <3>2, EmailAssumption DEF Fresh
  <2>4. QED
    BY <2>2, <2>3, JobStep DEF OthersStay
<1>5. link'[job'[r].link] = NoLink
  <2>1. ASSUME NEW s \in Requests, CommitRequest(s), job'[r].link = job[s].link
        PROVE  FALSE
    <3>1. s # r /\ job[s].link # None
      BY <1>0, <2>1, JobFacts, EmailAssumption DEF CommitRequest, End, TypeOK
    <3>2. job'[r] = job[r]
      BY <1>0, <2>1, <3>1 DEF CommitRequest, End, TypeOK
    <3>3. Drafts(s)
      BY <2>1 DEF CommitRequest, Drafts
    <3>4. QED
      BY <1>0, <2>1, <3>1, <3>2, <3>3 DEF OwnLink
  <2>2. QED
    BY <1>3, <2>1, RowStep
<1>6. QED
  BY <1>4, <1>5

(* The links of a user only become fewer that work, but for the one its    *)
(* request commits; while another request holds the lock, there is none.   *)
LEMMA UsableLinksShrink ==
    ASSUME EmailInv, [Next]_vars, NEW r \in Requests,
           pc[r] \in Locked, pc'[r] # "idle"
    PROVE  UsableLinks(job[r].user)' \subseteq UsableLinks(job[r].user)
<1>0. TypeOK /\ Exclusive
  BY DEF EmailInv
<1> SUFFICES ASSUME NEW l \in Links, Usable(link'[l]), link'[l].user = job[r].user
             PROVE  Usable(link[l]) /\ link[l].user = job[r].user
  <2>1. job'[r].user = job[r].user
    BY <1>0, JobStep DEF OthersStay, Moves, WriteRequest, Mail, LockConfirm, Idle, Locked
  <2>2. QED
    BY <2>1 DEF UsableLinks, Usable
<1>1. CASE link[l] # NoLink
  BY <1>1, RowStep DEF RowsKept
<1>2. ASSUME NEW s \in Requests, CommitRequest(s), link'[l].user = job[s].user
      PROVE  FALSE
  <2>1. s # r
    BY <1>0, <1>2 DEF CommitRequest, End, TypeOK
  <2>2. pc[s] \in Locked
    BY <1>2 DEF CommitRequest, Locked
  <2>3. QED
    BY <1>0, <1>2, <2>1, <2>2 DEF Exclusive
<1>3. QED
  BY <1>1, <1>2, RowStep DEF Usable

LEMMA DecidedStep ==
    ASSUME EmailInv, [Next]_vars, NEW r \in Requests
    PROVE  Decided(r)'
<1>0. TypeOK /\ Decided(r)
  BY DEF EmailInv
<1> SUFFICES ASSUME pc'[r] \in {"send", "commit"}
             PROVE  /\ UsableLinks(job[r].user)' \subseteq job'[r].revokes
                    /\ \A l \in job'[r].revokes : link'[l] # NoLink
                    /\ ~user'[job'[r].user].deleted /\ ~user'[job'[r].user].verified
  BY JobStep DEF Decided
<1>1. CASE WriteRequest(r)
  <2>1. link' = link /\ user' = user
    BY <1>1 DEF WriteRequest
  <2>2. /\ job'[r].user = job[r].user
        /\ job'[r].revokes = UsableLinks(job[r].user)
    BY <1>0, <1>1, JobFacts DEF WriteRequest, TypeOK, Job
  <2>3. UsableLinks(job[r].user)' = UsableLinks(job[r].user)
    BY <2>1, <2>2 DEF UsableLinks, Usable
  <2>4. \A l \in UsableLinks(job[r].user) : link[l] # NoLink
    BY DEF UsableLinks, Usable
  <2>5. QED
    BY <1>1, <2>1, <2>2, <2>3, <2>4 DEF WriteRequest
<1>2. CASE pc[r] \in {"send", "commit"} /\ job'[r] = job[r]
  <2>1. UsableLinks(job[r].user)' \subseteq UsableLinks(job[r].user)
    BY <1>2, UsableLinksShrink DEF Locked
  <2>2. user'[job[r].user] = user[job[r].user]
    BY <1>2, LockKeepsUser DEF Locked
  <2>3. job[r].revokes \subseteq Links
    BY <1>0, <1>2, JobFacts
  <2>4. \A l \in Links : link[l] # NoLink => link'[l] # NoLink
    <3>1. NoLink \notin LinkRow
      BY EmailAssumption DEF NoLink, LinkRow
    <3>2. QED
      BY <3>1, RowStep DEF RowsKept
  <2>5. QED
    BY <1>0, <1>2, <2>1, <2>2, <2>3, <2>4 DEF Decided
<1>3. WriteRequest(r) \/ (pc[r] \in {"send", "commit"} /\ job'[r] = job[r])
  BY JobStep DEF OthersStay, Moves, Idle, Mail, LockConfirm
<1>4. QED
  BY <1>1, <1>2, <1>3

LEMMA MailedStep ==
    ASSUME EmailInv, [Next]_vars, NEW r \in Requests
    PROVE  Mailed(r)'
<1>0. TypeOK /\ Mailed(r)
  BY DEF EmailInv
<1>1. settings' = settings /\ known \subseteq known'
  BY StepKinds DEF BeginRequest, BeginConfirm, Quits, WriteRequest, Mail, CommitRequest,
                   LockConfirm, Confirm, DeleteUser, Expire, vars
<1>2. CASE pc'[r] = pc[r] /\ job'[r] = job[r]
  BY <1>0, <1>1, <1>2 DEF Mailed
<1>3. CASE Moves(r)
  <2>1. CASE WriteRequest(r) /\ pc'[r] = IF settings.smtp THEN "send" ELSE "commit"
    BY <1>1, <2>1 DEF WriteRequest, CanSend, Mailed
  <2>2. CASE Mail(r) /\ pc'[r] = "commit" /\ job'[r] = job[r]
    BY <1>1, <2>2 DEF Mail, Mailed
  <2>3. CASE pc'[r] \in {"idle", "ask", "confirm", "check"}
    BY <2>3 DEF Mailed
  <2>4. QED
    BY <1>3, <2>1, <2>2, <2>3 DEF Moves, Idle
<1>4. QED
  BY <1>2, <1>3, JobStep DEF OthersStay

LEMMA ConfirmsStep ==
    ASSUME EmailInv, [Next]_vars, NEW r \in Requests
    PROVE  Confirms(r)'
<1>0. TypeOK /\ Confirms(r)
  BY DEF EmailInv
<1>1. NoLink \notin LinkRow
  BY EmailAssumption DEF NoLink, LinkRow
<1> SUFFICES ASSUME pc'[r] \in {"confirm", "check"}
             PROVE  /\ link'[job'[r].link] # NoLink
                    /\ link'[job'[r].link].user = job'[r].user
                    /\ pc'[r] = "check" => ~user'[job'[r].user].deleted
  BY DEF Confirms
<1>2. /\ job'[r].link \in Links /\ link[job'[r].link] # NoLink
      /\ link[job'[r].link].user = job'[r].user
  <2>1. CASE pc'[r] = pc[r] /\ job'[r] = job[r]
    BY <1>0, <2>1, JobFacts DEF Confirms
  <2>2. CASE Moves(r)
    BY <1>0, <2>2, JobFacts DEF Moves, Idle, Job, LockConfirm, Confirms
  <2>3. QED
    BY <2>1, <2>2, JobStep DEF OthersStay
<1>3. ASSUME pc'[r] = "check"
      PROVE  ~user'[job'[r].user].deleted
  <2>1. CASE pc[r] = "check" /\ job'[r] = job[r]
    BY <1>0, <1>3, <2>1, LockKeepsUser DEF Locked, Confirms
  <2>2. CASE LockConfirm(r) /\ job'[r] = job[r]
    BY <2>2 DEF LockConfirm
  <2>3. QED
    BY <1>3, <2>1, <2>2, JobStep DEF OthersStay, Moves, Idle
<1>4. QED
  BY <1>1, <1>2, <1>3, RowStep DEF RowsKept

LEMMA OneUsableLinkStep ==
    ASSUME EmailInv, [Next]_vars
    PROVE  OneUsableLink'
<1>0. TypeOK /\ OneUsableLink /\ \A r \in Requests : OwnLink(r) /\ Decided(r)
  BY DEF EmailInv
<1> DEFINE Works(l) == Usable(link'[l])
<1>1. ASSUME NEW l1 \in Links, NEW l2 \in Links, Works(l1), Works(l2),
             link'[l1].user = link'[l2].user, link[l1] # NoLink
      PROVE  l1 = l2
  <2>1. Usable(link[l1]) /\ link[l1].user = link'[l1].user
    BY <1>1, RowStep DEF RowsKept
  <2>2. CASE link[l2] # NoLink
    BY <1>0, <1>1, <2>1, <2>2, RowStep DEF RowsKept, OneUsableLink
  <2>3. ASSUME NEW r \in Requests, CommitRequest(r), link'[l2].user = job[r].user
        PROVE  FALSE
    <3>1. l1 \in job[r].revokes
      BY <1>0, <1>1, <2>1, <2>3 DEF UsableLinks, CommitRequest, Decided
    <3>2. QED
      BY <1>0, <1>1, <2>3, <3>1, CommitRows
  <2>4. QED
    BY <1>1, <2>2, <2>3, RowStep DEF Usable
<1>2. ASSUME NEW l1 \in Links, NEW l2 \in Links, Works(l1), Works(l2),
             link[l1] = NoLink, link[l2] = NoLink
      PROVE  l1 = l2
  <2>1. link'[l1] # NoLink /\ link'[l2] # NoLink
    BY <1>2 DEF Usable
  <2>2. ASSUME NEW r \in Requests, CommitRequest(r)
        PROVE  l1 = l2
    BY <1>0, <1>2, <2>1, <2>2, CommitRows DEF NewRows
  <2>3. QED
    BY <1>2, <2>1, <2>2, RowStep
<1>3. QED
  BY <1>1, <1>2 DEF OneUsableLink, Usable

LEMMA HandedOutStep ==
    ASSUME EmailInv, [Next]_vars
    PROVE  LinksHandedOut'
<1>0. TypeOK /\ LinksHandedOut /\ \A r \in Requests : Mailed(r)
  BY DEF EmailInv
<1>1. known \subseteq known'
  BY StepKinds DEF BeginRequest, BeginConfirm, Quits, WriteRequest, Mail, CommitRequest,
                   LockConfirm, Confirm, DeleteUser, Expire, vars
<1>2. ASSUME NEW r \in Requests, CommitRequest(r)
      PROVE  job[r].link \in known'
  BY <1>0, <1>2 DEF CommitRequest, Mailed
<1>3. QED
  BY <1>0, <1>1, <1>2, RowStep DEF LinksHandedOut

-----------------------------------------------------------------------------
(* Verified users and used links change together. *)

LEMMA ConfirmEffect ==
    ASSUME EmailInv, NEW r \in Requests, Confirm(r)
    PROVE  /\ job[r].user \in Users /\ job[r].link \in Links
           /\ \A u \in Users : user'[u].verified <=> u = job[r].user \/ user[u].verified
           /\ \A l \in Links : link'[l].used <=> l = job[r].link \/ link[l].used
           /\ \A l \in Links : link'[l].user = link[l].user
           /\ link[job[r].link].user = job[r].user
<1> DEFINE u == job[r].user
           k == job[r].link
           mine == [user[u] EXCEPT !.verified = TRUE]
           row == [link[k] EXCEPT !.used = TRUE]
<1>0. TypeOK /\ Confirms(r)
  BY DEF EmailInv
<1>1. u \in Users /\ k \in Links /\ link[k] # NoLink /\ link[k].user = u
  BY <1>0, JobFacts DEF Confirm, Confirms
<1>2. mine.verified
  BY <1>0, <1>1 DEF TypeOK, UserRow
<1>3. row.used /\ row.user = link[k].user
  BY <1>0, <1>1, RowFacts DEF LinkRow
<1>4. user' = [user EXCEPT ![u] = mine] /\ link' = [link EXCEPT ![k] = row]
  BY DEF Confirm
<1> HIDE DEF mine, row, u, k
<1>5. \A w \in Users : user'[w] = IF w = u THEN mine ELSE user[w]
  BY <1>0, <1>1, <1>4 DEF TypeOK
<1>6. \A l \in Links : link'[l] = IF l = k THEN row ELSE link[l]
  BY <1>0, <1>1, <1>4 DEF TypeOK
<1>7. \A w \in Users : user'[w].verified <=> w = u \/ user[w].verified
  BY <1>2, <1>5
<1>8. \A l \in Links : /\ link'[l].used <=> l = k \/ link[l].used
                       /\ link'[l].user = link[l].user
  BY <1>3, <1>6
<1>9. QED
  BY <1>1, <1>7, <1>8 DEF u, k

(* No other step changes who is verified, what is used, or whose it is.    *)
LEMMA OtherEffect ==
    ASSUME EmailInv, [Next]_vars, \A r \in Requests : ~Confirm(r)
    PROVE  /\ \A u \in Users : user'[u].verified = user[u].verified
           /\ \A l \in Links : link'[l].used = link[l].used
           /\ \A l \in Links : link[l].used => link'[l].user = link[l].user
<1>0. TypeOK /\ \A r \in Requests : OwnLink(r) /\ Decided(r)
  BY DEF EmailInv
<1>1. ASSUME NEW u \in Users
      PROVE  user'[u].verified = user[u].verified
  <2>1. ASSUME NEW w \in Users, UserChange(w)
        PROVE  user'[u].verified = user[u].verified
    BY <1>0, <2>1 DEF UserChange, TypeOK, UserRow
  <2>2. QED
    BY <2>1, UserStep
<1>2. ASSUME NEW l \in Links
      PROVE  link'[l].used = link[l].used
  <2>1. ASSUME NEW r \in Requests, CommitRequest(r)
        PROVE  link'[l].used = link[l].used
    <3> DEFINE j == job[r]
               new == [user |-> j.user, used |-> FALSE, revoked |-> FALSE, expired |-> FALSE]
               row == [link[l] EXCEPT !.revoked = TRUE]
    <3>1. link'[l] = IF l = j.link THEN new ELSE IF l \in j.revokes THEN row ELSE link[l]
      BY <2>1 DEF CommitRequest
    <3>2. link[j.link] = NoLink /\ \A k \in j.revokes : link[k] # NoLink
      BY <1>0, <2>1 DEF CommitRequest, OwnLink, Decided, Drafts
    <3>3. new.used = FALSE /\ NoLink.used = FALSE
      BY DEF NoLink
    <3>4. link[l] # NoLink => row.used = link[l].used
      BY <1>0, RowFacts DEF LinkRow
    <3> HIDE DEF new, row
    <3>5. QED
      BY <3>1, <3>2, <3>3, <3>4
  <2>2. ASSUME NEW k \in Links, Expire(k)
        PROVE  link'[l].used = link[l].used
    <3> DEFINE row == [link[k] EXCEPT !.expired = TRUE]
    <3>1. link' = [link EXCEPT ![k] = row] /\ link[k] # NoLink
      BY <2>2 DEF Expire
    <3>2. row.used = link[k].used
      BY <1>0, <3>1, RowFacts DEF LinkRow
    <3> HIDE DEF row
    <3>3. QED
      BY <1>0, <3>1, <3>2 DEF TypeOK
  <2>3. \/ UNCHANGED link
        \/ \E r \in Requests : CommitRequest(r)
        \/ \E k \in Links : Expire(k)
    BY StepKinds DEF BeginRequest, BeginConfirm, Quits, WriteRequest, Mail, LockConfirm,
                     DeleteUser, vars
  <2>4. QED
    BY <2>1, <2>2, <2>3
<1>3. ASSUME NEW l \in Links, link[l].used
      PROVE  link'[l].user = link[l].user
  <2>1. link[l] # NoLink
    BY <1>3 DEF NoLink
  <2>2. QED
    BY <2>1, RowStep DEF RowsKept
<1>4. QED
  BY <1>1, <1>2, <1>3

LEMMA VerifiedStep ==
    ASSUME EmailInv, VerifiedByOwnLink, [Next]_vars
    PROVE  VerifiedByOwnLink'
<1>1. ASSUME NEW r \in Requests, Confirm(r)
      PROVE  VerifiedByOwnLink'
  <2>1. ASSUME NEW u \in Users
        PROVE  user'[u].verified <=> \E l \in Links : link'[l].used /\ link'[l].user = u
    <3>1. CASE u = job[r].user
      BY <1>1, <3>1, ConfirmEffect
    <3>2. CASE u # job[r].user
      <4>1. user[u].verified <=> \E l \in Links : link[l].used /\ link[l].user = u
        BY DEF VerifiedByOwnLink
      <4>2. QED
        BY <1>1, <3>2, <4>1, ConfirmEffect
    <3>3. QED
      BY <3>1, <3>2
  <2>2. QED
    BY <2>1 DEF VerifiedByOwnLink
<1>2. ASSUME \A r \in Requests : ~Confirm(r)
      PROVE  VerifiedByOwnLink'
  <2>1. ASSUME NEW u \in Users
        PROVE  user'[u].verified <=> \E l \in Links : link'[l].used /\ link'[l].user = u
    <3>1. user[u].verified <=> \E l \in Links : link[l].used /\ link[l].user = u
      BY DEF VerifiedByOwnLink
    <3>2. QED
      BY <1>2, <3>1, OtherEffect
  <2>2. QED
    BY <2>1 DEF VerifiedByOwnLink
<1>3. QED
  BY <1>1, <1>2

-----------------------------------------------------------------------------
(* The theorems. *)

LEMMA InitInv ==
    Init => EmailInv
<1> SUFFICES ASSUME Init PROVE EmailInv
  OBVIOUS
<1>1. TypeOK
  BY DEF Init, TypeOK, UserRow
<1>2. \A r \in Requests : pc[r] = "idle"
  BY DEF Init
<1>3. \A l \in Links : link[l] = NoLink
  BY DEF Init
<1>4. QED
  BY <1>1, <1>2, <1>3
     DEF EmailInv, Exclusive, Locked, OneUsableLink, Usable, LinksHandedOut, OwnLink, Drafts,
         Decided, Mailed, Confirms

LEMMA NextInv ==
    EmailInv /\ [Next]_vars => EmailInv'
BY TypeStep, ExclusiveStep, OneUsableLinkStep, HandedOutStep, OwnLinkStep, DecidedStep,
   MailedStep, ConfirmsStep
   DEF EmailInv

LEMMA EmailInvariant ==
    Spec => []EmailInv
BY InitInv, NextInv, PTL DEF Spec

(* The tables, the settings and the requests have their types: every       *)
(* request that is not idle has a user and a link of its own.              *)
THEOREM TypeCorrect ==
    Spec => []TypeOK
<1>1. EmailInv => TypeOK
  BY DEF EmailInv
<1>2. QED
  BY <1>1, EmailInvariant, PTL

(* A user has at most one link that works, for any number of requests for  *)
(* links and confirmations at the same time: the lock on the user row      *)
(* keeps what a request has decided to revoke complete until its commit.   *)
THEOREM OneLinkPerUser ==
    Spec => []OneUsableLink
<1>1. EmailInv => OneUsableLink
  BY DEF EmailInv
<1>2. QED
  BY <1>1, EmailInvariant, PTL

(* Every stored link was mailed or is in the answer of the request.        *)
THEOREM StoredLinksHandedOut ==
    Spec => []LinksHandedOut
<1>1. EmailInv => LinksHandedOut
  BY DEF EmailInv
<1>2. QED
  BY <1>1, EmailInvariant, PTL

LEMMA DecisionStep ==
    ASSUME EmailInv, [Next]_vars
    PROVE  /\ \A u \in Users : user'[u].verified # user[u].verified => ~user[u].deleted
           /\ \A l \in Links : link[l] = NoLink /\ link'[l] # NoLink
                 => ~user[link'[l].user].verified /\ ~user[link'[l].user].deleted
<1>0. TypeOK /\ \A r \in Requests : Decided(r)
  BY DEF EmailInv
<1>1. ASSUME NEW u \in Users, user'[u].verified # user[u].verified
      PROVE  ~user[u].deleted
  <2>1. ASSUME NEW w \in Users, UserChange(w)
        PROVE  ~user[u].deleted
    BY <1>0, <1>1, <2>1 DEF UserChange, TypeOK, UserRow
  <2>2. QED
    BY <1>1, <2>1, UserStep
<1>2. ASSUME NEW l \in Links, link[l] = NoLink, link'[l] # NoLink
      PROVE  ~user[link'[l].user].verified /\ ~user[link'[l].user].deleted
  BY <1>0, <1>2, RowStep DEF CommitRequest, Decided
<1>3. QED
  BY <1>1, <1>2

(* Verification and new links are only for a user for whom they are still  *)
(* right when they are stored, however long the request waited.            *)
THEOREM DecisionsInTime ==
    Spec => NoStaleDecision
<1>1. EmailInv /\ [Next]_vars
         => [/\ \A u \in Users : user'[u].verified # user[u].verified => ~user[u].deleted
             /\ \A l \in Links : link[l] = NoLink /\ link'[l] # NoLink
                   => ~user[link'[l].user].verified /\ ~user[link'[l].user].deleted]_vars
  BY DecisionStep
<1>2. QED
  BY <1>1, EmailInvariant, PTL DEF Spec, NoStaleDecision

(* For any number of requests, confirmations, failures and deletions, the  *)
(* users who are verified are exactly those whose link has been used.      *)
THEOREM VerifiedMeansUsed ==
    Spec => []VerifiedByOwnLink
<1>1. Init => VerifiedByOwnLink
  BY DEF Init, VerifiedByOwnLink, NoLink
<1>2. EmailInv /\ VerifiedByOwnLink /\ [Next]_vars => VerifiedByOwnLink'
  BY VerifiedStep
<1>3. QED
  BY <1>1, <1>2, EmailInvariant, PTL DEF Spec

(* Two requests past the row lock are about two users, and what one of     *)
(* them has read of its user is still so when it commits.                  *)
THEOREM RowLocked ==
    Spec => []Exclusive /\ [][\A r \in Requests :
                pc[r] \in Locked /\ pc'[r] # "idle" => user'[job[r].user] = user[job[r].user]]_vars
<1>1. EmailInv => Exclusive
  BY DEF EmailInv
<1>2. EmailInv /\ [Next]_vars
         => [\A r \in Requests :
                pc[r] \in Locked /\ pc'[r] # "idle" => user'[job[r].user] = user[job[r].user]]_vars
  BY LockKeepsUser
<1>3. QED
  BY <1>1, <1>2, EmailInvariant, PTL DEF Spec

(* A link that has been used or revoked or has expired never works again,  *)
(* and stays its user's, whatever other requests commit later.             *)
THEOREM SpentStaysSpent ==
    Spec => [][\A l \in Links : link[l] # NoLink =>
                  /\ link'[l].user = link[l].user
                  /\ ~Usable(link[l]) => ~Usable(link'[l])]_vars
<1>1. EmailInv /\ [Next]_vars
         => [\A l \in Links : link[l] # NoLink =>
                /\ link'[l].user = link[l].user
                /\ ~Usable(link[l]) => ~Usable(link'[l])]_vars
  BY RowStep DEF RowsKept
<1>2. QED
  BY <1>1, EmailInvariant, PTL DEF Spec
=============================================================================
