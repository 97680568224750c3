--------------------------- MODULE EmailVerification ---------------------------
(***************************************************************************)
(* E-mail verification links: app/services/email_verification_service.py   *)
(* over the users and email_verification_tokens tables.                    *)
(*                                                                         *)
(*   request   idle -> ask -> send -> commit -> idle                       *)
(*   confirm   idle -> confirm -> check -> idle                            *)
(*                                                                         *)
(* From "send", "commit" and "check" on a request holds the lock of the    *)
(* user row; what it writes shows when it commits.  The mail goes out      *)
(* inside the transaction, before the commit.                              *)
(***************************************************************************)
EXTENDS Naturals, FiniteSets

CONSTANTS
    Users, Links, Requests,   \* users, token rows, HTTP calls
    None,                     \* nobody, or no row
    Deployments               \* the settings a deployment may have

ASSUME EmailAssumption ==
    /\ None \notin Users \cup Links \cup Requests
    /\ Deployments \subseteq [smtp : BOOLEAN, development : BOOLEAN]

VARIABLES
    settings, \* is_smtp_configured, and whether app_env is a development one
    user,    \* user[u]: the users row
    link,    \* link[l]: the email_verification_tokens row, or NoLink
    known,   \* links that left the service, by mail or in an answer
    pc,      \* pc[r]: where request r is
    job      \* job[r]: what request r was asked for and what it has read

vars == <<settings, user, link, known, pc, job>>

UserRow == [verified : BOOLEAN, deleted : BOOLEAN]
LinkRow == [user : Users, used : BOOLEAN, revoked : BOOLEAN, expired : BOOLEAN]
NoLink == [user |-> None, used |-> FALSE, revoked |-> FALSE, expired |-> FALSE]
Job == [user : Users, link : Links, seen : LinkRow \cup {NoLink}, revokes : SUBSET Links]
NoJob == [user |-> None, link |-> None, seen |-> NoLink, revokes |-> {}]

TypeOK ==
    /\ settings \in Deployments
    /\ user \in [Users -> UserRow]
    /\ link \in [Links -> LinkRow \cup {NoLink}]
    /\ known \in SUBSET Links
    /\ pc \in [Requests -> {"idle", "ask", "send", "commit", "confirm", "check"}]
    /\ job \in [Requests -> Job \cup {NoJob}]
    /\ \A r \in Requests : pc[r] = "idle" <=> job[r] = NoJob

Init ==
    /\ settings \in Deployments
    /\ user = [u \in Users |-> [verified |-> FALSE, deleted |-> FALSE]]
    /\ link = [l \in Links |-> NoLink]
    /\ known = {}
    /\ pc = [r \in Requests |-> "idle"]
    /\ job = [r \in Requests |-> NoJob]

-----------------------------------------------------------------------------
Locked == {"send", "commit", "check"}

HoldsUser(r, u) == pc[r] \in Locked /\ job[r].user = u

(* Mutant: a SELECT that lost its FOR UPDATE. *)
Unlocked(r, u) == TRUE

UserFree(r, u) == \A s \in Requests \ {r} : ~HoldsUser(s, u)

Usable(row) == row # NoLink /\ ~row.used /\ ~row.revoked /\ ~row.expired

UsableLinks(u) == {l \in Links : Usable(link[l]) /\ link[l].user = u}

(* Link tokens are drawn at random: no two requests draw the same. *)
Fresh(l) == link[l] = NoLink /\ l \notin known /\ \A r \in Requests : job[r].link # l

CanSend == settings.smtp \/ settings.development

End(r) ==
    /\ pc' = [pc EXCEPT ![r] = "idle"]
    /\ job' = [job EXCEPT ![r] = NoJob]

-----------------------------------------------------------------------------
(* POST /auth/email-verification/request, for a signed-in user. *)
BeginRequest(r, u, l) ==
    /\ pc[r] = "idle"
    /\ ~user[u].deleted /\ Fresh(l)
    /\ pc' = [pc EXCEPT ![r] = "ask"]
    /\ job' = [job EXCEPT ![r] = [user |-> u, link |-> l, seen |-> NoLink, revokes |-> {}]]
    /\ UNCHANGED <<settings, user, link, known>>

RefuseRequest(r) ==
    LET u == job[r].user IN
        /\ pc[r] = "ask" /\ UserFree(r, u)
        /\ user[u].deleted \/ user[u].verified \/ ~CanSend
        /\ End(r)
        /\ UNCHANGED <<settings, user, link, known>>

(* The user row is locked: revoke_active_tokens and the insert, unseen by  *)
(* others until the commit.                                                *)
WriteRequest(r) ==
    LET u == job[r].user IN
        /\ pc[r] = "ask" /\ UserFree(r, u)
        /\ ~user[u].deleted /\ ~user[u].verified /\ CanSend
        /\ pc' = [pc EXCEPT ![r] = IF settings.smtp THEN "send" ELSE "commit"]
        /\ job' = [job EXCEPT ![r].revokes = UsableLinks(u)]
        /\ UNCHANGED <<settings, user, link, known>>

(* The SMTP server takes the mail. *)
Mail(r) ==
    /\ pc[r] = "send"
    /\ known' = known \cup {job[r].link}
    /\ pc' = [pc EXCEPT ![r] = "commit"]
    /\ UNCHANGED <<settings, user, link, job>>

(* Mutant: a mail server that never answers blocks forever. *)
NoTimeout(r) == FALSE

(* Mutant: the mail failed, and the rows are committed all the same. *)
MailFailsUnnoticed(r) ==
    /\ pc[r] = "send"
    /\ pc' = [pc EXCEPT ![r] = "commit"]
    /\ UNCHANGED <<settings, user, link, known, job>>

(* It refuses, cannot be reached, or does not answer for 10 s: rollback. *)
MailFails(r) ==
    /\ pc[r] = "send"
    /\ End(r)
    /\ UNCHANGED <<settings, user, link, known>>

(* In development the answer carries the link too. *)
CommitRequest(r) ==
    LET j == job[r] IN
        /\ pc[r] = "commit"
        /\ link' = [l \in Links |->
                      IF l = j.link
                      THEN [user |-> j.user, used |-> FALSE, revoked |-> FALSE, expired |-> FALSE]
                      ELSE IF l \in j.revokes THEN [link[l] EXCEPT !.revoked = TRUE]
                      ELSE link[l]]
        /\ known' = IF settings.development THEN known \cup {j.link} ELSE known
        /\ End(r)
        /\ UNCHANGED <<settings, user>>

-----------------------------------------------------------------------------
(* Mutant: the check that the token exists is gone. *)
BeginConfirmUnknown(r, l) ==
    /\ pc[r] = "idle"
    /\ l \in known
    /\ pc' = [pc EXCEPT ![r] = "confirm"]
    /\ job' = [job EXCEPT ![r] = [user |-> link[l].user, link |-> l, seen |-> link[l],
                                  revokes |-> {}]]
    /\ UNCHANGED <<settings, user, link, known>>

(* POST /auth/email-verification/confirm: now is taken and the token row   *)
(* read, without a lock, into token_snapshot.                              *)
BeginConfirm(r, l) ==
    /\ pc[r] = "idle"
    /\ l \in known /\ link[l] # NoLink
    /\ pc' = [pc EXCEPT ![r] = "confirm"]
    /\ job' = [job EXCEPT ![r] = [user |-> link[l].user, link |-> l, seen |-> link[l],
                                  revokes |-> {}]]
    /\ UNCHANGED <<settings, user, link, known>>

ConfirmUserGone(r) ==
    /\ pc[r] = "confirm" /\ UserFree(r, job[r].user)
    /\ user[job[r].user].deleted
    /\ End(r)
    /\ UNCHANGED <<settings, user, link, known>>

(* The user row is locked, then the token row; that second SELECT returns  *)
(* the object of the first one, token_snapshot, whose attributes the       *)
(* session does not load again: the verdict is on the row as first read.   *)
LockConfirm(r) ==
    /\ pc[r] = "confirm" /\ UserFree(r, job[r].user)
    /\ ~user[job[r].user].deleted
    /\ pc' = [pc EXCEPT ![r] = "check"]
    /\ UNCHANGED <<settings, user, link, known, job>>

RejectConfirm(r) ==
    /\ pc[r] = "check" /\ ~Usable(job[r].seen)
    /\ End(r)
    /\ UNCHANGED <<settings, user, link, known>>

(* Mutant: the two rows are committed one by one, and the second fails.    *)
ConfirmHalf(r) ==
    LET j == job[r] IN
        /\ pc[r] = "check" /\ Usable(j.seen)
        /\ link' = [link EXCEPT ![j.link].used = TRUE]
        /\ user' \in {user, [user EXCEPT ![j.user].verified = TRUE]}
        /\ End(r)
        /\ UNCHANGED <<settings, known>>

Confirm(r) ==
    LET j == job[r] IN
        /\ pc[r] = "check" /\ Usable(j.seen)
        /\ user' = [user EXCEPT ![j.user].verified = TRUE]
        /\ link' = [link EXCEPT ![j.link].used = TRUE]
        /\ End(r)
        /\ UNCHANGED <<settings, known>>

-----------------------------------------------------------------------------
(* AuthService.delete_account, as far as these tables see it. *)
DeleteUser(u) ==
    /\ UserFree(None, u) /\ ~user[u].deleted
    /\ user' = [user EXCEPT ![u].deleted = TRUE]
    /\ UNCHANGED <<settings, link, known, pc, job>>

Expire(l) ==
    /\ link[l] # NoLink /\ ~link[l].expired
    /\ link' = [link EXCEPT ![l].expired = TRUE]
    /\ UNCHANGED <<settings, user, known, pc, job>>

(* A crash or a database error, at the commit too: rollback. *)
Fail(r) ==
    /\ pc[r] # "idle"
    /\ End(r)
    /\ UNCHANGED <<settings, user, link, known>>

-----------------------------------------------------------------------------
(* What the service does by itself; the mail server's answer is not. *)
Serve(r) ==
    \/ RefuseRequest(r) \/ WriteRequest(r) \/ MailFails(r) \/ CommitRequest(r)
    \/ ConfirmUserGone(r) \/ LockConfirm(r) \/ RejectConfirm(r) \/ Confirm(r)

Next ==
    \/ \E r \in Requests :
          \/ \E u \in Users, l \in Links : BeginRequest(r, u, l)
          \/ \E l \in Links : BeginConfirm(r, l)
          \/ Mail(r) \/ Fail(r) \/ Serve(r)
    \/ \E u \in Users : DeleteUser(u)
    \/ \E l \in Links : Expire(l)

Spec == Init /\ [][Next]_vars

(* The event loop runs what is ready (WF for the step after a lock, SF     *)
(* because the first come is the first served at a row lock).              *)
FairSpec == Spec /\ \A r \in Requests : SF_vars(Serve(r))

-----------------------------------------------------------------------------
(* However many requests and confirmations overlap, a user has at most one *)
(* link that still works: the one of the last mail.                        *)
OneUsableLink ==
    \A l1, l2 \in Links :
        Usable(link[l1]) /\ Usable(link[l2]) /\ link[l1].user = link[l2].user => l1 = l2

(* A stored link has left the service: a mail that fails neither leaves a  *)
(* link nobody has nor revokes the one the user does have.                 *)
LinksHandedOut == \A l \in Links : link[l] # NoLink => l \in known

(* Who is verified has used a link of his own, and whose link is used is   *)
(* verified: a confirmation never takes effect in one table only, whatever *)
(* fails, and never for another user than the one the link was made for.   *)
VerifiedByOwnLink ==
    \A u \in Users :
        user[u].verified <=> \E l \in Links : link[l].used /\ link[l].user = u

(* A confirmation waiting for its locks while the account is deleted does  *)
(* not verify it any more, and a request does not give a user who became   *)
(* verified in the meantime another link.                                  *)
NoStaleDecision ==
    [][/\ \A u \in Users : user'[u].verified # user[u].verified => ~user[u].deleted
       /\ \A l \in Links : link[l] = NoLink /\ link'[l] # NoLink
             => ~user[link'[l].user].verified /\ ~user[link'[l].user].deleted]_vars

(* Every request ends, though it waits for a lock that another request     *)
(* holds while it talks to the mail server.                                *)
RequestsAnswered == \A r \in Requests : (pc[r] # "idle") ~> (pc[r] = "idle")

(* tests/test_email_verification_confirm.py:207-233: a token that has been *)
(* revoked, because a newer mail was asked for, is rejected.               *)
RevokedLinksRejected ==
    [][\A l \in Links : ~link[l].used /\ link'[l].used => ~link[l].revoked]_vars
=============================================================================
