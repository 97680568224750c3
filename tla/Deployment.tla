------------------------------ MODULE Deployment ------------------------------
(***************************************************************************)
(* Tasks of the service start, migrate the database and serve.  Every      *)
(* container runs "alembic upgrade heads && uvicorn ..." (Dockerfile:16),  *)
(* so tasks that start together migrate together, over a database that     *)
(* tasks of an older image still use.                                      *)
(*                                                                         *)
(*   task   stopped -> start -> upgrade -> serve -> stopped                *)
(*                                                                         *)
(* All revisions that are missing run in ONE transaction (env.py never     *)
(* asks for one per revision): its effects show when it commits.  Each     *)
(* revision takes its locks, makes its changes, and moves the row of       *)
(* alembic_version, which must match the version it comes from.            *)
(***************************************************************************)
EXTENDS Naturals, Sequences, FiniteSets

CONSTANTS
    Tasks,    \* places for a task of the service
    Desired,  \* how many tasks ECS keeps of the current image
    Images,   \* images, each given by the number of revisions it ships
    MaxOps    \* bound: deployments, downgrades and crashes of a behaviour

VARIABLES
    schema,   \* what the database has: tables, rows, columns, constraints
    duplicates, \* has a user two active subscriptions?
    version,  \* alembic_version: how many revisions are applied
    image,    \* the image new tasks are started from
    task,     \* task[t]: state of task t and of its migration
    traffic,  \* traffic[t]: the transaction task t has open while it serves
    ops       \* deployments, downgrades and crashes so far

vars == <<schema, duplicates, version, image, task, traffic, ops>>

-----------------------------------------------------------------------------
(* The revisions.  adds: what upgrade creates and downgrade removes again; *)
(* needs: what must be there; locks: the tables whose users it waits for   *)
(* and keeps out, in its order; again: what becomes of it where its        *)
(* effects are there already (it "fails", "skips" or "repeats" its work).  *)
Revision(adds, needs, locks, again) ==
    [adds |-> adds, needs |-> needs, locks |-> locks, again |-> again]

InitialSchema == Revision({"users", "plans", "subscriptions", "sites"}, {}, <<>>, "fails")

(* ON CONFLICT DO NOTHING. *)
SeedPlans == Revision({"plan rows"}, {"plans"}, <<>>, "skips")

CreateRefreshTokens == Revision({"refresh_tokens"}, {"users"}, <<"users">>, "fails")

CreateEmailTokens == Revision({"email_verification_tokens"}, {"users"}, <<"users">>, "fails")

(* if_not_exists, for types, table and indexes. *)
CreatePaymentRequests ==
    Revision({"payment_requests"}, {"users", "plans"}, <<"plans", "users">>, "skips")

CreateBillingEvents ==
    Revision({"billing_events"}, {"users", "payment_requests"},
             <<"payment_requests", "users">>, "skips")

CreateSocialAccounts == Revision({"social_accounts"}, {"users"}, <<"users">>, "fails")

(* Mutant: CREATE UNIQUE INDEX CONCURRENTLY. *)
OneActiveSubscriptionUnlocked ==
    Revision({"one active subscription"}, {"subscriptions"}, <<>>, "fails")

(* A unique index: it keeps writers out until the commit, and cannot be    *)
(* built over duplicates (RowsFit).                                        *)
OneActiveSubscription ==
    Revision({"one active subscription"}, {"subscriptions"}, <<"subscriptions">>, "fails")

(* Drops each foreign key to users and creates it anew, so it can run again. *)
CascadeUserKeys ==
    Revision({"cascade"},
             {"sites", "users", "subscriptions", "refresh_tokens", "social_accounts",
              "email_verification_tokens", "payment_requests", "billing_events"},
             <<"sites", "users", "subscriptions", "refresh_tokens", "social_accounts",
               "email_verification_tokens", "payment_requests", "billing_events">>, "repeats")

AddUserRole == Revision({"users.role"}, {"users"}, <<"users">>, "fails")

(* Mutant: the down_revisions of the payment tables are swapped.           *)
ChainSwapped ==
    <<InitialSchema, SeedPlans, CreateRefreshTokens, CreateEmailTokens, CreateBillingEvents,
      CreatePaymentRequests, CreateSocialAccounts, OneActiveSubscription, CascadeUserKeys,
      AddUserRole>>

(* The order that the down_revisions give. *)
Chain ==
    <<InitialSchema, SeedPlans, CreateRefreshTokens, CreateEmailTokens, CreatePaymentRequests,
      CreateBillingEvents, CreateSocialAccounts, OneActiveSubscription, CascadeUserKeys,
      AddUserRole>>

ASSUME DeploymentAssumption ==
    Images \subseteq DOMAIN Chain /\ MaxOps \in Nat /\ Desired \in Nat \ {0}

(* What the first n revisions make of an empty database. *)
Objects(n) == UNION {Chain[i].adds : i \in 1..n}
AllObjects == Objects(Len(Chain))

-----------------------------------------------------------------------------
(* from: the version the migration read; at: how far it got; view: the     *)
(* schema as its transaction sees it; held: the tables it has locked;      *)
(* asks: the one it waits for, ahead of requests that come later.          *)
Stopped ==
    [state |-> "stopped", image |-> 0, from |-> 0, at |-> 0, view |-> {}, held |-> {}, asks |-> "none"]

(* Transactions of requests: a refresh uses refresh_tokens, then users; a  *)
(* deletion or a logout of all devices users, then refresh_tokens.         *)
Paths == {<<"refresh_tokens", "users">>, <<"users", "refresh_tokens">>}
NoTraffic == [path |-> <<>>, taken |-> 0]

TypeOK ==
    /\ schema \subseteq AllObjects
    /\ duplicates \in BOOLEAN
    /\ version \in 0..Len(Chain)
    /\ image \in Images
    /\ \A t \in Tasks :
          /\ task[t].state \in {"stopped", "start", "upgrade", "serve"}
          /\ task[t].image \in Images \cup {0}
          /\ task[t].state = "upgrade" => task[t].from <= task[t].at /\ task[t].at <= task[t].image
          /\ task[t].state # "upgrade" => task[t].held = {}
          /\ task[t].state # "serve" => traffic[t] = NoTraffic
          /\ traffic[t].taken <= Len(traffic[t].path)
    /\ ops \in 0..MaxOps

(* Rows that the index will forbid. *)
MayRepeat == "subscriptions" \in schema /\ "one active subscription" \notin schema

(* A new database, or one that some image has migrated and served. *)
Init ==
    /\ version \in {0} \cup Images
    /\ schema = Objects(version)
    /\ duplicates \in BOOLEAN /\ (duplicates => MayRepeat)
    /\ image \in {i \in Images : i >= version}
    /\ task = [t \in Tasks |-> Stopped]
    /\ traffic = [t \in Tasks |-> NoTraffic]
    /\ ops = 0

-----------------------------------------------------------------------------
(* Which task waits for which, through a table. *)
InFlight(t) == task[t].state = "upgrade" /\ task[t].at > task[t].from
TablesOf(t) == {traffic[t].path[i] : i \in 1..traffic[t].taken}
InUse(table) == \E t \in Tasks : table \in TablesOf(t)
Locked(table, t) == \E s \in Tasks \ {t} : table \in task[s].held
Busy(t) == task[t].state = "upgrade" /\ task[t].at < task[t].image
NextRevision(t) == Chain[task[t].at + 1]
ViewOf(t) == IF InFlight(t) THEN task[t].view ELSE schema
Present(t) == NextRevision(t).adds \cap ViewOf(t) # {}
FailsAtOnce(t) == Present(t) /\ NextRevision(t).again = "fails"

NextLock(t) ==
    LET locks == NextRevision(t).locks
        rest == {i \in DOMAIN locks : locks[i] \notin task[t].held}
    IN  IF ~Busy(t) \/ rest = {} \/ (Present(t) /\ NextRevision(t).again # "repeats")
        THEN "none" ELSE locks[CHOOSE i \in rest : \A j \in rest : i <= j]
NextTable(t) ==
    IF traffic[t].taken < Len(traffic[t].path) THEN traffic[t].path[traffic[t].taken + 1] ELSE "none"

(* The migration fails: it is rolled back and the container exits. *)
Exit(t) ==
    /\ task' = [task EXCEPT ![t] = Stopped]
    /\ UNCHANGED <<schema, duplicates, version, image, traffic, ops>>

(* Mutant: the transaction is left open when the migration is through. *)
ServeHolding(t) == task' = [task EXCEPT ![t].state = "serve"]

Serve(t) ==
    task' = [task EXCEPT ![t] = [Stopped EXCEPT !.state = "serve", !.image = task[t].image]]

Serving == {t \in Tasks : task[t].state = "serve"}
Current == {t \in Tasks : task[t].state # "stopped" /\ task[t].image = image}

(* ECS starts a container of the current image, as long as one is missing. *)
StartTask(t) ==
    /\ task[t].state = "stopped" /\ Cardinality(Current) < Desired
    /\ task' = [task EXCEPT ![t] = [Stopped EXCEPT !.state = "start", !.image = image]]
    /\ UNCHANGED <<schema, duplicates, version, image, traffic, ops>>

(* alembic reads the version.  There may be nothing to do; a revision that *)
(* the image does not ship makes it fail ("Can't locate revision").        *)
ReadVersion(t) ==
    /\ task[t].state = "start"
    /\ \/ version > task[t].image /\ Exit(t)
       \/ version = task[t].image /\ Serve(t) /\ UNCHANGED <<schema, duplicates, version, image, traffic, ops>>
       \/ /\ version < task[t].image
          /\ task' = [task EXCEPT ![t].state = "upgrade", ![t].from = version, ![t].at = version]
          /\ UNCHANGED <<schema, duplicates, version, image, traffic, ops>>

(* The next revision queues for the next table that it has to lock ...     *)
AskForTable(t) ==
    /\ NextLock(t) \notin {"none", task[t].asks}
    /\ InUse(NextLock(t)) \/ Locked(NextLock(t), t)
    /\ task' = [task EXCEPT ![t].asks = NextLock(t)]
    /\ UNCHANGED <<schema, duplicates, version, image, traffic, ops>>

(* ... and takes it when nobody uses it. *)
LockTable(t) ==
    /\ NextLock(t) # "none"
    /\ ~InUse(NextLock(t)) /\ ~Locked(NextLock(t), t)
    /\ task' = [task EXCEPT ![t].held = @ \cup {NextLock(t)}, ![t].asks = "none"]
    /\ UNCHANGED <<schema, duplicates, version, image, traffic, ops>>

(* A unique index finds the rows unique. *)
RowsFit(t) == "one active subscription" \in NextRevision(t).adds => ~duplicates

(* Mutant: nobody looks how many rows the version update has matched. *)
RevisionOKUnmatched(t) ==
    /\ NextRevision(t).needs \subseteq ViewOf(t)
    /\ ~FailsAtOnce(t) /\ RowsFit(t)

(* Can the revision run, and does its UPDATE of alembic_version match?     *)
(* Within the transaction the row is what its last revision made it.       *)
RevisionOK(t) ==
    /\ NextRevision(t).needs \subseteq ViewOf(t)
    /\ ~FailsAtOnce(t) /\ RowsFit(t)
    /\ InFlight(t) \/ version = task[t].from

(* A revision runs.  It waits for a transaction that has moved the row of  *)
(* alembic_version, and has before that created what this one creates; if  *)
(* what it creates is there for good, it fails at once.                    *)
ApplyRevision(t) ==
    /\ Busy(t) /\ NextLock(t) = "none"
    /\ FailsAtOnce(t) \/ \A s \in Tasks \ {t} : ~InFlight(s)
    /\ IF RevisionOK(t)
       THEN /\ task' = [task EXCEPT ![t].at = @ + 1,
                                    ![t].view = ViewOf(t) \cup NextRevision(t).adds]
            /\ UNCHANGED <<schema, duplicates, version, image, traffic, ops>>
       ELSE Exit(t)

(* The transaction commits, alembic ends, uvicorn starts. *)
CommitUpgrade(t) ==
    /\ task[t].state = "upgrade" /\ task[t].at = task[t].image
    /\ schema' = task[t].view
    /\ version' = task[t].at
    /\ Serve(t)
    /\ UNCHANGED <<duplicates, image, traffic, ops>>

-----------------------------------------------------------------------------
(* A request may use a table, unless a migration has locked it or waits    *)
(* for it already: that goes first.                                        *)
Usable(table, t) == ~Locked(table, t) /\ \A s \in Tasks : task[s].asks # table

(* A serving task works on a request, table by table ... *)
BeginTransaction(t, path) ==
    /\ task[t].state = "serve" /\ traffic[t] = NoTraffic
    /\ path[1] \in schema /\ Usable(path[1], t)
    /\ traffic' = [traffic EXCEPT ![t] = [path |-> path, taken |-> 1]]
    /\ UNCHANGED <<schema, duplicates, version, image, task, ops>>

(* ... which fails at a table that a downgrade took away. *)
UseTable(t) ==
    /\ NextTable(t) # "none" /\ Usable(NextTable(t), t)
    /\ traffic' = IF NextTable(t) \in schema
                  THEN [traffic EXCEPT ![t].taken = @ + 1]
                  ELSE [traffic EXCEPT ![t] = NoTraffic]
    /\ UNCHANGED <<schema, duplicates, version, image, task, ops>>

EndTransaction(t) ==
    /\ traffic[t] # NoTraffic /\ NextTable(t) = "none"
    /\ traffic' = [traffic EXCEPT ![t] = NoTraffic]
    /\ UNCHANGED <<schema, duplicates, version, image, task, ops>>

(* Task t, its migration or its transaction, waits for what task s holds. *)
WaitsFor(t, s) ==
    /\ s # t
    /\ \/ NextLock(t) \in TablesOf(s) \cup task[s].held
       \/ NextTable(t) \in task[s].held \cup ({task[s].asks} \ {"none"})
       \/ Busy(t) /\ NextLock(t) = "none" /\ ~FailsAtOnce(t) /\ InFlight(s)

Stuck(cycle) == cycle # {} /\ \A t \in cycle : \E s \in cycle : WaitsFor(t, s)

Waiting == {t \in Tasks : \E s \in Tasks : WaitsFor(t, s)}
InDeadlock(t) ==
    \E cycle \in SUBSET Waiting :
        /\ t \in cycle /\ Stuck(cycle)
        /\ \A less \in SUBSET cycle : less # cycle => ~Stuck(less)

(* PostgreSQL: migrations and requests wait for each other; one of the     *)
(* cycle is rolled back, whichever it picks.                               *)
AbortMigration(t) == task[t].state = "upgrade" /\ InDeadlock(t) /\ Exit(t)

AbortRequest(t) ==
    /\ task[t].state = "serve" /\ InDeadlock(t)
    /\ traffic' = [traffic EXCEPT ![t] = NoTraffic]
    /\ UNCHANGED <<schema, duplicates, version, image, task, ops>>

DeadlockAbort(t) == AbortMigration(t) \/ AbortRequest(t)

(* A user gets a second active subscription, or loses it: somebody writes  *)
(* the table that no migration has locked, and no index stops it.          *)
SubscriptionsChange ==
    /\ MayRepeat /\ \A t \in Tasks : "subscriptions" \notin task[t].held
    /\ duplicates' = ~duplicates
    /\ UNCHANGED <<schema, version, image, task, traffic, ops>>

-----------------------------------------------------------------------------
(* ECS stops a task of another image than the current one: one that serves *)
(* only when the desired count of tasks serves without it.                 *)
ReplaceTask(t) ==
    /\ task[t].state # "stopped" /\ task[t].image # image
    /\ task[t].state = "serve" => Cardinality(Serving \ {t}) >= Desired
    /\ task' = [task EXCEPT ![t] = Stopped]
    /\ traffic' = [traffic EXCEPT ![t] = NoTraffic]
    /\ UNCHANGED <<schema, duplicates, version, image, ops>>

Operation == ops < MaxOps /\ ops' = ops + 1

(* A container dies, is scaled in, or loses its connection. *)
Crash(t) ==
    /\ Operation /\ task[t].state # "stopped"
    /\ task' = [task EXCEPT ![t] = Stopped]
    /\ traffic' = [traffic EXCEPT ![t] = NoTraffic]
    /\ UNCHANGED <<schema, duplicates, version, image>>

(* Another image, newer or (rolled back) older. *)
Deploy(i) ==
    /\ Operation /\ i # image
    /\ image' = i
    /\ UNCHANGED <<schema, duplicates, version, task, traffic>>

Touched(revision) == revision.adds \cup {revision.locks[i] : i \in DOMAIN revision.locks}

(* "alembic downgrade -1" by hand, whatever runs meanwhile.  It waits for  *)
(* the tables it changes, and for a migration in flight, whose commit      *)
(* would leave it no version to match.  A downgrade that fails (SeedPlans' *)
(* DELETE under plans that are in use) has changed nothing.                *)
Downgrade ==
    /\ Operation /\ version > 0
    /\ \A t \in Tasks : ~InFlight(t)
    /\ \A table \in Touched(Chain[version]) :
          ~InUse(table) /\ \A t \in Tasks : table \notin task[t].held
    /\ schema' = schema \ Chain[version].adds
    /\ version' = version - 1
    /\ duplicates' = (duplicates /\ "subscriptions" \in schema')
    /\ UNCHANGED <<image, task, traffic>>

-----------------------------------------------------------------------------
Migrate(t) ==
    ReadVersion(t) \/ AskForTable(t) \/ LockTable(t) \/ ApplyRevision(t) \/ CommitUpgrade(t)

Next ==
    \/ \E t \in Tasks :
          \/ StartTask(t) \/ Migrate(t) \/ UseTable(t) \/ EndTransaction(t)
          \/ ReplaceTask(t) \/ Crash(t) \/ DeadlockAbort(t)
          \/ \E path \in Paths : BeginTransaction(t, path)
    \/ \E i \in Images : Deploy(i)
    \/ Downgrade \/ SubscriptionsChange

Spec == Init /\ [][Next]_vars

(* ECS starts and replaces tasks until it has the desired count, and       *)
(* deadlock_timeout expires.  A migration goes on, and PostgreSQL lets it  *)
(* have its locks in its turn (SF); requests end.                          *)
FairSpec ==
    /\ Spec
    /\ WF_vars(\E t \in Tasks : StartTask(t) \/ ReplaceTask(t))
    /\ WF_vars(\E t \in Tasks : DeadlockAbort(t))
    /\ \A t \in Tasks : SF_vars(Migrate(t)) /\ WF_vars(UseTable(t) \/ EndTransaction(t))

-----------------------------------------------------------------------------
(* However many tasks migrate at once, of whatever images, and wherever    *)
(* they die: the database is what exactly the first revisions make, as     *)
(* many as alembic_version says.                                           *)
SchemaMatchesVersion == schema = Objects(version)

(* Where the unique index is, no user has two active subscriptions, though *)
(* tasks of older images, which know of no index, write subscriptions      *)
(* until it is committed, several revisions after it was built             *)
(* (0008_add_active_subscription_unique_index.py:21-27).                   *)
IndexMeansUnique == "one active subscription" \in schema => ~duplicates

(* An image that ships every revision the database has comes to serve,     *)
(* beside the requests of older tasks, though its tasks migrate at once    *)
(* and some of them die; unless the rows do not fit, or PostgreSQL goes on *)
(* sacrificing migrations to requests.                                     *)
NewImageServes ==
    /\ <>[](version <= image /\ ~duplicates)
    /\ <>[][\A t \in Tasks : ~AbortMigration(t)]_vars
    => []<>(\E t \in Serving : task[t].image = image)
=============================================================================
