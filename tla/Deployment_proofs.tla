--------------------------- MODULE Deployment_proofs ---------------------------
(***************************************************************************)
(* Proofs about Deployment, for any number of tasks, any images and any    *)
(* number of deployments, downgrades and crashes.                          *)
(*                                                                         *)
(* The schema follows the version because at most one migration has moved  *)
(* the row of alembic_version at a time, and what it sees is what a        *)
(* database of its own has after as many revisions.                        *)
(***************************************************************************)
EXTENDS Deployment, TLAPS

(* A task's record is sensible by itself. *)
Sensible(r) ==
    /\ r \in [state : {"stopped", "start", "upgrade", "serve"}, image : Images \cup {0},
              from : Nat, at : Nat, view : {r.view}, held : {r.held}, asks : {r.asks}]
    /\ r.state # "stopped" => r.image \in Images
    /\ r.state = "upgrade" => r.from < r.image /\ r.from <= r.at /\ r.at <= r.image
    /\ r.state # "upgrade" => r.held = {}

Typed ==
    /\ version \in 0..Len(Chain)
    /\ image \in Images
    /\ task = [t \in Tasks |-> task[t]]
    /\ \A t \in Tasks : Sensible(task[t])
    /\ ops \in 0..MaxOps

(* A migration that has moved the row of alembic_version. *)
Moves(t) == /\ task[t].view = Objects(task[t].at)
            /\ task[t].from = version
            /\ \A s \in Tasks \ {t} : ~InFlight(s)

Ahead(t) == InFlight(t) => Moves(t)

SchemaInv ==
    /\ Typed
    /\ SchemaMatchesVersion
    /\ \A t \in Tasks : Ahead(t)

-----------------------------------------------------------------------------
(* The chain of revisions. *)

LEMMA ChainLength == Len(Chain) = 10 /\ DOMAIN Chain = 1..10
BY DEF Chain

LEMMA ImagesNat == Images \subseteq 1..Len(Chain) /\ MaxOps \in Nat
BY DeploymentAssumption, ChainLength

(* One revision more makes what it adds. *)
LEMMA ObjectsNext ==
    ASSUME NEW n \in Nat
    PROVE  Objects(n + 1) = Objects(n) \cup Chain[n + 1].adds
<1>1. 1..(n + 1) = 1..n \cup {n + 1}
  OBVIOUS
<1> QED
  BY <1>1 DEF Objects

LEMMA ObjectsMonotone ==
    ASSUME NEW m \in Nat, NEW n \in Nat, m <= n
    PROVE  Objects(m) \subseteq Objects(n)
<1>1. 1..m \subseteq 1..n
  OBVIOUS
<1> QED
  BY <1>1 DEF Objects

LEMMA ObjectsAll ==
    ASSUME NEW n \in 0..Len(Chain)
    PROVE  Objects(n) \subseteq AllObjects
BY ObjectsMonotone, ChainLength DEF AllObjects

(* What each revision adds, by name. *)
LEMMA ChainAdds ==
    /\ Chain[1].adds = {"users", "plans", "subscriptions", "sites"}
    /\ Chain[2].adds = {"plan rows"}
    /\ Chain[3].adds = {"refresh_tokens"}
    /\ Chain[4].adds = {"email_verification_tokens"}
    /\ Chain[5].adds = {"payment_requests"}
    /\ Chain[6].adds = {"billing_events"}
    /\ Chain[7].adds = {"social_accounts"}
    /\ Chain[8].adds = {"one active subscription"}
    /\ Chain[9].adds = {"cascade"}
    /\ Chain[10].adds = {"users.role"}
BY DEF Chain, Revision, InitialSchema, SeedPlans, CreateRefreshTokens, CreateEmailTokens,
       CreatePaymentRequests, CreateBillingEvents, CreateSocialAccounts, OneActiveSubscription,
       CascadeUserKeys, AddUserRole

(* The revision that adds an object. *)
RevisionOf(object) ==
    CASE object \in {"users", "plans", "subscriptions", "sites"} -> 1
      [] object = "plan rows" -> 2
      [] object = "refresh_tokens" -> 3
      [] object = "email_verification_tokens" -> 4
      [] object = "payment_requests" -> 5
      [] object = "billing_events" -> 6
      [] object = "social_accounts" -> 7
      [] object = "one active subscription" -> 8
      [] object = "cascade" -> 9
      [] object = "users.role" -> 10

LEMMA AddedOnce ==
    ASSUME NEW i \in 1..10, NEW object \in Chain[i].adds
    PROVE  RevisionOf(object) = i
<1>1. CASE i = 1 BY <1>1, ChainAdds DEF RevisionOf
<1>2. CASE i = 2 BY <1>2, ChainAdds DEF RevisionOf
<1>3. CASE i = 3 BY <1>3, ChainAdds DEF RevisionOf
<1>4. CASE i = 4 BY <1>4, ChainAdds DEF RevisionOf
<1>5. CASE i = 5 BY <1>5, ChainAdds DEF RevisionOf
<1>6. CASE i = 6 BY <1>6, ChainAdds DEF RevisionOf
<1>7. CASE i = 7 BY <1>7, ChainAdds DEF RevisionOf
<1>8. CASE i = 8 BY <1>8, ChainAdds DEF RevisionOf
<1>9. CASE i = 9 BY <1>9, ChainAdds DEF RevisionOf
<1>10. CASE i = 10 BY <1>10, ChainAdds DEF RevisionOf
<1> QED
  BY <1>1, <1>2, <1>3, <1>4, <1>5, <1>6, <1>7, <1>8, <1>9, <1>10

(* No two revisions add the same. *)
LEMMA AddsDisjoint ==
    ASSUME NEW i \in 1..10, NEW j \in 1..10, i # j
    PROVE  Chain[i].adds \cap Chain[j].adds = {}
BY AddedOnce

(* A downgrade takes away what the last revision added, and no more. *)
LEMMA ObjectsBefore ==
    ASSUME NEW n \in 1..Len(Chain)
    PROVE  Objects(n) \ Chain[n].adds = Objects(n - 1)
<1>1. Objects(n) = Objects(n - 1) \cup Chain[n].adds
  <2>1. n - 1 \in Nat /\ (n - 1) + 1 = n
    BY ChainLength
  <2> QED
    BY <2>1, ObjectsNext
<1>2. Objects(n - 1) \cap Chain[n].adds = {}
  BY AddsDisjoint, ChainLength DEF Objects
<1> QED
  BY <1>1, <1>2

-----------------------------------------------------------------------------
(* What the helpers of the model give. *)

LEMMA NextLockBusy ==
    ASSUME NEW t \in Tasks, NextLock(t) # "none"
    PROVE  Busy(t)
BY DEF NextLock

(* A task that is not migrating has moved no row. *)
LEMMA InFlightUpgrades ==
    ASSUME NEW t \in Tasks, InFlight(t)
    PROVE  task[t].state = "upgrade"
BY DEF InFlight

(* An action that leaves the database alone, and makes of one task what a  *)
(* task may be beside this database and these other tasks.                 *)
LEMMA OneTask ==
    ASSUME SchemaInv, NEW t \in Tasks, NEW r,
           UNCHANGED <<schema, version>>, image' \in Images, ops' \in 0..MaxOps,
           task' = [task EXCEPT ![t] = r],
           Sensible(r),
           r.state = "upgrade" /\ r.at > r.from =>
              /\ r.view = Objects(r.at) /\ r.from = version
              /\ \A s \in Tasks \ {t} : ~InFlight(s)
    PROVE  SchemaInv'
<1> USE DEF SchemaInv
<1>1. task'[t] = r /\ \A s \in Tasks \ {t} : task'[s] = task[s]
  BY DEF Typed
<1>2. Typed'
  <2>1. task' = [s \in Tasks |-> task'[s]]
    BY DEF Typed
  <2>2. \A s \in Tasks : Sensible(task'[s])
    BY <1>1 DEF Typed
  <2> QED
    BY <2>1, <2>2 DEF Typed, Sensible
<1>3. SchemaMatchesVersion'
  BY DEF SchemaMatchesVersion, Objects
<1>4. \A s \in Tasks \ {t} : InFlight(s)' <=> InFlight(s)
  BY <1>1 DEF InFlight
<1>5. \A s \in Tasks : Ahead(s)'
  BY <1>1, <1>4 DEF Ahead, Moves, Objects, InFlight
<1> QED
  BY <1>2, <1>3, <1>5

(* An action that leaves alone the database and where every task is. *)
LEMMA Harmless ==
    ASSUME SchemaInv, UNCHANGED <<schema, version, task>>, image' \in Images, ops' \in 0..MaxOps
    PROVE  SchemaInv'
BY DEF SchemaInv, Typed, Sensible, SchemaMatchesVersion, Objects, Ahead, Moves,
       InFlight

LEMMA StoppedSensible == Sensible(Stopped) /\ Stopped.state = "stopped"
BY DEF Stopped, Sensible

-----------------------------------------------------------------------------
(* One lemma for each action that starts, moves or ends a migration. *)

LEMMA InitInv == Init => SchemaInv
<1> SUFFICES ASSUME Init PROVE SchemaInv
  OBVIOUS
<1>1. Typed
  BY ImagesNat, ChainLength, StoppedSensible DEF Init, Typed, Sensible
<1>2. \A t \in Tasks : ~InFlight(t) /\ task[t].state = "stopped"
  BY DEF Init, Stopped, InFlight
<1> QED
  BY <1>1, <1>2 DEF Init, SchemaInv, SchemaMatchesVersion, Ahead

LEMMA ExitInv ==
    ASSUME SchemaInv, NEW t \in Tasks, Exit(t)
    PROVE  SchemaInv'
<1>1. image \in Images /\ ops \in 0..MaxOps
  BY DEF SchemaInv, Typed
<1> QED
  BY <1>1, StoppedSensible, OneTask DEF Exit

LEMMA StartTaskInv ==
    ASSUME SchemaInv, NEW t \in Tasks, StartTask(t)
    PROVE  SchemaInv'
<1> DEFINE r == [Stopped EXCEPT !.state = "start", !.image = image]
<1>1. image \in Images /\ ops \in 0..MaxOps
  BY DEF SchemaInv, Typed
<1>4. Sensible(r) /\ r.state = "start"
  BY <1>1 DEF Stopped, Sensible
<1>3. task' = [task EXCEPT ![t] = r] /\ UNCHANGED <<schema, version, image, ops>>
  BY DEF StartTask
<1> HIDE DEF r
<1> QED
  BY <1>1, <1>3, <1>4, OneTask

LEMMA ServeInv ==
    ASSUME SchemaInv, NEW t \in Tasks, Serve(t), UNCHANGED <<schema, version, image, ops>>,
           task[t].image \in Images
    PROVE  SchemaInv'
<1> DEFINE r == [Stopped EXCEPT !.state = "serve", !.image = task[t].image]
<1>1. image \in Images /\ ops \in 0..MaxOps
  BY DEF SchemaInv, Typed
<1>4. Sensible(r) /\ r.state = "serve"
  BY DEF Stopped, Sensible
<1>3. task' = [task EXCEPT ![t] = r]
  BY DEF Serve
<1> HIDE DEF r
<1> QED
  BY <1>1, <1>3, <1>4, OneTask

LEMMA ReadVersionInv ==
    ASSUME SchemaInv, NEW t \in Tasks, ReadVersion(t)
    PROVE  SchemaInv'
<1>1. /\ image \in Images /\ ops \in 0..MaxOps /\ version \in Nat
      /\ Sensible(task[t]) /\ task[t].image \in Images
  BY ChainLength DEF SchemaInv, Typed, Sensible, ReadVersion
<1>2. CASE Exit(t)
  BY <1>2, ExitInv
<1>3. CASE version = task[t].image /\ Serve(t) /\ UNCHANGED <<schema, duplicates, version, image, traffic, ops>>
  BY <1>1, <1>3, ServeInv
<1>4. CASE /\ version < task[t].image
           /\ task' = [task EXCEPT ![t].state = "upgrade", ![t].from = version, ![t].at = version]
           /\ UNCHANGED <<schema, duplicates, version, image, traffic, ops>>
  <2> DEFINE r == [task[t] EXCEPT !.state = "upgrade", !.from = version, !.at = version]
  <2>1. /\ r.state = "upgrade" /\ r.from = version /\ r.at = version
        /\ r.image = task[t].image
        /\ r \in [state : {"upgrade"}, image : Images, from : Nat, at : Nat,
                  view : {r.view}, held : {r.held}, asks : {r.asks}]
    BY <1>1 DEF Sensible
  <2>2. Sensible(r) /\ r.state = "upgrade" /\ ~(r.at > r.from)
    <3> HIDE DEF r
    <3> QED
      BY <1>1, <1>4, <2>1, ImagesNat, ChainLength DEF Sensible
  <2>3. task' = [task EXCEPT ![t] = r]
    BY <1>1, <1>4 DEF Sensible, SchemaInv, Typed
  <2> HIDE DEF r
  <2> QED
    BY <1>1, <1>4, <2>2, <2>3, OneTask
<1> QED
  BY <1>2, <1>3, <1>4 DEF ReadVersion

(* A migration that queues for a table has changed nothing yet. *)
LEMMA AskForTableInv ==
    ASSUME SchemaInv, NEW t \in Tasks, AskForTable(t)
    PROVE  SchemaInv'
<1> DEFINE r == [task[t] EXCEPT !.asks = NextLock(t)]
<1>1. /\ image \in Images /\ ops \in 0..MaxOps
      /\ Sensible(task[t]) /\ task[t].state = "upgrade"
      /\ Ahead(t)
  BY NextLockBusy DEF SchemaInv, Typed, AskForTable, Busy
<1>2. /\ r.state = "upgrade" /\ r.from = task[t].from /\ r.at = task[t].at
      /\ r.image = task[t].image /\ r.view = task[t].view
      /\ r \in [state : {"upgrade"}, image : Images, from : Nat, at : Nat,
                view : {r.view}, held : {r.held}, asks : {r.asks}]
  BY <1>1 DEF Sensible
<1>3. task' = [task EXCEPT ![t] = r] /\ UNCHANGED <<schema, version, image, ops>>
  BY <1>1 DEF AskForTable
<1> HIDE DEF r
<1>4. Sensible(r)
  BY <1>1, <1>2 DEF Sensible
<1>5. r.at > r.from => /\ r.view = Objects(r.at) /\ r.from = version
                       /\ \A s \in Tasks \ {t} : ~InFlight(s)
  BY <1>1, <1>2 DEF Ahead, InFlight, Moves
<1> QED
  BY <1>1, <1>2, <1>3, <1>4, <1>5, OneTask

LEMMA LockTableInv ==
    ASSUME SchemaInv, NEW t \in Tasks, LockTable(t)
    PROVE  SchemaInv'
<1> DEFINE r == [task[t] EXCEPT !.held = @ \cup {NextLock(t)}, !.asks = "none"]
<1>1. /\ image \in Images /\ ops \in 0..MaxOps
      /\ Sensible(task[t]) /\ task[t].state = "upgrade"
      /\ Ahead(t)
  BY NextLockBusy DEF SchemaInv, Typed, LockTable, Busy
<1>2. /\ r.state = "upgrade" /\ r.from = task[t].from /\ r.at = task[t].at
      /\ r.image = task[t].image /\ r.view = task[t].view
      /\ r \in [state : {"upgrade"}, image : Images, from : Nat, at : Nat,
                view : {r.view}, held : {r.held}, asks : {r.asks}]
  BY <1>1 DEF Sensible
<1>3. task' = [task EXCEPT ![t] = r] /\ UNCHANGED <<schema, version, image, ops>>
  BY <1>1 DEF LockTable
<1> HIDE DEF r
<1>4. Sensible(r)
  BY <1>1, <1>2 DEF Sensible
<1>5. r.at > r.from => /\ r.view = Objects(r.at) /\ r.from = version
                       /\ \A s \in Tasks \ {t} : ~InFlight(s)
  BY <1>1, <1>2 DEF Ahead, InFlight, Moves
<1> QED
  BY <1>1, <1>2, <1>3, <1>4, <1>5, OneTask

(* A revision that can run continues what the migration has made so far,   *)
(* or starts from the database as its version says; it has waited for all  *)
(* others that are in flight.                                              *)
LEMMA ApplyRevisionInv ==
    ASSUME SchemaInv, NEW t \in Tasks, ApplyRevision(t)
    PROVE  SchemaInv'
<1>1. CASE Exit(t)
  BY <1>1, ExitInv
<1>2. CASE RevisionOK(t) /\ ~Exit(t)
  <2> DEFINE r == [task[t] EXCEPT !.at = @ + 1, !.view = ViewOf(t) \cup NextRevision(t).adds]
  <2>1. /\ image \in Images /\ ops \in 0..MaxOps /\ version \in Nat
        /\ Sensible(task[t]) /\ task[t].state = "upgrade" /\ task[t].at < task[t].image
        /\ task[t].at \in Nat /\ task[t].from \in Nat /\ task[t].image \in Images
        /\ Ahead(t)
    BY ChainLength DEF SchemaInv, Typed, ApplyRevision, Busy, Sensible
  <2>2. /\ r.state = "upgrade" /\ r.from = task[t].from /\ r.at = task[t].at + 1
        /\ r.image = task[t].image /\ r.view = ViewOf(t) \cup NextRevision(t).adds
        /\ r \in [state : {"upgrade"}, image : Images, from : Nat, at : Nat,
                  view : {r.view}, held : {r.held}, asks : {r.asks}]
    <3> DEFINE view == ViewOf(t) \cup NextRevision(t).adds
               at == task[t].at + 1
               old == task[t]
    <3>1. /\ old \in [state : {"upgrade"}, image : Images, from : Nat, at : Nat,
                      view : {old.view}, held : {old.held}, asks : {old.asks}]
          /\ at \in Nat
      BY <2>1 DEF Sensible
    <3>2. r = [old EXCEPT !.at = at, !.view = view]
      OBVIOUS
    <3> HIDE DEF view, at, old, r
    <3>3. /\ r.state = "upgrade" /\ r.from = old.from /\ r.at = at
          /\ r.image = old.image /\ r.view = view
          /\ r \in [state : {"upgrade"}, image : Images, from : Nat, at : Nat,
                    view : {r.view}, held : {r.held}, asks : {r.asks}]
      BY <3>1, <3>2
    <3> QED
      BY <3>3 DEF view, at, old
  <2>3. task' = [task EXCEPT ![t] = r] /\ UNCHANGED <<schema, version, image, ops>>
    BY <1>2, <2>1 DEF ApplyRevision
  <2> HIDE DEF r
  <2>4. Sensible(r)
    BY <2>1, <2>2, ImagesNat, ChainLength DEF Sensible
  <2>5. \A s \in Tasks \ {t} : ~InFlight(s)
    BY <1>2 DEF ApplyRevision, RevisionOK
  <2>6. ViewOf(t) = Objects(task[t].at) /\ task[t].from = version
    <3>1. CASE InFlight(t)
      BY <2>1, <3>1 DEF ViewOf, Ahead, Moves
    <3>2. CASE ~InFlight(t)
      <4>1. task[t].from = version /\ task[t].at = task[t].from
        BY <1>2, <2>1, <3>2, ImagesNat, ChainLength DEF RevisionOK, InFlight, Sensible
      <4>2. schema = Objects(version)
        BY DEF SchemaInv, SchemaMatchesVersion
      <4> QED
        BY <3>2, <4>1, <4>2 DEF ViewOf
    <3> QED
      BY <3>1, <3>2
  <2>7. r.view = Objects(r.at) /\ r.from = version
    BY <2>1, <2>2, <2>6, ObjectsNext DEF NextRevision
  <2> QED
    BY <2>1, <2>2, <2>3, <2>4, <2>5, <2>7, OneTask
<1> QED
  BY <1>1, <1>2 DEF ApplyRevision

(* The only migration in flight commits. *)
LEMMA CommitUpgradeInv ==
    ASSUME SchemaInv, NEW t \in Tasks, CommitUpgrade(t)
    PROVE  SchemaInv'
<1> USE DEF SchemaInv
<1> DEFINE r == [Stopped EXCEPT !.state = "serve", !.image = task[t].image]
<1>1. /\ Sensible(task[t]) /\ task[t].state = "upgrade" /\ task[t].at = task[t].image
      /\ task[t].image \in Images /\ InFlight(t)
  BY ImagesNat, ChainLength DEF Typed, CommitUpgrade, Sensible, InFlight
<1>2. /\ task[t].view = Objects(task[t].at) /\ task[t].from = version
      /\ \A s \in Tasks \ {t} : ~InFlight(s)
  BY <1>1 DEF Ahead, Moves
<1>3. /\ version' = task[t].image /\ version' > version /\ version \in Nat
      /\ version' \in 0..Len(Chain)
  BY <1>1, <1>2, ImagesNat, ChainLength DEF CommitUpgrade, InFlight, Typed, Sensible
<1>4. schema' = Objects(version')
  BY <1>2 DEF CommitUpgrade
<1>5. Sensible(r) /\ r.state = "serve" /\ r.image = task[t].image
  BY <1>1 DEF Stopped, Sensible
<1>6. task' = [task EXCEPT ![t] = r]
  BY DEF CommitUpgrade, Serve
<1> HIDE DEF r
<1>7. task'[t] = r /\ \A s \in Tasks \ {t} : task'[s] = task[s]
  BY <1>6 DEF Typed
<1>8. Typed'
  <2>1. task' = [s \in Tasks |-> task'[s]]
    BY <1>6 DEF Typed
  <2>2. \A s \in Tasks : Sensible(task'[s])
    BY <1>5, <1>7 DEF Typed
  <2>3. image' \in Images /\ ops' \in 0..MaxOps
    BY DEF CommitUpgrade, Typed
  <2> QED
    BY <1>3, <2>1, <2>2, <2>3, ChainLength DEF Typed, Sensible
<1>9. SchemaMatchesVersion'
  BY <1>4 DEF SchemaMatchesVersion, Objects
<1>10. \A s \in Tasks : ~InFlight(s)'
  BY <1>2, <1>5, <1>7 DEF InFlight
<1> QED
  BY <1>8, <1>9, <1>10 DEF Ahead

(* No migration is in flight when a downgrade commits. *)
LEMMA DowngradeInv ==
    ASSUME SchemaInv, Downgrade
    PROVE  SchemaInv'
<1> USE DEF SchemaInv
<1>1. /\ version \in 1..Len(Chain) /\ version' = version - 1
      /\ version' \in 0..Len(Chain)
  BY ChainLength DEF Downgrade, Typed
<1>2. schema' = Objects(version')
  BY <1>1, ObjectsBefore DEF Downgrade, SchemaMatchesVersion
<1>3. SchemaMatchesVersion'
  BY <1>2 DEF SchemaMatchesVersion, Objects
<1>4. task' = task /\ image' = image /\ ops' \in 0..MaxOps
      /\ \A t \in Tasks : ~InFlight(t)
  BY ImagesNat DEF Downgrade, Operation, Typed
<1>5. Typed'
  BY <1>1, <1>4 DEF Typed, Sensible
<1>6. \A t \in Tasks : Ahead(t)'
  BY <1>4 DEF Ahead, InFlight
<1> QED
  BY <1>3, <1>5, <1>6

LEMMA ReplaceTaskInv ==
    ASSUME SchemaInv, NEW t \in Tasks, ReplaceTask(t)
    PROVE  SchemaInv'
<1>1. image \in Images /\ ops \in 0..MaxOps
  BY DEF SchemaInv, Typed
<1> QED
  BY <1>1, StoppedSensible, OneTask DEF ReplaceTask

(* A crash rolls back what the task's migration has done. *)
LEMMA CrashInv ==
    ASSUME SchemaInv, NEW t \in Tasks, Crash(t)
    PROVE  SchemaInv'
<1>1. image \in Images /\ ops' \in 0..MaxOps
  BY ImagesNat DEF SchemaInv, Typed, Crash, Operation
<1> QED
  BY <1>1, StoppedSensible, OneTask DEF Crash

LEMMA DeployInv ==
    ASSUME SchemaInv, NEW i \in Images, Deploy(i)
    PROVE  SchemaInv'
<1>1. image' \in Images /\ ops' \in 0..MaxOps
  BY ImagesNat DEF SchemaInv, Typed, Deploy, Operation
<1> QED
  BY <1>1, Harmless DEF Deploy

LEMMA DeadlockAbortInv ==
    ASSUME SchemaInv, NEW t \in Tasks, DeadlockAbort(t)
    PROVE  SchemaInv'
<1>1. image \in Images /\ ops \in 0..MaxOps
  BY DEF SchemaInv, Typed
<1>2. CASE Exit(t)
  BY <1>2, ExitInv
<1>3. CASE ~Exit(t)
  BY <1>1, <1>3, Harmless DEF DeadlockAbort, AbortMigration, AbortRequest
<1> QED
  BY <1>2, <1>3

(* Requests do not touch the schema. *)
LEMMA TrafficInvariant ==
    ASSUME SchemaInv, NEW t \in Tasks,
           UseTable(t) \/ EndTransaction(t) \/ \E path \in Paths : BeginTransaction(t, path)
    PROVE  SchemaInv'
<1>1. image \in Images /\ ops \in 0..MaxOps
  BY DEF SchemaInv, Typed
<1>2. UNCHANGED <<schema, version, image, task, ops>>
  BY DEF UseTable, EndTransaction, BeginTransaction
<1> QED
  BY <1>1, <1>2, Harmless

LEMMA NextInv == SchemaInv /\ [Next]_vars => SchemaInv'
<1> SUFFICES ASSUME SchemaInv, [Next]_vars PROVE SchemaInv'
  OBVIOUS
<1>1. CASE UNCHANGED vars
  <2>1. image' \in Images /\ ops' \in 0..MaxOps /\ UNCHANGED <<schema, version, task>>
    BY <1>1 DEF SchemaInv, Typed, vars
  <2> QED
    BY <2>1, Harmless
<1>2. ASSUME NEW t \in Tasks, StartTask(t) PROVE SchemaInv'
  BY <1>2, StartTaskInv
<1>3. ASSUME NEW t \in Tasks, Migrate(t) PROVE SchemaInv'
  BY <1>3, ReadVersionInv, AskForTableInv, LockTableInv, ApplyRevisionInv, CommitUpgradeInv DEF Migrate
<1>4. ASSUME NEW t \in Tasks,
             UseTable(t) \/ EndTransaction(t) \/ \E path \in Paths : BeginTransaction(t, path)
      PROVE  SchemaInv'
  BY <1>4, TrafficInvariant
<1>5. ASSUME NEW t \in Tasks, ReplaceTask(t) PROVE SchemaInv'
  BY <1>5, ReplaceTaskInv
<1>6. ASSUME NEW t \in Tasks, Crash(t) PROVE SchemaInv'
  BY <1>6, CrashInv
<1>7. ASSUME NEW t \in Tasks, DeadlockAbort(t) PROVE SchemaInv'
  BY <1>7, DeadlockAbortInv
<1>8. ASSUME NEW i \in Images, Deploy(i) PROVE SchemaInv'
  BY <1>8, DeployInv
<1>9. CASE Downgrade
  BY <1>9, DowngradeInv
<1>10. CASE SubscriptionsChange
  <2>1. image' \in Images /\ ops' \in 0..MaxOps /\ UNCHANGED <<schema, version, task>>
    BY <1>10 DEF SchemaInv, Typed, SubscriptionsChange
  <2> QED
    BY <2>1, Harmless
<1> QED
  BY <1>1, <1>2, <1>3, <1>4, <1>5, <1>6, <1>7, <1>8, <1>9, <1>10 DEF Next

LEMMA AlwaysSchemaInv == Spec => []SchemaInv
BY InitInv, NextInv, PTL DEF Spec

-----------------------------------------------------------------------------
(* The database is always what exactly the first revisions make of an      *)
(* empty one, as many as alembic_version says: app migrations, env.py.     *)
THEOREM SchemaFollowsVersion == Spec => []SchemaMatchesVersion
<1>1. SchemaInv => SchemaMatchesVersion
  BY DEF SchemaInv
<1> QED
  BY <1>1, AlwaysSchemaInv, PTL

-----------------------------------------------------------------------------
(* The transactions of requests. *)

TrafficTyped(r) ==
    /\ r \in [path : Paths \cup {<<>>}, taken : Nat]
    /\ r.taken <= Len(r.path)

TrafficInv ==
    /\ traffic = [t \in Tasks |-> traffic[t]]
    /\ \A t \in Tasks : TrafficTyped(traffic[t])
    /\ \A t \in Tasks : task[t].state # "serve" => traffic[t] = NoTraffic

LEMMA PathLengths == \A path \in Paths \cup {<<>>} : Len(path) \in Nat
BY DEF Paths

LEMMA NoTrafficTyped == TrafficTyped(NoTraffic)
BY DEF TrafficTyped, NoTraffic

(* No transaction changes, and no task stops to serve. *)
LEMMA TrafficKept ==
    ASSUME TrafficInv, UNCHANGED traffic,
           \A t \in Tasks : task[t].state = "serve" => task'[t].state = "serve"
    PROVE  TrafficInv'
BY DEF TrafficInv, TrafficTyped

(* One transaction changes, of a task that goes on to serve or ends its    *)
(* transaction.                                                            *)
LEMMA TrafficMoved ==
    ASSUME TrafficInv, NEW t \in Tasks, NEW r, TrafficTyped(r),
           traffic' = [traffic EXCEPT ![t] = r],
           \A s \in Tasks \ {t} : task'[s] = task[s],
           r = NoTraffic \/ task'[t].state = "serve"
    PROVE  TrafficInv'
<1>1. traffic'[t] = r /\ \A s \in Tasks \ {t} : traffic'[s] = traffic[s]
  BY DEF TrafficInv
<1>2. traffic' = [s \in Tasks |-> traffic'[s]]
  BY DEF TrafficInv
<1>3. \A s \in Tasks : TrafficTyped(traffic'[s])
  BY <1>1 DEF TrafficInv
<1>4. \A s \in Tasks : task'[s].state # "serve" => traffic'[s] = NoTraffic
  BY <1>1 DEF TrafficInv
<1> QED
  BY <1>2, <1>3, <1>4 DEF TrafficInv, TrafficTyped

LEMMA TrafficNext == SchemaInv /\ TrafficInv /\ [Next]_vars => TrafficInv'
<1> SUFFICES ASSUME SchemaInv, TrafficInv, [Next]_vars PROVE TrafficInv'
  OBVIOUS
<1>0. task = [t \in Tasks |-> task[t]]
  BY DEF SchemaInv, Typed
<1>1. CASE UNCHANGED vars
  BY <1>1, TrafficKept DEF vars
<1>2. ASSUME NEW t \in Tasks, Serve(t), UNCHANGED traffic PROVE TrafficInv'
  <2>1. \A s \in Tasks : task[s].state = "serve" => task'[s].state = "serve"
    BY <1>0, <1>2 DEF Serve, Stopped
  <2> QED
    BY <1>2, <2>1, TrafficKept
<1>3. ASSUME NEW t \in Tasks, Exit(t), task[t].state # "serve" PROVE TrafficInv'
  <2>1. \A s \in Tasks : task[s].state = "serve" => task'[s].state = "serve"
    BY <1>0, <1>3 DEF Exit
  <2> QED
    BY <1>3, <2>1, TrafficKept DEF Exit
<1>4. ASSUME NEW t \in Tasks, StartTask(t) PROVE TrafficInv'
  <2>1. \A s \in Tasks : task[s].state = "serve" => task'[s].state = "serve"
    BY <1>0, <1>4 DEF StartTask
  <2> QED
    BY <1>4, <2>1, TrafficKept DEF StartTask
<1>5. ASSUME NEW t \in Tasks, ReadVersion(t) PROVE TrafficInv'
  <2>1. CASE Exit(t) \/ (Serve(t) /\ UNCHANGED traffic)
    BY <1>2, <1>3, <1>5, <2>1 DEF ReadVersion
  <2>2. CASE /\ task' = [task EXCEPT ![t].state = "upgrade", ![t].from = version, ![t].at = version]
             /\ UNCHANGED traffic
    <3>1. \A s \in Tasks : task[s].state = "serve" => task'[s].state = "serve"
      BY <1>0, <1>5, <2>2 DEF ReadVersion
    <3> QED
      BY <2>2, <3>1, TrafficKept
  <2> QED
    BY <1>5, <2>1, <2>2 DEF ReadVersion
<1>6. ASSUME NEW t \in Tasks, AskForTable(t) \/ LockTable(t) PROVE TrafficInv'
  <2>1. task[t].state = "upgrade"
    BY <1>6, NextLockBusy DEF AskForTable, LockTable, Busy
  <2>2. \A s \in Tasks : task[s].state = "serve" => task'[s].state = "serve"
    BY <1>0, <1>6, <2>1 DEF AskForTable, LockTable
  <2> QED
    BY <1>6, <2>2, TrafficKept DEF AskForTable, LockTable
<1>7. ASSUME NEW t \in Tasks, ApplyRevision(t) PROVE TrafficInv'
  <2>1. task[t].state = "upgrade"
    BY <1>7 DEF ApplyRevision, Busy
  <2>2. CASE Exit(t)
    BY <1>3, <2>1, <2>2
  <2>3. CASE ~Exit(t)
    <3>1. \A s \in Tasks : task[s].state = "serve" => task'[s].state = "serve"
      BY <1>0, <1>7, <2>1, <2>3 DEF ApplyRevision
    <3> QED
      BY <1>7, <2>3, <3>1, TrafficKept DEF ApplyRevision
  <2> QED
    BY <2>2, <2>3
<1>8. ASSUME NEW t \in Tasks, CommitUpgrade(t) PROVE TrafficInv'
  BY <1>2, <1>8 DEF CommitUpgrade
<1>9. ASSUME NEW t \in Tasks, NEW path \in Paths, BeginTransaction(t, path) PROVE TrafficInv'
  <2> DEFINE r == [path |-> path, taken |-> 1]
  <2>1. TrafficTyped(r)
    BY PathLengths DEF TrafficTyped, Paths
  <2>2. traffic' = [traffic EXCEPT ![t] = r] /\ task' = task /\ task[t].state = "serve"
    BY <1>9 DEF BeginTransaction
  <2> HIDE DEF r
  <2> QED
    BY <2>1, <2>2, TrafficMoved
<1>10. ASSUME NEW t \in Tasks, UseTable(t) PROVE TrafficInv'
  <2> DEFINE r == [traffic[t] EXCEPT !.taken = @ + 1]
  <2>1. /\ traffic[t] \in [path : Paths \cup {<<>>}, taken : Nat]
        /\ traffic[t].taken < Len(traffic[t].path)
        /\ traffic[t] # NoTraffic
    BY <1>10 DEF UseTable, NextTable, TrafficInv, TrafficTyped, NoTraffic
  <2>2. TrafficTyped(r)
    BY <2>1, PathLengths DEF TrafficTyped
  <2>3. /\ traffic' = [traffic EXCEPT ![t] = r] \/ traffic' = [traffic EXCEPT ![t] = NoTraffic]
        /\ task' = task /\ task[t].state = "serve"
    BY <1>10, <2>1 DEF UseTable, TrafficInv
  <2> HIDE DEF r
  <2> QED
    BY <2>2, <2>3, NoTrafficTyped, TrafficMoved
<1>11. ASSUME NEW t \in Tasks, EndTransaction(t) PROVE TrafficInv'
  BY <1>11, NoTrafficTyped, TrafficMoved DEF EndTransaction
<1>12. ASSUME NEW t \in Tasks, ReplaceTask(t) \/ Crash(t) PROVE TrafficInv'
  <2>1. traffic' = [traffic EXCEPT ![t] = NoTraffic] /\ task' = [task EXCEPT ![t] = Stopped]
    BY <1>12 DEF ReplaceTask, Crash
  <2>2. \A s \in Tasks \ {t} : task'[s] = task[s]
    BY <1>0, <2>1
  <2> QED
    BY <2>1, <2>2, NoTrafficTyped, TrafficMoved
<1>13. ASSUME NEW t \in Tasks, DeadlockAbort(t) PROVE TrafficInv'
  <2>1. CASE task[t].state = "upgrade" /\ Exit(t)
    BY <1>3, <2>1
  <2>2. CASE traffic' = [traffic EXCEPT ![t] = NoTraffic] /\ task' = task
    BY <2>2, NoTrafficTyped, TrafficMoved
  <2> QED
    BY <1>13, <2>1, <2>2 DEF DeadlockAbort, AbortMigration, AbortRequest
<1>14. CASE Downgrade \/ SubscriptionsChange \/ \E i \in Images : Deploy(i)
  BY <1>14, TrafficKept DEF Downgrade, SubscriptionsChange, Deploy
<1> QED
  BY <1>1, <1>4, <1>5, <1>6, <1>7, <1>8, <1>9, <1>10, <1>11, <1>12, <1>13, <1>14
     DEF Next, Migrate

DuplicatesOK == duplicates \in BOOLEAN

LEMMA DuplicatesTyped == DuplicatesOK /\ [Next]_vars => DuplicatesOK'
<1> SUFFICES ASSUME duplicates \in BOOLEAN, [Next]_vars PROVE duplicates' \in BOOLEAN
  BY DEF DuplicatesOK
<1>1. CASE SubscriptionsChange \/ Downgrade
  BY <1>1 DEF SubscriptionsChange, Downgrade
<1>2. CASE UNCHANGED duplicates
  BY <1>2
<1>3. ASSUME NEW t \in Tasks, Migrate(t)
      PROVE  UNCHANGED duplicates
  BY <1>3 DEF Migrate, ReadVersion, AskForTable, LockTable, ApplyRevision, CommitUpgrade, Exit
<1>4. ASSUME NEW t \in Tasks, StartTask(t) \/ ReplaceTask(t) \/ Crash(t) \/ DeadlockAbort(t)
      PROVE  UNCHANGED duplicates
  BY <1>4 DEF StartTask, ReplaceTask, Crash, DeadlockAbort, AbortMigration, AbortRequest, Exit
<1>5. ASSUME NEW t \in Tasks,
             UseTable(t) \/ EndTransaction(t) \/ \E path \in Paths : BeginTransaction(t, path)
      PROVE  UNCHANGED duplicates
  BY <1>5 DEF UseTable, EndTransaction, BeginTransaction
<1> QED
  BY <1>1, <1>2, <1>3, <1>4, <1>5 DEF Next, Deploy, vars

(* The variables keep their types, and only a serving task has requests. *)
THEOREM DeploymentTyped == Spec => []TypeOK
<1>1. Init => TrafficInv
  BY NoTrafficTyped DEF Init, TrafficInv
<1>2. SchemaInv /\ TrafficInv /\ DuplicatesOK => TypeOK
  <2> SUFFICES ASSUME SchemaInv, TrafficInv, duplicates \in BOOLEAN PROVE TypeOK
    BY DEF DuplicatesOK
  <2>1. schema \subseteq AllObjects
    BY ObjectsAll DEF SchemaInv, Typed, SchemaMatchesVersion
  <2>2. \A t \in Tasks :
          /\ task[t].state \in {"stopped", "start", "upgrade", "serve"}
          /\ task[t].image \in Images \cup {0}
          /\ task[t].state = "upgrade" => task[t].from <= task[t].at /\ task[t].at <= task[t].image
          /\ task[t].state # "upgrade" => task[t].held = {}
    BY DEF SchemaInv, Typed, Sensible
  <2>3. \A t \in Tasks : /\ task[t].state # "serve" => traffic[t] = NoTraffic
                         /\ traffic[t].taken <= Len(traffic[t].path)
    BY DEF TrafficInv, TrafficTyped
  <2> QED
    BY <2>1, <2>2, <2>3 DEF TypeOK, SchemaInv, Typed
<1>3. Init => DuplicatesOK
  BY DEF Init, DuplicatesOK
<1> QED
  BY <1>1, <1>2, <1>3, DuplicatesTyped, AlwaysSchemaInv, TrafficNext, PTL DEF Spec

-----------------------------------------------------------------------------
(* Table locks and the transaction of a migration, among all tasks.        *)

(* What a migration has locked nobody else has, and no request uses.       *)
TablesApart ==
    /\ \A s, t \in Tasks : s # t => task[s].held \cap task[t].held = {}
    /\ \A s, t \in Tasks : TablesOf(s) \cap task[t].held = {}

(* Only LockTable adds to what a task has locked. *)
LEMMA HeldStep ==
    ASSUME SchemaInv, [Next]_vars, NEW s \in Tasks, ~LockTable(s)
    PROVE  task'[s].held \subseteq task[s].held
<1> DEFINE Goal == task'[s].held \subseteq task[s].held
<1>0. task = [t \in Tasks |-> task[t]] /\ \A t \in Tasks : Sensible(task[t])
  BY DEF SchemaInv, Typed
<1>1. ASSUME NEW t \in Tasks, NEW r, task' = [task EXCEPT ![t] = r],
             r.held = {} \/ r.held = task[t].held \/ t # s
      PROVE  Goal
  BY <1>0, <1>1
<1>2. ASSUME NEW t \in Tasks, Exit(t) \/ Serve(t)
      PROVE  Goal
  <2> DEFINE r == [Stopped EXCEPT !.state = "serve", !.image = task[t].image]
  <2>1. Stopped.held = {} /\ r.held = {}
    BY DEF Stopped
  <2>2. task' = [task EXCEPT ![t] = Stopped] \/ task' = [task EXCEPT ![t] = r]
    BY <1>2 DEF Exit, Serve
  <2> HIDE DEF r, Goal
  <2> QED
    BY <1>1, <2>1, <2>2
<1>3. ASSUME NEW t \in Tasks, StartTask(t) \/ ReplaceTask(t) \/ Crash(t)
      PROVE  Goal
  <2> DEFINE r == [Stopped EXCEPT !.state = "start", !.image = image]
  <2>1. Stopped.held = {} /\ r.held = {}
    BY DEF Stopped
  <2>2. task' = [task EXCEPT ![t] = Stopped] \/ task' = [task EXCEPT ![t] = r]
    BY <1>3 DEF StartTask, ReplaceTask, Crash
  <2> HIDE DEF r, Goal
  <2> QED
    BY <1>1, <2>1, <2>2
<1>4. ASSUME NEW t \in Tasks,
             task' = [task EXCEPT ![t].state = "upgrade", ![t].from = version, ![t].at = version]
      PROVE  Goal
  <2> DEFINE r == [task[t] EXCEPT !.state = "upgrade", !.from = version, !.at = version]
  <2>1. r.held = task[t].held
    BY <1>0 DEF Sensible
  <2>2. task' = [task EXCEPT ![t] = r]
    BY <1>0, <1>4 DEF Sensible
  <2> HIDE DEF r, Goal
  <2> QED
    BY <1>1, <2>1, <2>2
<1>5. ASSUME NEW t \in Tasks, NEW view,
             task' = [task EXCEPT ![t].at = @ + 1, ![t].view = view]
      PROVE  Goal
  <2> DEFINE r == [task[t] EXCEPT !.at = @ + 1, !.view = view]
  <2>1. r.held = task[t].held
    BY <1>0 DEF Sensible
  <2>2. task' = [task EXCEPT ![t] = r]
    BY <1>0, <1>5 DEF Sensible
  <2> HIDE DEF r, Goal
  <2> QED
    BY <1>1, <2>1, <2>2
<1>6. ASSUME NEW t \in Tasks, LockTable(t)
      PROVE  Goal
  BY <1>0, <1>6 DEF LockTable
<1>7. ASSUME UNCHANGED task
      PROVE  Goal
  BY <1>7
<1>11. ASSUME NEW t \in Tasks, AskForTable(t)
       PROVE  Goal
  BY <1>0, <1>11 DEF AskForTable, Sensible
<1> HIDE DEF Goal
<1>8. ASSUME NEW t \in Tasks, Migrate(t)
      PROVE  Goal
  BY <1>2, <1>4, <1>5, <1>6, <1>8, <1>11 DEF Migrate, ReadVersion, ApplyRevision, CommitUpgrade
<1>9. ASSUME NEW t \in Tasks, DeadlockAbort(t)
      PROVE  Goal
  BY <1>2, <1>7, <1>9 DEF DeadlockAbort, AbortMigration, AbortRequest
<1>10. Goal
  BY <1>3, <1>7, <1>8, <1>9
     DEF Next, vars, UseTable, EndTransaction, BeginTransaction, Deploy, Downgrade,
         SubscriptionsChange
<1> QED
  BY <1>10 DEF Goal

(* A transaction of task s comes to use a table that it may use. *)
Takes(s, table) ==
    /\ task[s].state = "serve" /\ Usable(table, s)
    /\ TablesOf(s)' \subseteq TablesOf(s) \cup {table}

(* Tables are added to a transaction one by one.                           *)
LEMMA TrafficStep ==
    ASSUME SchemaInv, TrafficInv, [Next]_vars, NEW s \in Tasks
    PROVE  TablesOf(s)' \subseteq TablesOf(s) \/ \E table : Takes(s, table)
<1> DEFINE Goal == TablesOf(s)' \subseteq TablesOf(s) \/ \E table : Takes(s, table)
<1>0. traffic = [t \in Tasks |-> traffic[t]] /\ \A t \in Tasks : TrafficTyped(traffic[t])
  BY DEF TrafficInv
<1>1. CASE traffic'[s].taken = 0
  <2>1. TablesOf(s)' = {}
    BY <1>1 DEF TablesOf
  <2> QED
    BY <2>1
<1>2. CASE traffic'[s] = traffic[s]
  BY <1>2 DEF TablesOf
<1>3. ASSUME NEW t \in Tasks, traffic' = [traffic EXCEPT ![t] = NoTraffic]
      PROVE  Goal
  <2>1. traffic'[s].taken = 0 \/ traffic'[s] = traffic[s]
    BY <1>0, <1>3 DEF NoTraffic
  <2> QED
    BY <1>1, <1>2, <2>1
<1>4. ASSUME NEW t \in Tasks, NEW path \in Paths, BeginTransaction(t, path)
      PROVE  Goal
  <2>1. CASE t # s
    <3>1. traffic'[s] = traffic[s]
      BY <1>0, <1>4, <2>1 DEF BeginTransaction
    <3> QED
      BY <1>2, <3>1
  <2>2. CASE t = s
    <3>1. traffic'[s] = [path |-> path, taken |-> 1]
      BY <1>0, <1>4, <2>2 DEF BeginTransaction
    <3>2. TablesOf(s)' = {path[1]}
      BY <3>1 DEF TablesOf
    <3>3. Takes(s, path[1])
      BY <1>4, <2>2, <3>2 DEF BeginTransaction, Takes
    <3> QED
      BY <3>3
  <2> QED
    BY <2>1, <2>2
<1>5. ASSUME NEW t \in Tasks, t # s, UseTable(t)
      PROVE  Goal
  <2>1. traffic'[s] = traffic[s]
    BY <1>0, <1>5 DEF UseTable
  <2> QED
    BY <1>2, <2>1
<1>6. ASSUME UseTable(s), NextTable(s) \in schema
      PROVE  Goal
  <2> DEFINE path == traffic[s].path
             n == traffic[s].taken
  <2>1. n \in Nat /\ traffic[s] \in [path : {path}, taken : Nat]
    BY <1>0 DEF TrafficTyped
  <2>2. traffic'[s].path = path /\ traffic'[s].taken = n + 1
    BY <1>0, <1>6, <2>1 DEF UseTable
  <2>3. NextTable(s) = path[n + 1]
    BY <1>6 DEF UseTable, NextTable
  <2>4. TablesOf(s) = {path[i] : i \in 1..n} /\ TablesOf(s)' = {path[i] : i \in 1..(n + 1)}
    BY <2>2 DEF TablesOf
  <2>5. 1..(n + 1) = 1..n \cup {n + 1}
    BY <2>1
  <2> HIDE DEF path, n
  <2>6. {path[i] : i \in 1..(n + 1)} \subseteq {path[i] : i \in 1..n} \cup {path[n + 1]}
    BY <2>5
  <2>7. traffic[s] # NoTraffic
    BY <1>6 DEF UseTable, NextTable, NoTraffic
  <2>8. task[s].state = "serve"
    BY <2>7 DEF TrafficInv
  <2>9. Takes(s, NextTable(s))
    BY <1>6, <2>3, <2>4, <2>6, <2>8 DEF UseTable, Takes
  <2> QED
    BY <2>9
<1>7. ASSUME UNCHANGED traffic
      PROVE  Goal
  BY <1>2, <1>7
<1>11. ASSUME UseTable(s), NextTable(s) \notin schema
       PROVE  Goal
  BY <1>3, <1>11 DEF UseTable
<1> HIDE DEF Goal
<1>8. ASSUME NEW t \in Tasks, Migrate(t) \/ StartTask(t)
      PROVE  UNCHANGED traffic
  BY <1>8 DEF Migrate, ReadVersion, AskForTable, LockTable, ApplyRevision, CommitUpgrade, StartTask, Exit
<1>9. ASSUME NEW t \in Tasks, EndTransaction(t) \/ ReplaceTask(t) \/ Crash(t) \/ DeadlockAbort(t)
      PROVE  Goal
  BY <1>3, <1>7, <1>9 DEF EndTransaction, ReplaceTask, Crash, DeadlockAbort, AbortMigration,
                             AbortRequest, Exit
<1>10. Goal
  BY <1>4, <1>5, <1>6, <1>7, <1>8, <1>9, <1>11 DEF Next, vars, Deploy, Downgrade, SubscriptionsChange
<1> QED
  BY <1>10 DEF Goal

LEMMA ApartStep ==
    ASSUME SchemaInv, TrafficInv, TablesApart, [Next]_vars
    PROVE  TablesApart'
<1>1. ASSUME NEW t \in Tasks, LockTable(t)
      PROVE  TablesApart'
  <2> DEFINE table == NextLock(t)
  <2>0. task = [s \in Tasks |-> task[s]] /\ \A s \in Tasks : Sensible(task[s])
    BY DEF SchemaInv, Typed
  <2>1. /\ task'[t].held = task[t].held \cup {table}
        /\ \A s \in Tasks \ {t} : task'[s].held = task[s].held
    BY <1>1, <2>0 DEF LockTable, Sensible
  <2>2. \A s \in Tasks : TablesOf(s)' = TablesOf(s)
    BY <1>1 DEF LockTable, TablesOf
  <2>3. /\ \A s \in Tasks : table \notin TablesOf(s)
        /\ \A s \in Tasks \ {t} : table \notin task[s].held
    BY <1>1 DEF LockTable, InUse, Locked
  <2> HIDE DEF table
  <2>4. \A s, u \in Tasks : s # u => task'[s].held \cap task'[u].held = {}
    BY <2>1, <2>3 DEF TablesApart
  <2>5. \A s, u \in Tasks : TablesOf(s)' \cap task'[u].held = {}
    BY <2>1, <2>2, <2>3 DEF TablesApart
  <2> QED
    BY <2>4, <2>5 DEF TablesApart, TablesOf
<1>2. ASSUME \A t \in Tasks : ~LockTable(t)
      PROVE  TablesApart'
  <2>1. \A t \in Tasks : task'[t].held \subseteq task[t].held
    BY <1>2, HeldStep
  <2>2. ASSUME NEW s \in Tasks, NEW t \in Tasks
        PROVE  TablesOf(s)' \cap task'[t].held = {}
    <3>1. TablesOf(s) \cap task[t].held = {}
      BY DEF TablesApart
    <3>2. ASSUME NEW table, Takes(s, table)
          PROVE  TablesOf(s)' \cap task'[t].held = {}
      <4>1. table \notin task[t].held
        <5>1. CASE t # s
          BY <3>2, <5>1 DEF Takes, Usable, Locked
        <5>2. CASE t = s
          BY <3>2, <5>2 DEF Takes, SchemaInv, Typed, Sensible
        <5> QED
          BY <5>1, <5>2
      <4> QED
        BY <2>1, <3>1, <3>2, <4>1 DEF Takes
    <3>3. CASE TablesOf(s)' \subseteq TablesOf(s)
      BY <2>1, <3>1, <3>3
    <3> QED
      BY <3>2, <3>3, TrafficStep
  <2>3. \A s, t \in Tasks : s # t => task'[s].held \cap task'[t].held = {}
    BY <2>1 DEF TablesApart
  <2> QED
    BY <2>2, <2>3 DEF TablesApart, TablesOf
<1> QED
  BY <1>1, <1>2

(* However many tasks migrate and serve at once, crash or are aborted: no  *)
(* table that a migration has locked is locked by another one or used by a *)
(* request, and only one migration has moved the row of alembic_version.   *)
THEOREM MigrationAlone ==
    Spec => [](TablesApart /\ \A s, t \in Tasks : InFlight(s) /\ InFlight(t) => s = t)
<1>1. Init => TrafficInv
  BY NoTrafficTyped DEF Init, TrafficInv
<1>2. Init => TablesApart
  BY DEF Init, TablesApart, TablesOf, Stopped, NoTraffic
<1>3. SchemaInv => \A s, t \in Tasks : InFlight(s) /\ InFlight(t) => s = t
  BY DEF SchemaInv, Ahead, Moves
<1>4. SchemaInv /\ TrafficInv /\ TablesApart /\ [Next]_vars => TablesApart'
  BY ApartStep
<1> QED
  BY <1>1, <1>2, <1>3, <1>4, AlwaysSchemaInv, TrafficNext, PTL DEF Spec

-----------------------------------------------------------------------------
(* The unique index, from the moment it is built.                          *)

Index == "one active subscription"

(* A migration that has built the index keeps writers out until it commits. *)
Builds(t) ==
    InFlight(t) /\ Index \in task[t].view =>
        ~duplicates /\ (Index \in schema \/ "subscriptions" \in task[t].held)

UniqueInv == IndexMeansUnique /\ \A t \in Tasks : Builds(t)

LEMMA ChainIndex == Chain[8].locks = <<"subscriptions">> /\ Chain[8].again = "fails"
BY DEF Chain, Revision, OneActiveSubscription

(* Revision 0008 locks the subscriptions before it builds the index. *)
LEMMA IndexLocks ==
    ASSUME SchemaInv, NEW t \in Tasks, Busy(t), NextLock(t) = "none", ~FailsAtOnce(t),
           Index \in NextRevision(t).adds
    PROVE  "subscriptions" \in task[t].held
<1>1. task[t].at + 1 \in 1..10
  BY ImagesNat, ChainLength DEF SchemaInv, Typed, Sensible, Busy
<1>2. RevisionOf(Index) = 8
  BY DEF RevisionOf, Index
<1>3. task[t].at + 1 = 8
  BY <1>1, <1>2, AddedOnce DEF NextRevision
<1>4. NextRevision(t).locks = <<"subscriptions">> /\ NextRevision(t).again = "fails"
  BY <1>3, ChainIndex DEF NextRevision
<1>5. ~Present(t)
  BY <1>4 DEF FailsAtOnce
<1> DEFINE rest == {i \in DOMAIN NextRevision(t).locks :
                       NextRevision(t).locks[i] \notin task[t].held}
<1>6. SUFFICES ASSUME "subscriptions" \notin task[t].held
               PROVE  FALSE
  OBVIOUS
<1>7. DOMAIN NextRevision(t).locks = {1} /\ rest = {1}
  BY <1>4, <1>6
<1> DEFINE first == CHOOSE i \in rest : \A j \in rest : i <= j
<1>8. first = 1
  BY <1>7
<1>9. NextLock(t) = NextRevision(t).locks[first]
  BY <1>5, <1>7 DEF NextLock
<1> HIDE DEF rest, first
<1>10. NextRevision(t).locks[1] = "subscriptions"
  BY <1>4
<1> QED
  BY <1>8, <1>9, <1>10

(* One task moves, and the database stays as it is. *)
LEMMA UniqueOneTask ==
    ASSUME SchemaInv, UniqueInv, NEW t \in Tasks, NEW r,
           task' = [task EXCEPT ![t] = r], UNCHANGED <<schema, duplicates>>,
           r.state = "upgrade" /\ r.at > r.from /\ Index \in r.view =>
              ~duplicates /\ (Index \in schema \/ "subscriptions" \in r.held)
    PROVE  UniqueInv'
<1>1. task'[t] = r /\ \A s \in Tasks \ {t} : task'[s] = task[s]
  BY DEF SchemaInv, Typed
<1>2. IndexMeansUnique'
  BY DEF UniqueInv, IndexMeansUnique
<1>3. \A s \in Tasks : Builds(s)'
  BY <1>1 DEF UniqueInv, Builds, InFlight
<1> QED
  BY <1>2, <1>3 DEF UniqueInv

LEMMA UniqueKept ==
    ASSUME UniqueInv, UNCHANGED <<schema, duplicates, task>>
    PROVE  UniqueInv'
BY DEF UniqueInv, IndexMeansUnique, Builds, InFlight

LEMMA UniqueExit ==
    ASSUME SchemaInv, UniqueInv, NEW t \in Tasks, UNCHANGED <<schema, duplicates>>,
           task' = [task EXCEPT ![t] = Stopped]
    PROVE  UniqueInv'
BY UniqueOneTask, StoppedSensible

LEMMA UniqueMigrate ==
    ASSUME SchemaInv, UniqueInv, NEW t \in Tasks, Migrate(t)
    PROVE  UniqueInv'
<1>0. /\ Sensible(task[t]) /\ task = [s \in Tasks |-> task[s]]
      /\ Builds(t)
  BY DEF SchemaInv, Typed, UniqueInv
<1>1. CASE Exit(t)
  BY <1>1, UniqueExit DEF Exit
<1>2. ASSUME Serve(t), UNCHANGED <<schema, duplicates>> PROVE UniqueInv'
  <2> DEFINE r == [Stopped EXCEPT !.state = "serve", !.image = task[t].image]
  <2>1. r.state = "serve" /\ task' = [task EXCEPT ![t] = r]
    BY <1>2 DEF Serve, Stopped
  <2> HIDE DEF r
  <2> QED
    BY <1>2, <2>1, UniqueOneTask
<1>3. ASSUME /\ task' = [task EXCEPT ![t].state = "upgrade", ![t].from = version, ![t].at = version]
             /\ UNCHANGED <<schema, duplicates>>
      PROVE  UniqueInv'
  <2> DEFINE r == [task[t] EXCEPT !.state = "upgrade", !.from = version, !.at = version]
  <2>1. r.at = version /\ r.from = version /\ task' = [task EXCEPT ![t] = r]
    BY <1>0, <1>3 DEF Sensible
  <2>2. version \in Nat
    BY ChainLength DEF SchemaInv, Typed
  <2> HIDE DEF r
  <2>3. ~(r.at > r.from)
    BY <2>1, <2>2
  <2> QED
    BY <1>3, <2>1, <2>3, UniqueOneTask
<1>4. CASE ReadVersion(t)
  BY <1>1, <1>2, <1>3, <1>4 DEF ReadVersion
<1>5. CASE AskForTable(t)
  <2> DEFINE r == [task[t] EXCEPT !.asks = NextLock(t)]
  <2>1. /\ r.state = task[t].state /\ r.at = task[t].at /\ r.from = task[t].from
        /\ r.view = task[t].view /\ r.held = task[t].held
        /\ task' = [task EXCEPT ![t] = r]
    BY <1>0, <1>5 DEF AskForTable, Sensible
  <2> HIDE DEF r
  <2> QED
    BY <1>0, <1>5, <2>1, UniqueOneTask DEF AskForTable, Builds, InFlight
<1>6. CASE LockTable(t)
  <2> DEFINE r == [task[t] EXCEPT !.held = @ \cup {NextLock(t)}, !.asks = "none"]
  <2>1. /\ r.state = task[t].state /\ r.at = task[t].at /\ r.from = task[t].from
        /\ r.view = task[t].view /\ task[t].held \subseteq r.held
        /\ task' = [task EXCEPT ![t] = r]
    BY <1>0, <1>6 DEF LockTable, Sensible
  <2> HIDE DEF r
  <2> QED
    BY <1>0, <1>6, <2>1, UniqueOneTask DEF LockTable, Builds, InFlight
<1>7. CASE ApplyRevision(t) /\ ~Exit(t)
  <2> DEFINE view == ViewOf(t) \cup NextRevision(t).adds
             r == [task[t] EXCEPT !.at = @ + 1, !.view = view]
  <2>1. /\ RevisionOK(t) /\ Busy(t) /\ NextLock(t) = "none"
        /\ UNCHANGED <<schema, duplicates>>
        /\ task' = [task EXCEPT ![t].at = @ + 1, ![t].view = view]
    BY <1>7 DEF ApplyRevision
  <2>2. r.view = view /\ r.held = task[t].held /\ task' = [task EXCEPT ![t] = r]
    <3> HIDE DEF view
    <3> QED
      BY <1>0, <2>1 DEF Sensible
  <2>3. ASSUME Index \in view
        PROVE  ~duplicates /\ (Index \in schema \/ "subscriptions" \in task[t].held)
    <3>1. CASE Index \in NextRevision(t).adds
      BY <2>1, <3>1, IndexLocks DEF RevisionOK, RowsFit, Index
    <3>2. CASE Index \in ViewOf(t)
      BY <1>0, <3>2 DEF ViewOf, Builds, UniqueInv, IndexMeansUnique, Index
    <3> QED
      BY <2>3, <3>1, <3>2
  <2> HIDE DEF r
  <2> QED
    BY <2>1, <2>2, <2>3, UniqueOneTask
<1>8. CASE CommitUpgrade(t)
  <2>1. InFlight(t)
    BY <1>0, <1>8, ImagesNat, ChainLength DEF CommitUpgrade, Sensible, InFlight
  <2>2. \A s \in Tasks \ {t} : ~InFlight(s)
    BY <2>1 DEF SchemaInv, Ahead, Moves
  <2>3. IndexMeansUnique'
    BY <1>0, <1>8, <2>1 DEF CommitUpgrade, Builds, IndexMeansUnique, Index
  <2>4. task'[t].state = "serve" /\ \A s \in Tasks \ {t} : task'[s] = task[s]
    BY <1>0, <1>8 DEF CommitUpgrade, Serve, Stopped
  <2>5. \A s \in Tasks : Builds(s)'
    BY <2>2, <2>4 DEF Builds, InFlight
  <2> QED
    BY <2>3, <2>5 DEF UniqueInv
<1> QED
  BY <1>1, <1>4, <1>5, <1>6, <1>7, <1>8 DEF Migrate

LEMMA UniqueNext == SchemaInv /\ UniqueInv /\ [Next]_vars => UniqueInv'
<1> SUFFICES ASSUME SchemaInv, UniqueInv, [Next]_vars PROVE UniqueInv'
  OBVIOUS
<1>1. CASE UNCHANGED vars
  BY <1>1, UniqueKept DEF vars
<1>2. ASSUME NEW t \in Tasks, Migrate(t) PROVE UniqueInv'
  BY <1>2, UniqueMigrate
<1>3. ASSUME NEW t \in Tasks, StartTask(t) PROVE UniqueInv'
  <2> DEFINE r == [Stopped EXCEPT !.state = "start", !.image = image]
  <2>1. r.state = "start" /\ task' = [task EXCEPT ![t] = r] /\ UNCHANGED <<schema, duplicates>>
    BY <1>3 DEF StartTask, Stopped
  <2> HIDE DEF r
  <2> QED
    BY <2>1, UniqueOneTask
<1>4. ASSUME NEW t \in Tasks, ReplaceTask(t) \/ Crash(t) \/ AbortMigration(t) PROVE UniqueInv'
  BY <1>4, UniqueExit DEF ReplaceTask, Crash, AbortMigration, Exit
<1>5. ASSUME NEW t \in Tasks,
             AbortRequest(t) \/ UseTable(t) \/ EndTransaction(t)
                \/ \E path \in Paths : BeginTransaction(t, path)
      PROVE  UniqueInv'
  BY <1>5, UniqueKept DEF AbortRequest, UseTable, EndTransaction, BeginTransaction
<1>6. ASSUME NEW i \in Images, Deploy(i) PROVE UniqueInv'
  BY <1>6, UniqueKept DEF Deploy
<1>7. CASE Downgrade
  <2>1. \A t \in Tasks : ~InFlight(t) /\ task'[t] = task[t]
    BY <1>7 DEF Downgrade
  <2>2. schema' \subseteq schema /\ (duplicates' => duplicates)
    BY <1>7 DEF Downgrade
  <2> QED
    BY <2>1, <2>2 DEF UniqueInv, IndexMeansUnique, Builds, InFlight
<1>8. CASE SubscriptionsChange
  <2>1. /\ Index \notin schema /\ schema' = schema /\ task' = task
        /\ \A t \in Tasks : "subscriptions" \notin task[t].held
    BY <1>8 DEF SubscriptionsChange, MayRepeat, Index
  <2> QED
    BY <2>1 DEF UniqueInv, IndexMeansUnique, Builds, InFlight, Index
<1> QED
  BY <1>1, <1>2, <1>3, <1>4, <1>5, <1>6, <1>7, <1>8 DEF Next, DeadlockAbort

(* Where the index of revision 0008 is, no user has two active             *)
(* subscriptions, although tasks of older images write them until the      *)
(* migration commits: it holds their table from the index to the commit.   *)
THEOREM UniqueUnderIndex == Spec => []IndexMeansUnique
<1>1. Init => UniqueInv
  <2> SUFFICES ASSUME Init PROVE UniqueInv
    OBVIOUS
  <2>1. \A t \in Tasks : ~InFlight(t)
    BY DEF Init, Stopped, InFlight
  <2>2. IndexMeansUnique
    BY DEF Init, MayRepeat, IndexMeansUnique
  <2> QED
    BY <2>1, <2>2 DEF UniqueInv, Builds
<1>2. UniqueInv => IndexMeansUnique
  BY DEF UniqueInv
<1> QED
  BY <1>1, <1>2, AlwaysSchemaInv, UniqueNext, PTL DEF Spec

=============================================================================
