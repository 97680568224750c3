------------------------------- MODULE Publishing -------------------------------
(***************************************************************************)
(* Sites and their publication: app/services/site_service.py,              *)
(* plan_policy_service.py and the publish, status and list endpoints of    *)
(* app/api/v1/sites.py.                                                    *)
(*                                                                         *)
(*   publish, local   idle -> publish -> write -> idle                     *)
(*   publish, AWS     idle -> publish -> idle, and a pipeline runs         *)
(*   update, delete   idle -> ... -> idle                                  *)
(*   sync             idle -> poll -> sync -> idle                         *)
(*                                                                         *)
(* Every request reads the site row first, without a lock, and writes it   *)
(* later.  Only "write" is inside a lock: that of the user's subscription. *)
(* The pipeline (Step Functions) and its status table (DynamoDB) are       *)
(* outside the repository.                                                 *)
(***************************************************************************)
EXTENDS Naturals, FiniteSets

CONSTANTS
    Users, Sites, Requests, Runs,   \* users, sites rows, HTTP calls, executions
    Plans, MaxSites, CanPublish,    \* the plans table
    Modules, Types, TypeOf,         \* VALID_SITE_MODULE_PAIRS
    None,                           \* NULL
    AwsEnabled                      \* STEP_FUNCTIONS_ARN is set

ASSUME PublishingAssumption ==
    /\ MaxSites \in [Plans -> Nat] /\ CanPublish \in [Plans -> BOOLEAN]
    /\ TypeOf \in [Modules -> Types]
    /\ \A m, n \in Modules : TypeOf[m] = TypeOf[n] => m = n
    /\ None \notin Users \cup Sites \cup Requests \cup Modules \cup Types
    /\ AwsEnabled \in BOOLEAN
    /\ IsFiniteSet(Sites)

VARIABLES
    plan,      \* plan[u]: the plan of the user's active subscription
    site,      \* site[s]: the sites row, or NoSite
    pc,        \* pc[r]: where request r is
    job,       \* job[r]: what request r was asked for and what it has read
    run,       \* run[x]: a pipeline execution, or NoRun
    item,      \* item[s]: publish_status of the site in DynamoDB
    deployed   \* sites some execution has put online

vars == <<plan, site, pc, job, run, item, deployed>>
pipeline == <<run, item, deployed>>

SiteRow == [owner : Users, deleted : BOOLEAN, published : BOOLEAN,
            module : Modules, type : Types]
NoSite == [owner |-> None, deleted |-> FALSE, published |-> FALSE,
           module |-> None, type |-> None]
Job == [user : Users, site : Sites, module : Modules \cup {None},
        seen : [module : Modules, type : Types]]
NoJob == [user |-> None, site |-> None, module |-> None,
          seen |-> [module |-> None, type |-> None]]
NoRun == [site |-> None, state |-> "none"]

TypeOK ==
    /\ plan \in [Users -> Plans]
    /\ site \in [Sites -> SiteRow \cup {NoSite}]
    /\ pc \in [Requests -> {"idle", "publish", "write", "update", "delete", "poll",
                            "sync"}]
    /\ job \in [Requests -> Job \cup {NoJob}]
    /\ \A r \in Requests :
          /\ pc[r] = "idle" <=> job[r] = NoJob
          /\ pc[r] # "idle" => site[job[r].site].owner = job[r].user
          /\ pc[r] = "update" <=> job[r].module # None
    /\ run \in [Runs -> [site : Sites, state : {"started", "building", "done"}] \cup {NoRun}]
    /\ item \in [Sites -> {"none", "building", "published", "failed"}]
    /\ deployed \in SUBSET Sites

Init ==
    /\ plan \in [Users -> Plans]
    /\ site = [s \in Sites |-> NoSite]
    /\ pc = [r \in Requests |-> "idle"]
    /\ job = [r \in Requests |-> NoJob]
    /\ run = [x \in Runs |-> NoRun]
    /\ item = [s \in Sites |-> "none"]
    /\ deployed = {}

-----------------------------------------------------------------------------
HoldsSubscription(r, u) == pc[r] = "write" /\ job[r].user = u

(* Mutant: get_active_by_user_id instead of get_active_by_user_id_for_update. *)
Unlocked(r, u) == TRUE

SubscriptionFree(r, u) == \A q \in Requests \ {r} : ~HoldsSubscription(q, u)

(* Mutant: get_active_site_by_id, without the owner. *)
ActiveOfAnybody(u, s) == site[s] # NoSite /\ ~site[s].deleted

(* get_active_site_by_id_and_owner *)
Active(u, s) == site[s].owner = u /\ ~site[s].deleted

ActiveSites(u) == {s \in Sites : Active(u, s)}

PublishedSites(u) == {s \in ActiveSites(u) : site[s].published}

(* require_can_publish_site *)
MayPublish(u) == CanPublish[plan[u]] /\ Cardinality(PublishedSites(u)) < MaxSites[plan[u]]

(* check_publish_availability *)
Available(u) == CanPublish[plan[u]]

End(r) ==
    /\ pc' = [pc EXCEPT ![r] = "idle"]
    /\ job' = [job EXCEPT ![r] = NoJob]

(* A request finds the site, and keeps what it has read. *)
Start(r, at, u, s, m) ==
    /\ pc[r] = "idle"
    /\ Active(u, s)
    /\ pc' = [pc EXCEPT ![r] = at]
    /\ job' = [job EXCEPT ![r] = [user |-> u, site |-> s, module |-> m,
                  seen |-> [module |-> site[s].module, type |-> site[s].type]]]
    /\ UNCHANGED <<plan, site>>
    /\ UNCHANGED pipeline

-----------------------------------------------------------------------------
(* POST /sites: the subscription is locked, no limit is looked at. *)
CreateSite(u, s, m) ==
    /\ SubscriptionFree(None, u)
    /\ site[s] = NoSite
    /\ site' = [site EXCEPT ![s] = [owner |-> u, deleted |-> FALSE, published |-> FALSE,
                                    module |-> m, type |-> TypeOf[m]]]
    /\ UNCHANGED <<plan, pc, job>>
    /\ UNCHANGED pipeline

(* POST /sites/{id}/publish: check_publish_availability must find site and *)
(* plan; what it answers is not looked at.                                 *)
BeginPublish(r, u, s) == Start(r, "publish", u, s, None)

(* Local mode: the policy, with the subscription locked. *)
RefusePublish(r) ==
    /\ pc[r] = "publish" /\ ~AwsEnabled
    /\ SubscriptionFree(r, job[r].user) /\ ~MayPublish(job[r].user)
    /\ End(r)
    /\ UNCHANGED <<plan, site, run, item, deployed>>

AllowPublish(r) ==
    /\ pc[r] = "publish" /\ ~AwsEnabled
    /\ SubscriptionFree(r, job[r].user) /\ MayPublish(job[r].user)
    /\ pc' = [pc EXCEPT ![r] = "write"]
    /\ UNCHANGED <<plan, site, job, run, item, deployed>>

WritePublish(r) ==
    /\ pc[r] = "write"
    /\ site' = [site EXCEPT ![job[r].site].published = TRUE]
    /\ End(r)
    /\ UNCHANGED <<plan, run, item, deployed>>

(* AWS mode: read or upload the contract in S3 (503 or 422 otherwise: see  *)
(* Fail), then start an execution.                                         *)
StartPipeline(r, x) ==
    /\ pc[r] = "publish" /\ AwsEnabled
    /\ run[x] = NoRun
    /\ run' = [run EXCEPT ![x] = [site |-> job[r].site, state |-> "started"]]
    /\ End(r)
    /\ UNCHANGED <<plan, site, item, deployed>>

-----------------------------------------------------------------------------
(* Mutant: the status is read from a field that does not exist. *)
ReportedWrongField(s) == "unknown"

(* _get_pipeline_status: the DynamoDB item, else the running executions. *)
Reported(s) ==
    CASE item[s] = "building"  -> "running"
      [] item[s] = "published" -> "published"
      [] item[s] = "failed"    -> "generation_failed"
      [] OTHER -> IF \E x \in Runs : run[x].site = s /\ run[x].state # "done"
                  THEN "building" ELSE "unknown"

(* Mutant: every status is taken for a success. *)
BeginSyncAlways(r, u, s) ==
    (AwsEnabled \/ ~site[s].published) /\ Start(r, "poll", u, s, None)

(* GET /sites/{id}/pipeline/status, which answers for itself in local mode, *)
(* and GET /sites, for a site it has not found published, have read the     *)
(* status.  (Of a site that is not the caller's own and active they read it *)
(* too, and ReadSync would find nothing: left out.)                         *)
BeginSync(r, u, s) ==
    /\ Reported(s) = "published"
    /\ AwsEnabled \/ ~site[s].published
    /\ Start(r, "poll", u, s, None)

(* sync_published_from_pipeline reads the site again; GET /sites runs it as *)
(* a background task.                                                       *)
ReadSync(r) ==
    /\ pc[r] = "poll"
    /\ Active(job[r].user, job[r].site) /\ ~site[job[r].site].published
    /\ pc' = [pc EXCEPT ![r] = "sync"]
    /\ UNCHANGED <<plan, site, job, run, item, deployed>>

NothingToSync(r) ==
    /\ pc[r] = "poll"
    /\ ~Active(job[r].user, job[r].site) \/ site[job[r].site].published
    /\ End(r)
    /\ UNCHANGED <<plan, site, run, item, deployed>>

WriteSync(r) ==
    /\ pc[r] = "sync"
    /\ site' = [site EXCEPT ![job[r].site].published = TRUE]
    /\ End(r)
    /\ UNCHANGED <<plan, run, item, deployed>>

-----------------------------------------------------------------------------
(* PATCH /sites/{id}; the payload is a valid pair. *)
BeginUpdate(r, u, s, m) == Start(r, "update", u, s, m)

(* Mutant: the type is left as it is. *)
WriteUpdateModule(r) ==
    /\ pc[r] = "update"
    /\ site' = [site EXCEPT ![job[r].site].module = job[r].module]
    /\ End(r)
    /\ UNCHANGED <<plan, run, item, deployed>>

(* The session writes only the columns that differ from what was read. *)
WriteUpdate(r) ==
    LET j == job[r]
        Column(new, seen, stored) == IF new # seen THEN new ELSE stored
    IN  /\ pc[r] = "update"
        /\ site' = [site EXCEPT ![j.site].module = Column(j.module, j.seen.module, @),
                                ![j.site].type = Column(TypeOf[j.module], j.seen.type, @)]
        /\ End(r)
        /\ UNCHANGED <<plan, run, item, deployed>>

(* DELETE /sites/{id} *)
BeginDelete(r, u, s) == Start(r, "delete", u, s, None)

WriteDelete(r) ==
    /\ pc[r] = "delete"
    /\ site' = [site EXCEPT ![job[r].site].deleted = TRUE]
    /\ End(r)
    /\ UNCHANGED <<plan, run, item, deployed>>

(* Billing's change_plan, under the subscription lock. *)
ChangePlan(u, p) ==
    /\ SubscriptionFree(None, u) /\ p # plan[u]
    /\ plan' = [plan EXCEPT ![u] = p]
    /\ UNCHANGED <<site, pc, job>>
    /\ UNCHANGED pipeline

(* A crash, a database error, or an AWS service that refuses: no write. *)
Fail(r) ==
    /\ pc[r] # "idle"
    /\ End(r)
    /\ UNCHANGED <<plan, site, run, item, deployed>>

-----------------------------------------------------------------------------
(* The pipeline, outside: it builds, and ends well or badly. *)
PipelineBuilds(x) ==
    /\ run[x].state = "started"
    /\ run' = [run EXCEPT ![x].state = "building"]
    /\ item' = [item EXCEPT ![run[x].site] = "building"]
    /\ UNCHANGED <<plan, site, pc, job, deployed>>

PipelineEnds(x, how) ==
    /\ run[x].state = "building"
    /\ run' = [run EXCEPT ![x].state = "done"]
    /\ item' = [item EXCEPT ![run[x].site] = how]
    /\ deployed' = IF how = "published" THEN deployed \cup {run[x].site} ELSE deployed
    /\ UNCHANGED <<plan, site, pc, job>>

-----------------------------------------------------------------------------
Serve(r) ==
    \/ RefusePublish(r) \/ AllowPublish(r) \/ WritePublish(r)
    \/ \E x \in Runs : StartPipeline(r, x)
    \/ ReadSync(r) \/ NothingToSync(r) \/ WriteSync(r) \/ WriteUpdate(r) \/ WriteDelete(r)

Next ==
    \/ \E u \in Users :
          \/ \E s \in Sites, m \in Modules : CreateSite(u, s, m)
          \/ \E p \in Plans : ChangePlan(u, p)
    \/ \E r \in Requests :
          \/ \E u \in Users, s \in Sites :
                \/ BeginPublish(r, u, s) \/ BeginSync(r, u, s) \/ BeginDelete(r, u, s)
                \/ \E m \in Modules : BeginUpdate(r, u, s, m)
          \/ Serve(r) \/ Fail(r)
    \/ \E x \in Runs : PipelineBuilds(x) \/ \E how \in {"published", "failed"} : PipelineEnds(x, how)

Spec == Init /\ [][Next]_vars

(* The owner's browser keeps polling, each request runs on, and not every  *)
(* one of them fails.                                                      *)
FairSpec ==
    /\ Spec
    /\ \A r \in Requests :
          WF_vars(Serve(r) \/ Fail(r)) /\ SF_vars(ReadSync(r)) /\ SF_vars(WriteSync(r))
    /\ \A s \in Sites : SF_vars(\E r \in Requests : BeginSync(r, site[s].owner, s))

-----------------------------------------------------------------------------
(* Site type and module key always are one of the valid pairs, although    *)
(* overlapping updates write single columns over each other.               *)
ValidPair == \A s \in Sites : site[s] # NoSite => site[s].type = TypeOf[site[s].module]

(* Without a pipeline, publishing keeps to the plan (PublishQuota), with   *)
(* publications, deletions and plan changes of one user overlapping.       *)
Online == [u \in Users |-> PublishedSites(u)]

Quota == INSTANCE PublishQuota WITH online <- Online

ImplementsQuota == Quota!Spec

(* With a pipeline, a site counts as published only after an execution put *)
(* it online, whichever execution that was.                                *)
PublishedWasDeployed == \A s \in Sites : site[s].published => s \in deployed

(* A site the pipeline reports as published becomes so in the database, as *)
(* long as it is not deleted and its owner looks at it.                    *)
PublishedIsSynced ==
    \A s \in Sites :
        (item[s] = "published" /\ ~site[s].deleted)
            ~> (site[s].published \/ site[s].deleted \/ item[s] # "published")

(* plan_policy_service.py:32: max_sites is checked when a site is          *)
(* published (and sites.py:975: publishing verifies the plan).             *)
LimitAtPublish ==
    [][\A u \in Users : ~(PublishedSites(u)' \subseteq PublishedSites(u))
         => CanPublish[plan[u]] /\ Cardinality(PublishedSites(u)') <= MaxSites[plan[u]]]_vars

(* API_FEATURE_DEFINITION.md:346: creating a site verifies the plan limit. *)
LimitAtCreate ==
    [][\A u \in Users : ~(ActiveSites(u)' \subseteq ActiveSites(u))
         => Cardinality(ActiveSites(u)') <= MaxSites[plan[u]]]_vars

(* API_FEATURE_DEFINITION.md:414: publish-availability checks beforehand    *)
(* whether a site can be published, so as to enable the button.            *)
AvailabilityHonest ==
    \A u \in Users, s \in Sites :
        Active(u, s) /\ ~site[s].published /\ Available(u) => MayPublish(u)

(* sites.py:1078: polling shows the progress of the execution just started. *)
NoStaleSuccess ==
    \A x \in Runs : run[x].state = "started" => Reported(run[x].site) # "published"
=============================================================================
