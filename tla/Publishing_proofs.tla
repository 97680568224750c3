--------------------------- MODULE Publishing_proofs ---------------------------
(***************************************************************************)
(* Theorems about Publishing, for every set of users, sites, requests and  *)
(* executions, every plan table and every one-to-one table of type/module  *)
(* pairs.                                                                  *)
(***************************************************************************)
EXTENDS Publishing, FiniteSetTheorems, TLAPS

-----------------------------------------------------------------------------
(* The steps of Publishing by what they do to plan, site, pc and job. *)

Begins(r) ==
    \E u \in Users, s \in Sites, m \in Modules \cup {None},
       at \in {"publish", "poll", "update", "delete"} :
          /\ at = "update" <=> m # None
          /\ Start(r, at, u, s, m)

Quits(r) == pc[r] # "idle" /\ End(r) /\ UNCHANGED <<plan, site>>

Marks(r) ==
    /\ pc[r] \in {"write", "sync"}
    /\ site' = [site EXCEPT ![job[r].site].published = TRUE]
    /\ End(r)
    /\ UNCHANGED plan

Allows(r) ==
    /\ pc[r] = "publish" /\ ~AwsEnabled
    /\ SubscriptionFree(r, job[r].user) /\ MayPublish(job[r].user)
    /\ pc' = [pc EXCEPT ![r] = "write"]
    /\ UNCHANGED <<plan, site, job>>

LEMMA StepKinds ==
    ASSUME [Next]_vars
    PROVE  \/ \E u \in Users, s \in Sites, m \in Modules : CreateSite(u, s, m)
           \/ \E u \in Users, p \in Plans : ChangePlan(u, p)
           \/ \E r \in Requests : \/ Begins(r) \/ Quits(r) \/ Marks(r) \/ Allows(r)
                                  \/ ReadSync(r) \/ WriteUpdate(r) \/ WriteDelete(r)
           \/ UNCHANGED <<plan, site, pc, job>>
<1>1. ASSUME NEW r \in Requests, NEW u \in Users, NEW s \in Sites,
             \/ BeginPublish(r, u, s) \/ BeginSync(r, u, s) \/ BeginDelete(r, u, s)
      PROVE  Begins(r)
  BY <1>1 DEF BeginPublish, BeginSync, BeginDelete, Begins
<1>2. ASSUME NEW r \in Requests, NEW u \in Users, NEW s \in Sites, NEW m \in Modules,
             BeginUpdate(r, u, s, m)
      PROVE  Begins(r)
  <2>1. m # None
    BY PublishingAssumption
  <2>2. QED
    BY <1>2, <2>1 DEF BeginUpdate, Begins
<1>3. ASSUME NEW r \in Requests, RefusePublish(r) \/ NothingToSync(r) \/ Fail(r)
             \/ \E x \in Runs : StartPipeline(r, x)
      PROVE  Quits(r)
  BY <1>3 DEF RefusePublish, NothingToSync, Fail, StartPipeline, Quits
<1>4. ASSUME NEW r \in Requests, WritePublish(r) \/ WriteSync(r)
      PROVE  Marks(r)
  BY <1>4 DEF WritePublish, WriteSync, Marks
<1>5. ASSUME NEW r \in Requests, AllowPublish(r)
      PROVE  Allows(r)
  BY <1>5 DEF AllowPublish, Allows
<1>6. ASSUME NEW x \in Runs,
             PipelineBuilds(x) \/ \E how \in {"published", "failed"} : PipelineEnds(x, how)
      PROVE  UNCHANGED <<plan, site, pc, job>>
  BY <1>6 DEF PipelineBuilds, PipelineEnds
<1>7. CASE UNCHANGED vars
  BY <1>7 DEF vars
<1>8. QED
  BY <1>1, <1>2, <1>3, <1>4, <1>5, <1>6, <1>7 DEF Next, Serve

-----------------------------------------------------------------------------
(* Rows: no step takes a row away or gives it to somebody else. *)

RowsKept == \A s \in Sites : site[s] # NoSite =>
                site'[s] \in SiteRow /\ site'[s].owner = site[s].owner

LEMMA JobSite ==
    ASSUME TypeOK, NEW r \in Requests, pc[r] # "idle"
    PROVE  /\ job[r] \in Job
           /\ site[job[r].site] \in SiteRow
           /\ site[job[r].site].owner = job[r].user
<1>1. job[r] \in Job
  BY DEF TypeOK
<1>2. job[r].site \in Sites /\ job[r].user \in Users /\ site[job[r].site].owner = job[r].user
  BY <1>1 DEF TypeOK, Job
<1>3. job[r].user # None
  BY <1>2, PublishingAssumption
<1>4. site[job[r].site] # NoSite
  BY <1>2, <1>3 DEF NoSite
<1>5. QED
  BY <1>1, <1>2, <1>4 DEF TypeOK

(* What an update stores in a column: its own value if that differs from   *)
(* the one it has read, else what is there by now.                         *)
Written(new, seen, stored) == IF new # seen THEN new ELSE stored

LEMMA UpdatedRow ==
    ASSUME TypeOK, NEW r \in Requests, WriteUpdate(r), site[job[r].site] \in SiteRow,
           job[r].site \in Sites
    PROVE  site' = [site EXCEPT ![job[r].site] =
                      [site[job[r].site] EXCEPT
                         !.module = Written(job[r].module, job[r].seen.module,
                                            site[job[r].site].module),
                         !.type = Written(TypeOf[job[r].module], job[r].seen.type,
                                          site[job[r].site].type)]]
<1> DEFINE s == job[r].site
           old == site[s]
           mm == Written(job[r].module, job[r].seen.module, old.module)
           tt == Written(TypeOf[job[r].module], job[r].seen.type, old.type)
<1>1. site' = [site EXCEPT ![s].module = mm, ![s].type = tt]
  BY DEF WriteUpdate, Written
<1> HIDE DEF mm, tt
<1>2. [site EXCEPT ![s].module = mm, ![s].type = tt]
        = [site EXCEPT ![s] = [old EXCEPT !.module = mm, !.type = tt]]
  BY DEF TypeOK, SiteRow
<1>3. QED
  BY <1>1, <1>2 DEF mm, tt

LEMMA RowStep ==
    ASSUME TypeOK, [Next]_vars
    PROVE  site' \in [Sites -> SiteRow \cup {NoSite}] /\ RowsKept
<1> USE PublishingAssumption DEF RowsKept
<1>0. site \in [Sites -> SiteRow \cup {NoSite}]
  BY DEF TypeOK
<1>1. ASSUME NEW u \in Users, NEW s \in Sites, NEW m \in Modules, CreateSite(u, s, m)
      PROVE  site' \in [Sites -> SiteRow \cup {NoSite}] /\ RowsKept
  <2> DEFINE new == [owner |-> u, deleted |-> FALSE, published |-> FALSE,
                     module |-> m, type |-> TypeOf[m]]
  <2>1. new \in SiteRow
    BY DEF SiteRow
  <2>2. site[s] = NoSite /\ site' = [site EXCEPT ![s] = new]
    BY <1>1 DEF CreateSite
  <2> HIDE DEF new
  <2>3. QED
    BY <1>0, <2>1, <2>2
<1>2. ASSUME NEW r \in Requests, Marks(r) \/ WriteUpdate(r) \/ WriteDelete(r)
      PROVE  site' \in [Sites -> SiteRow \cup {NoSite}] /\ RowsKept
  <2> DEFINE s == job[r].site
             old == site[s]
  <2>1. pc[r] # "idle"
    BY <1>2 DEF Marks, WriteUpdate, WriteDelete
  <2>2. job[r] \in Job /\ s \in Sites /\ old \in SiteRow
    BY <2>1, JobSite DEF Job
  <2>3. CASE Marks(r)
    <3>1. [old EXCEPT !.published = TRUE] \in SiteRow
          /\ [old EXCEPT !.published = TRUE].owner = old.owner
      BY <2>2 DEF SiteRow
    <3>2. site' = [site EXCEPT ![s] = [old EXCEPT !.published = TRUE]]
      BY <2>3 DEF Marks
    <3>3. QED
      BY <1>0, <2>2, <3>1, <3>2
  <2>4. CASE WriteDelete(r)
    <3>1. [old EXCEPT !.deleted = TRUE] \in SiteRow
          /\ [old EXCEPT !.deleted = TRUE].owner = old.owner
      BY <2>2 DEF SiteRow
    <3>2. site' = [site EXCEPT ![s] = [old EXCEPT !.deleted = TRUE]]
      BY <2>4 DEF WriteDelete
    <3>3. QED
      BY <1>0, <2>2, <3>1, <3>2
  <2>5. CASE WriteUpdate(r)
    <3> DEFINE mm == Written(job[r].module, job[r].seen.module, old.module)
               tt == Written(TypeOf[job[r].module], job[r].seen.type, old.type)
    <3>1. job[r].module \in Modules
      BY <2>2, <2>5 DEF TypeOK, WriteUpdate, Job
    <3>2. site' = [site EXCEPT ![s] = [old EXCEPT !.module = mm, !.type = tt]]
      BY <2>2, <2>5, UpdatedRow
    <3>3. mm \in Modules /\ tt \in Types
      BY <2>2, <3>1 DEF SiteRow, Written
    <3>4. [old EXCEPT !.module = mm, !.type = tt] \in SiteRow
          /\ [old EXCEPT !.module = mm, !.type = tt].owner = old.owner
      BY <2>2, <3>3 DEF SiteRow
    <3>5. QED
      BY <1>0, <2>2, <3>2, <3>4
  <2>6. QED
    BY <1>2, <2>3, <2>4, <2>5
<1>3. CASE UNCHANGED site
  BY <1>0, <1>3
<1>4. ASSUME NEW r \in Requests, Begins(r) \/ Quits(r) \/ Allows(r) \/ ReadSync(r)
      PROVE  UNCHANGED site
  BY <1>4 DEF Begins, Start, Quits, Allows, ReadSync
<1>5. ASSUME NEW u \in Users, NEW p \in Plans, ChangePlan(u, p)
      PROVE  UNCHANGED site
  BY <1>5 DEF ChangePlan
<1>6. QED
  BY StepKinds, <1>1, <1>2, <1>3, <1>4, <1>5

-----------------------------------------------------------------------------
LEMMA JobStep ==
    ASSUME TypeOK, [Next]_vars
    PROVE  /\ pc' \in [Requests -> {"idle", "publish", "write", "update", "delete", "poll",
                             "sync"}]
           /\ job' \in [Requests -> Job \cup {NoJob}]
           /\ \A r \in Requests :
                 /\ pc'[r] = "idle" <=> job'[r] = NoJob
                 /\ pc'[r] # "idle" => site'[job'[r].site].owner = job'[r].user
                 /\ pc'[r] = "update" <=> job'[r].module # None
<1> DEFINE Goal == /\ pc' \in [Requests -> {"idle", "publish", "write", "update", "delete", "poll",
                             "sync"}]
                   /\ job' \in [Requests -> Job \cup {NoJob}]
                   /\ \A r \in Requests :
                         /\ pc'[r] = "idle" <=> job'[r] = NoJob
                         /\ pc'[r] # "idle" => site[job'[r].site].owner = job'[r].user
                                               /\ site[job'[r].site] # NoSite
                                               /\ job'[r].site \in Sites
                         /\ pc'[r] = "update" <=> job'[r].module # None
<1>0. \A r \in Requests : pc[r] # "idle" =>
          site[job[r].site] # NoSite /\ job[r].site \in Sites
  BY JobSite, PublishingAssumption DEF SiteRow, NoSite, Job
<1>1. ASSUME NEW r \in Requests, Begins(r)
      PROVE  Goal
  <2>1. PICK u \in Users, s \in Sites, m \in Modules \cup {None},
             at \in {"publish", "poll", "update", "delete"} :
               (at = "update" <=> m # None) /\ Start(r, at, u, s, m)
    BY <1>1 DEF Begins
  <2> DEFINE new == [user |-> u, site |-> s, module |-> m,
                     seen |-> [module |-> site[s].module, type |-> site[s].type]]
  <2>2. site[s] \in SiteRow /\ site[s].owner = u /\ site[s] # NoSite
    BY <2>1, PublishingAssumption DEF TypeOK, Start, Active, NoSite
  <2>3. new \in Job /\ new # NoJob
    BY <2>2, PublishingAssumption DEF Job, SiteRow, NoJob
  <2>4. pc' = [pc EXCEPT ![r] = at] /\ job' = [job EXCEPT ![r] = new]
    BY <2>1 DEF Start
  <2>5. new.user = u /\ new.site = s /\ new.module = m
    OBVIOUS
  <2> HIDE DEF new
  <2>6. QED
    BY <1>0, <2>1, <2>2, <2>3, <2>4, <2>5 DEF TypeOK
<1>2. ASSUME NEW r \in Requests, End(r)
      PROVE  Goal
  BY <1>0, <1>2 DEF End, TypeOK, NoJob
<1>3. ASSUME NEW r \in Requests, Quits(r) \/ Marks(r) \/ WriteUpdate(r) \/ WriteDelete(r)
      PROVE  Goal
  BY <1>2, <1>3 DEF Quits, Marks, WriteUpdate, WriteDelete
<1>4. ASSUME NEW r \in Requests, Allows(r) \/ ReadSync(r)
      PROVE  Goal
  BY <1>0, <1>4 DEF Allows, ReadSync, TypeOK
<1>5. ASSUME UNCHANGED <<pc, job>>
      PROVE  Goal
  BY <1>0, <1>5 DEF TypeOK
<1>6. Goal
  <2>1. ASSUME NEW u \in Users, NEW s \in Sites, NEW m \in Modules, CreateSite(u, s, m)
        PROVE  UNCHANGED <<pc, job>>
    BY <2>1 DEF CreateSite
  <2>2. ASSUME NEW u \in Users, NEW p \in Plans, ChangePlan(u, p)
        PROVE  UNCHANGED <<pc, job>>
    BY <2>2 DEF ChangePlan
  <2> HIDE DEF Goal
  <2>3. QED
    BY StepKinds, <1>1, <1>3, <1>4, <1>5, <2>1, <2>2
<1>7. QED
  BY <1>6, RowStep DEF RowsKept

LEMMA PipelineStep ==
    ASSUME TypeOK, [Next]_vars
    PROVE  /\ run' \in [Runs -> [site : Sites, state : {"started", "building", "done"}]
                                \cup {NoRun}]
           /\ item' \in [Sites -> {"none", "building", "published", "failed"}]
           /\ deployed' \in SUBSET Sites
<1> DEFINE RunRow == [site : Sites, state : {"started", "building", "done"}]
           Goal == /\ run' \in [Runs -> RunRow \cup {NoRun}]
                   /\ item' \in [Sites -> {"none", "building", "published", "failed"}]
                   /\ deployed' \in SUBSET Sites
<1>1. ASSUME NEW r \in Requests, NEW x \in Runs, StartPipeline(r, x)
      PROVE  Goal
  <2>1. job[r].site \in Sites
    BY <1>1, JobSite DEF StartPipeline, Job
  <2>2. QED
    BY <1>1, <2>1 DEF StartPipeline, TypeOK
<1>2. ASSUME NEW x \in Runs, run[x].state \in {"started", "building"}
      PROVE  run[x].site \in Sites /\ \A st \in {"building", "done"} :
                [run[x] EXCEPT !.state = st] \in RunRow
  <2>1. run[x] \in RunRow
    BY <1>2 DEF TypeOK, NoRun
  <2>2. QED
    BY <2>1
<1>3. ASSUME NEW x \in Runs, PipelineBuilds(x)
      PROVE  Goal
  <2>1. run' = [run EXCEPT ![x] = [run[x] EXCEPT !.state = "building"]]
    BY <1>3 DEF PipelineBuilds
  <2>2. run[x].site \in Sites /\ [run[x] EXCEPT !.state = "building"] \in RunRow
    BY <1>2, <1>3 DEF PipelineBuilds
  <2>3. QED
    BY <1>3, <2>1, <2>2 DEF PipelineBuilds, TypeOK
<1>4. ASSUME NEW x \in Runs, NEW how \in {"published", "failed"}, PipelineEnds(x, how)
      PROVE  Goal
  <2>1. run' = [run EXCEPT ![x] = [run[x] EXCEPT !.state = "done"]]
    BY <1>4 DEF PipelineEnds
  <2>2. run[x].site \in Sites /\ [run[x] EXCEPT !.state = "done"] \in RunRow
    BY <1>2, <1>4 DEF PipelineEnds
  <2>3. QED
    BY <1>4, <2>1, <2>2 DEF PipelineEnds, TypeOK
<1>5. ASSUME UNCHANGED pipeline
      PROVE  Goal
  BY <1>5 DEF pipeline, TypeOK
<1>6. ASSUME NEW r \in Requests,
             \/ RefusePublish(r) \/ AllowPublish(r) \/ WritePublish(r) \/ WriteSync(r)
             \/ ReadSync(r) \/ NothingToSync(r) \/ WriteUpdate(r) \/ WriteDelete(r) \/ Fail(r)
      PROVE  UNCHANGED pipeline
  BY <1>6 DEF RefusePublish, AllowPublish, WritePublish, ReadSync, NothingToSync, WriteSync,
     WriteUpdate, WriteDelete, Fail, pipeline
<1>7. ASSUME NEW r \in Requests, NEW u \in Users, NEW s \in Sites,
             \/ BeginPublish(r, u, s) \/ BeginSync(r, u, s) \/ BeginDelete(r, u, s)
             \/ \E m \in Modules : BeginUpdate(r, u, s, m)
      PROVE  UNCHANGED pipeline
  BY <1>7 DEF BeginPublish, BeginSync, BeginDelete, BeginUpdate, Start
<1>8. ASSUME NEW u \in Users,
             \/ \E s \in Sites, m \in Modules : CreateSite(u, s, m)
             \/ \E p \in Plans : ChangePlan(u, p)
      PROVE  UNCHANGED pipeline
  BY <1>8 DEF CreateSite, ChangePlan
<1>9. ASSUME UNCHANGED vars
      PROVE  Goal
  BY <1>9, <1>5 DEF vars, pipeline
<1>10. QED
  <2> HIDE DEF Goal
  <2>1. ASSUME NEW r \in Requests, Serve(r) \/ Fail(r)
        PROVE  Goal
    BY <2>1, <1>1, <1>5, <1>6 DEF Serve
  <2>2. ASSUME NEW r \in Requests, NEW u \in Users, NEW s \in Sites,
               \/ BeginPublish(r, u, s) \/ BeginSync(r, u, s) \/ BeginDelete(r, u, s)
               \/ \E m \in Modules : BeginUpdate(r, u, s, m)
        PROVE  Goal
    BY <2>2, <1>5, <1>7
  <2>3. ASSUME NEW u \in Users,
               \/ \E s \in Sites, m \in Modules : CreateSite(u, s, m)
               \/ \E p \in Plans : ChangePlan(u, p)
        PROVE  Goal
    BY <2>3, <1>5, <1>8
  <2>4. Goal
    BY <2>1, <2>2, <2>3, <1>3, <1>4, <1>9 DEF Next
  <2>5. QED
    BY <2>4 DEF Goal

LEMMA TypeStep == ASSUME TypeOK, [Next]_vars PROVE TypeOK'
<1>1. plan' \in [Users -> Plans]
  <2>1. ASSUME NEW u \in Users, NEW p \in Plans, ChangePlan(u, p)
        PROVE  plan' \in [Users -> Plans]
    BY <2>1 DEF ChangePlan, TypeOK
  <2>2. ASSUME UNCHANGED plan
        PROVE  plan' \in [Users -> Plans]
    BY <2>2 DEF TypeOK
  <2>3. ASSUME NEW u \in Users, NEW s \in Sites, NEW m \in Modules, CreateSite(u, s, m)
        PROVE  UNCHANGED plan
    BY <2>3 DEF CreateSite
  <2>4. ASSUME NEW r \in Requests,
               \/ Begins(r) \/ Quits(r) \/ Marks(r) \/ Allows(r) \/ ReadSync(r)
               \/ WriteUpdate(r) \/ WriteDelete(r)
        PROVE  UNCHANGED plan
    BY <2>4 DEF Begins, Start, Quits, Marks, Allows, ReadSync, WriteUpdate, WriteDelete
  <2>5. QED
    BY StepKinds, <2>1, <2>2, <2>3, <2>4
<1>2. QED
  BY <1>1, RowStep, JobStep, PipelineStep DEF TypeOK

LEMMA TypeInit == Init => TypeOK
  BY DEF Init, TypeOK, NoJob, NoRun

(* Type correctness of Publishing. *)
THEOREM TypeCorrect == Spec => []TypeOK
<1>1. TypeOK /\ [Next]_vars => TypeOK'
  BY TypeStep
<1>2. QED
  BY <1>1, TypeInit, PTL DEF Spec

-----------------------------------------------------------------------------
(* Type and module: what a request has read is a pair as well, so an       *)
(* update finds both of its columns changed, or neither.                   *)

PairOf(row) == row.type = TypeOf[row.module]

SeenPair == \A r \in Requests : pc[r] # "idle" => PairOf(job[r].seen)

PairInv == TypeOK /\ ValidPair /\ SeenPair

LEMMA PairInit == Init => PairInv
<1>1. Init => TypeOK
  BY TypeInit
<1>2. Init => ValidPair /\ SeenPair
  BY DEF Init, ValidPair, SeenPair
<1>3. QED
  BY <1>1, <1>2 DEF PairInv

LEMMA UpdateKeepsPair ==
    ASSUME PairInv, NEW r \in Requests, WriteUpdate(r), NEW s \in Sites, site[s] # NoSite
    PROVE  PairOf(site'[s])
<1> DEFINE j == job[r]
           old == site[j.site]
           mm == Written(j.module, j.seen.module, old.module)
           tt == Written(TypeOf[j.module], j.seen.type, old.type)
<1>1. TypeOK /\ pc[r] = "update"
  BY DEF PairInv, WriteUpdate
<1>2. j \in Job /\ j.site \in Sites /\ old \in SiteRow
  BY <1>1, JobSite DEF Job
<1>3. j.module \in Modules /\ j.seen.module \in Modules /\ old.module \in Modules
  BY <1>1, <1>2 DEF TypeOK, Job, SiteRow
<1>4. site' = [site EXCEPT ![j.site] = [old EXCEPT !.module = mm, !.type = tt]]
  BY <1>1, <1>2, UpdatedRow
<1>5. j.seen.type = TypeOf[j.seen.module]
  BY <1>1 DEF PairInv, SeenPair, PairOf
<1>6. old.type = TypeOf[old.module]
  BY <1>2, PublishingAssumption DEF PairInv, ValidPair, SiteRow, NoSite
<1>7. tt = TypeOf[mm]
  <2>1. CASE j.module = j.seen.module
    BY <2>1, <1>5, <1>6 DEF Written
  <2>2. CASE j.module # j.seen.module
    <3>1. TypeOf[j.module] # j.seen.type
      BY <2>2, <1>3, <1>5, PublishingAssumption
    <3>2. QED
      BY <2>2, <3>1 DEF Written
  <2>3. QED
    BY <2>1, <2>2
<1> HIDE DEF mm, tt
<1>8. [old EXCEPT !.module = mm, !.type = tt].module = mm
      /\ [old EXCEPT !.module = mm, !.type = tt].type = tt
  BY <1>2 DEF SiteRow
<1>9. CASE s = j.site
  BY <1>1, <1>2, <1>4, <1>7, <1>8, <1>9 DEF TypeOK, PairOf
<1>10. CASE s # j.site
  BY <1>1, <1>4, <1>10 DEF TypeOK, PairInv, ValidPair, PairOf
<1>11. QED
  BY <1>9, <1>10

LEMMA PairStep == ASSUME PairInv, [Next]_vars PROVE PairInv'
<1>0. TypeOK /\ TypeOK'
  BY TypeStep DEF PairInv
<1>1. ValidPair'
  <2> SUFFICES ASSUME NEW s \in Sites, site'[s] # NoSite PROVE PairOf(site'[s])
    BY DEF ValidPair, PairOf
  <2> USE DEF PairOf
  <2>0. site[s] # NoSite => PairOf(site[s])
    BY DEF PairInv, ValidPair
  <2>1. ASSUME NEW u \in Users, NEW q \in Sites, NEW m \in Modules, CreateSite(u, q, m)
        PROVE  PairOf(site'[s])
    BY <1>0, <2>0, <2>1 DEF CreateSite, TypeOK
  <2>2. ASSUME NEW r \in Requests, Marks(r) \/ WriteDelete(r)
        PROVE  PairOf(site'[s])
    <3>1. pc[r] # "idle"
      BY <2>2 DEF Marks, WriteDelete
    <3>2. job[r].site \in Sites /\ site[job[r].site] \in SiteRow
      BY <1>0, <3>1, JobSite DEF Job
    <3>3. site[job[r].site] # NoSite
      BY <3>2, PublishingAssumption DEF SiteRow, NoSite
    <3>4. CASE s = job[r].site
      <4>1. site'[s] = [site[s] EXCEPT !.published = TRUE]
            \/ site'[s] = [site[s] EXCEPT !.deleted = TRUE]
        BY <1>0, <2>2, <3>4 DEF Marks, WriteDelete, TypeOK
      <4>2. site'[s].type = site[s].type /\ site'[s].module = site[s].module
        BY <3>2, <3>4, <4>1 DEF SiteRow
      <4>3. QED
        BY <2>0, <3>3, <3>4, <4>2
    <3>5. CASE s # job[r].site
      <4>1. site'[s] = site[s]
        BY <1>0, <2>2, <3>5 DEF Marks, WriteDelete, TypeOK
      <4>2. QED
        BY <2>0, <4>1
    <3>6. QED
      BY <3>4, <3>5
  <2>3. ASSUME NEW r \in Requests, WriteUpdate(r)
        PROVE  PairOf(site'[s])
    <3>1. site[s] # NoSite
      <4>1. job[r].site \in Sites /\ site[job[r].site] \in SiteRow
        BY <1>0, <2>3, JobSite DEF Job, WriteUpdate
      <4>2. site[job[r].site] # NoSite
        BY <4>1, PublishingAssumption DEF SiteRow, NoSite
      <4>3. s # job[r].site => site'[s] = site[s]
        BY <1>0, <2>3 DEF WriteUpdate, TypeOK
      <4>4. QED
        BY <4>2, <4>3
    <3>2. QED
      BY <2>3, <3>1, UpdateKeepsPair
  <2>4. ASSUME UNCHANGED site
        PROVE  PairOf(site'[s])
    BY <2>0, <2>4
  <2>5. ASSUME NEW u \in Users, NEW p \in Plans, ChangePlan(u, p)
        PROVE  UNCHANGED site
    BY <2>5 DEF ChangePlan
  <2>6. ASSUME NEW r \in Requests, Begins(r) \/ Quits(r) \/ Allows(r) \/ ReadSync(r)
        PROVE  UNCHANGED site
    BY <2>6 DEF Begins, Start, Quits, Allows, ReadSync
  <2> HIDE DEF PairOf
  <2>7. QED
    BY StepKinds, <2>1, <2>2, <2>3, <2>4, <2>5, <2>6
<1>2. SeenPair'
  <2> SUFFICES ASSUME NEW q \in Requests, pc'[q] # "idle" PROVE PairOf(job'[q].seen)
    BY DEF SeenPair, PairOf
  <2>0. pc[q] # "idle" => PairOf(job[q].seen)
    BY DEF PairInv, SeenPair
  <2>1. ASSUME NEW r \in Requests, Begins(r)
        PROVE  PairOf(job'[q].seen)
    <3>1. PICK u \in Users, s \in Sites, m \in Modules \cup {None},
               at \in {"publish", "poll", "update", "delete"} : Start(r, at, u, s, m)
      BY <2>1 DEF Begins
    <3>2. site[s] # NoSite
      BY <3>1, PublishingAssumption DEF Start, Active, NoSite
    <3>3. PairOf(site[s])
      BY <3>2 DEF PairInv, ValidPair, PairOf
    <3>4. CASE q = r
      <4>1. job'[q].seen = [module |-> site[s].module, type |-> site[s].type]
        BY <1>0, <3>1, <3>4 DEF Start, TypeOK
      <4>2. QED
        BY <3>3, <4>1 DEF PairOf
    <3>5. CASE q # r
      BY <1>0, <2>0, <3>1, <3>5 DEF Start, TypeOK
    <3>6. QED
      BY <3>4, <3>5
  <2>2. ASSUME NEW r \in Requests, End(r)
        PROVE  PairOf(job'[q].seen)
    BY <1>0, <2>0, <2>2 DEF End, TypeOK
  <2>3. ASSUME NEW r \in Requests, Allows(r) \/ ReadSync(r)
        PROVE  PairOf(job'[q].seen)
    BY <1>0, <2>0, <2>3 DEF Allows, ReadSync, TypeOK
  <2>4. ASSUME UNCHANGED <<pc, job>>
        PROVE  PairOf(job'[q].seen)
    BY <2>0, <2>4
  <2>5. ASSUME NEW r \in Requests, Quits(r) \/ Marks(r) \/ WriteUpdate(r) \/ WriteDelete(r)
        PROVE  End(r)
    BY <2>5 DEF Quits, Marks, WriteUpdate, WriteDelete
  <2>6. ASSUME NEW u \in Users, NEW p \in Plans, ChangePlan(u, p)
        PROVE  UNCHANGED <<pc, job>>
    BY <2>6 DEF ChangePlan
  <2>7. ASSUME NEW u \in Users, NEW s \in Sites, NEW m \in Modules, CreateSite(u, s, m)
        PROVE  UNCHANGED <<pc, job>>
    BY <2>7 DEF CreateSite
  <2>8. QED
    BY StepKinds, <2>1, <2>2, <2>3, <2>4, <2>5, <2>6, <2>7
<1>3. QED
  BY <1>0, <1>1, <1>2 DEF PairInv

(* Overlapping updates never leave a type with another type's module: not  *)
(* for three pairs only, but for any table that is one-to-one.             *)
THEOREM PairsStayValid == Spec => []ValidPair
<1>1. PairInv /\ [Next]_vars => PairInv'
  BY PairStep
<1>2. PairInv => ValidPair
  BY DEF PairInv
<1>3. QED
  BY <1>1, <1>2, PairInit, PTL DEF Spec

-----------------------------------------------------------------------------
(* What each kind of step does to the published sites of a user. *)

LEMMA PublishedFinite ==
    ASSUME NEW u, NEW T \in SUBSET PublishedSites(u)
    PROVE  /\ PublishedSites(u) \subseteq Sites
           /\ Cardinality(T) \in Nat /\ Cardinality(PublishedSites(u)) \in Nat
           /\ Cardinality(T) <= Cardinality(PublishedSites(u))
<1>1. PublishedSites(u) \subseteq Sites
  BY DEF PublishedSites, ActiveSites
<1>2. IsFiniteSet(PublishedSites(u))
  BY <1>1, FS_Subset, PublishingAssumption
<1>3. IsFiniteSet(T) /\ Cardinality(T) <= Cardinality(PublishedSites(u))
  BY <1>2, FS_Subset
<1>4. QED
  BY <1>1, <1>2, <1>3, FS_CardinalityType

LEMMA DeleteEffect ==
    ASSUME TypeOK, NEW r \in Requests, WriteDelete(r), NEW u \in Users
    PROVE  PublishedSites(u)' = PublishedSites(u) \ {job[r].site}
<1> DEFINE s == job[r].site
           old == site[s]
<1>1. s \in Sites /\ old \in SiteRow
  BY JobSite DEF WriteDelete, Job
<1>2. site' = [site EXCEPT ![s] = [old EXCEPT !.deleted = TRUE]]
  BY DEF WriteDelete
<1>3. [old EXCEPT !.deleted = TRUE].deleted
  BY <1>1 DEF SiteRow
<1>4. site'[s].deleted /\ \A q \in Sites \ {s} : site'[q] = site[q]
  BY <1>1, <1>2, <1>3 DEF TypeOK
<1>5. QED
  BY <1>1, <1>4 DEF PublishedSites, ActiveSites, Active

LEMMA MarkEffect ==
    ASSUME TypeOK, NEW r \in Requests, Marks(r), NEW u \in Users
    PROVE  IF u = job[r].user
           THEN PublishedSites(u)' \in {PublishedSites(u), PublishedSites(u) \cup {job[r].site}}
           ELSE PublishedSites(u)' = PublishedSites(u)
<1> DEFINE s == job[r].site
           old == site[s]
<1>1. s \in Sites /\ old \in SiteRow /\ old.owner = job[r].user
  BY JobSite DEF Marks, Job
<1>2. site' = [site EXCEPT ![s] = [old EXCEPT !.published = TRUE]]
  BY DEF Marks
<1>3. /\ [old EXCEPT !.published = TRUE].published
      /\ [old EXCEPT !.published = TRUE].owner = old.owner
      /\ [old EXCEPT !.published = TRUE].deleted = old.deleted
  BY <1>1 DEF SiteRow
<1>4. /\ site'[s].published /\ site'[s].owner = old.owner /\ site'[s].deleted = old.deleted
      /\ \A q \in Sites \ {s} : site'[q] = site[q]
  BY <1>1, <1>2, <1>3 DEF TypeOK
<1>5. QED
  BY <1>1, <1>4 DEF PublishedSites, ActiveSites, Active

LEMMA UpdateEffect ==
    ASSUME TypeOK, NEW r \in Requests, WriteUpdate(r), NEW u \in Users
    PROVE  PublishedSites(u)' = PublishedSites(u)
<1> DEFINE s == job[r].site
           old == site[s]
           mm == Written(job[r].module, job[r].seen.module, old.module)
           tt == Written(TypeOf[job[r].module], job[r].seen.type, old.type)
<1>1. s \in Sites /\ old \in SiteRow
  BY JobSite DEF WriteUpdate, Job
<1>2. site' = [site EXCEPT ![s] = [old EXCEPT !.module = mm, !.type = tt]]
  BY <1>1, UpdatedRow
<1> HIDE DEF mm, tt
<1>3. /\ [old EXCEPT !.module = mm, !.type = tt].published = old.published
      /\ [old EXCEPT !.module = mm, !.type = tt].owner = old.owner
      /\ [old EXCEPT !.module = mm, !.type = tt].deleted = old.deleted
  BY <1>1 DEF SiteRow
<1>4. \A q \in Sites : /\ site'[q].published = site[q].published
                       /\ site'[q].owner = site[q].owner
                       /\ site'[q].deleted = site[q].deleted
  BY <1>1, <1>2, <1>3 DEF TypeOK
<1>5. QED
  BY <1>4 DEF PublishedSites, ActiveSites, Active

LEMMA CreateEffect ==
    ASSUME TypeOK, NEW v \in Users, NEW s \in Sites, NEW m \in Modules, CreateSite(v, s, m),
           NEW u \in Users
    PROVE  PublishedSites(u)' = PublishedSites(u)
<1>1. site[s].published = FALSE /\ site'[s].published = FALSE
  BY DEF CreateSite, NoSite, TypeOK
<1>2. \A q \in Sites \ {s} : site'[q] = site[q]
  BY DEF CreateSite, TypeOK
<1>3. QED
  BY <1>1, <1>2 DEF PublishedSites, ActiveSites, Active

LEMMA KeptEffect ==
    ASSUME UNCHANGED site, NEW u \in Users
    PROVE  PublishedSites(u)' = PublishedSites(u)
  BY DEF PublishedSites, ActiveSites, Active

-----------------------------------------------------------------------------
(* Without a pipeline: a publication that has been allowed stays allowed   *)
(* until it is written, for nobody else publishes for the user, or changes *)
(* the plan, while it holds the subscription.                              *)

Allowed == \A r \in Requests : pc[r] = "write" => MayPublish(job[r].user)

OneWriter == \A r, q \in Requests :
                r # q /\ pc[r] = "write" /\ pc[q] = "write" => job[r].user # job[q].user

(* Nothing was ever built, so there is nothing to sync. *)
NoPipeline ==
    /\ \A x \in Runs : run[x] = NoRun
    /\ \A s \in Sites : item[s] = "none"
    /\ \A r \in Requests : pc[r] \notin {"poll", "sync"}

QuotaInv ==
    /\ TypeOK
    /\ NoPipeline
    /\ Allowed
    /\ OneWriter

LEMMA QuotaInit == Init => QuotaInv
<1>1. Init => TypeOK
  BY TypeInit
<1>2. QED
  BY <1>1 DEF Init, QuotaInv, NoPipeline, Allowed, OneWriter

(* Nothing gets worse for u while its plan stays and no site is added. *)
LEMMA StaysAllowed ==
    ASSUME TypeOK, NEW u \in Users, MayPublish(u), plan'[u] = plan[u],
           PublishedSites(u)' \subseteq PublishedSites(u)
    PROVE  MayPublish(u)'
<1>1. Cardinality(PublishedSites(u)') <= Cardinality(PublishedSites(u))
      /\ Cardinality(PublishedSites(u)') \in Nat /\ Cardinality(PublishedSites(u)) \in Nat
  BY PublishedFinite
<1>2. MaxSites[plan[u]] \in Nat
  BY PublishingAssumption DEF TypeOK
<1>3. CanPublish[plan[u]] /\ Cardinality(PublishedSites(u)) < MaxSites[plan[u]]
  BY DEF MayPublish
<1>4. Cardinality(PublishedSites(u)') < MaxSites[plan'[u]]
  BY <1>1, <1>2, <1>3
<1>5. QED
  BY <1>3, <1>4 DEF MayPublish

LEMMA ReportedPublished ==
    ASSUME TypeOK, NEW s \in Sites, Reported(s) = "published"
    PROVE  item[s] = "published"
<1>1. item[s] \in {"none", "building", "published", "failed"}
  BY DEF TypeOK
<1>2. CASE item[s] = "building"
  <2>1. Reported(s) = "running"
    BY <1>2 DEF Reported
  <2>2. QED
    BY <2>1
<1>3. CASE item[s] = "failed"
  <2>1. Reported(s) = "generation_failed"
    BY <1>3 DEF Reported
  <2>2. QED
    BY <2>1
<1>4. CASE item[s] = "none"
  <2>1. Reported(s) = IF \E x \in Runs : run[x].site = s /\ run[x].state # "done"
                      THEN "building" ELSE "unknown"
    BY <1>4 DEF Reported
  <2>2. QED
    BY <2>1
<1>5. QED
  BY <1>1, <1>2, <1>3, <1>4

LEMMA NoPipelineStep ==
    ASSUME ~AwsEnabled, TypeOK, NoPipeline, [Next]_vars
    PROVE  NoPipeline'
<1>1. UNCHANGED <<run, item>>
  <2>1. ASSUME NEW x \in Runs,
               PipelineBuilds(x) \/ \E how \in {"published", "failed"} : PipelineEnds(x, how)
        PROVE  FALSE
    BY <2>1 DEF PipelineBuilds, PipelineEnds, NoPipeline, NoRun
  <2>2. ASSUME NEW r \in Requests, Serve(r) \/ Fail(r)
        PROVE  UNCHANGED <<run, item>>
    BY <2>2 DEF Serve, RefusePublish, AllowPublish, WritePublish, StartPipeline, ReadSync,
       NothingToSync, WriteSync, WriteUpdate, WriteDelete, Fail
  <2>3. ASSUME NEW r \in Requests, NEW u \in Users, NEW s \in Sites,
               \/ BeginPublish(r, u, s) \/ BeginSync(r, u, s) \/ BeginDelete(r, u, s)
               \/ \E m \in Modules : BeginUpdate(r, u, s, m)
        PROVE  UNCHANGED <<run, item>>
    BY <2>3 DEF BeginPublish, BeginSync, BeginDelete, BeginUpdate, Start, pipeline
  <2>4. ASSUME NEW u \in Users,
               \/ \E s \in Sites, m \in Modules : CreateSite(u, s, m)
               \/ \E p \in Plans : ChangePlan(u, p)
        PROVE  UNCHANGED <<run, item>>
    BY <2>4 DEF CreateSite, ChangePlan, pipeline
  <2>5. QED
    BY <2>1, <2>2, <2>3, <2>4 DEF Next, vars
<1>2. ASSUME NEW q \in Requests PROVE pc'[q] \notin {"poll", "sync"}
  <2>0. pc[q] \notin {"poll", "sync"}
    BY DEF NoPipeline
  <2>1. ASSUME NEW r \in Requests, NEW u \in Users, NEW s \in Sites, BeginSync(r, u, s)
        PROVE  FALSE
    BY <2>1, ReportedPublished DEF BeginSync, NoPipeline
  <2>2. ASSUME NEW r \in Requests, NEW u \in Users, NEW s \in Sites,
               NEW at \in {"publish", "update", "delete"}, NEW m, Start(r, at, u, s, m)
        PROVE  pc'[q] \notin {"poll", "sync"}
    BY <2>0, <2>2 DEF Start, TypeOK
  <2>3. ASSUME NEW r \in Requests, NEW u \in Users, NEW s \in Sites,
               \/ BeginPublish(r, u, s) \/ BeginDelete(r, u, s)
               \/ \E m \in Modules : BeginUpdate(r, u, s, m)
        PROVE  pc'[q] \notin {"poll", "sync"}
    BY <2>2, <2>3 DEF BeginPublish, BeginDelete, BeginUpdate
  <2>4. ASSUME NEW r \in Requests, Serve(r) \/ Fail(r)
        PROVE  pc'[q] \notin {"poll", "sync"}
    <3>1. ~ReadSync(r)
      BY DEF ReadSync, NoPipeline
    <3>2. End(r) \/ pc' = [pc EXCEPT ![r] = "write"]
      BY <2>4, <3>1 DEF Serve, RefusePublish, AllowPublish, WritePublish, StartPipeline,
         NothingToSync, WriteSync, WriteUpdate, WriteDelete, Fail
    <3>3. QED
      BY <2>0, <3>2 DEF End, TypeOK
  <2>5. ASSUME UNCHANGED pc
        PROVE  pc'[q] \notin {"poll", "sync"}
    BY <2>0, <2>5
  <2>6. ASSUME NEW u \in Users,
               \/ \E s \in Sites, m \in Modules : CreateSite(u, s, m)
               \/ \E p \in Plans : ChangePlan(u, p)
        PROVE  UNCHANGED pc
    BY <2>6 DEF CreateSite, ChangePlan
  <2>7. ASSUME NEW x \in Runs,
               PipelineBuilds(x) \/ \E how \in {"published", "failed"} : PipelineEnds(x, how)
        PROVE  UNCHANGED pc
    BY <2>7 DEF PipelineBuilds, PipelineEnds
  <2>8. QED
    BY <2>1, <2>3, <2>4, <2>5, <2>6, <2>7 DEF Next, vars
<1>3. QED
  BY <1>1, <1>2 DEF NoPipeline

LEMMA QuotaStep == ASSUME ~AwsEnabled, QuotaInv, [Next]_vars PROVE QuotaInv'
<1>0. TypeOK /\ TypeOK' /\ NoPipeline /\ NoPipeline'
  BY TypeStep, NoPipelineStep DEF QuotaInv
<1>1. ASSUME NEW r \in Requests, End(r)
      PROVE  \A q \in Requests : pc'[q] # "idle" => q # r /\ pc'[q] = pc[q] /\ job'[q] = job[q]
  BY <1>0, <1>1 DEF End, TypeOK
<1>2. ASSUME NEW r \in Requests, Begins(r)
      PROVE  \A q \in Requests : pc'[q] = "write" => pc[q] = "write" /\ job'[q] = job[q]
  <2>1. PICK u \in Users, s \in Sites, m \in Modules \cup {None},
             at \in {"publish", "poll", "update", "delete"} : Start(r, at, u, s, m)
    BY <1>2 DEF Begins
  <2>2. QED
    BY <1>0, <2>1 DEF Start, TypeOK
(* Steps that let nobody start writing. *)
<1>3. ASSUME \A q \in Requests : pc'[q] = "write" => pc[q] = "write" /\ job'[q] = job[q],
             \A q \in Requests, u \in Users : pc'[q] = "write" /\ job[q].user = u =>
                plan'[u] = plan[u] /\ PublishedSites(u)' \subseteq PublishedSites(u)
      PROVE  QuotaInv'
  <2>1. ASSUME NEW q \in Requests, NEW u \in Users, pc'[q] = "write", job'[q].user = u
        PROVE  MayPublish(u)'
    <3>1. pc[q] = "write" /\ job[q].user = u
      BY <1>3, <2>1
    <3>2. MayPublish(u)
      BY <3>1 DEF QuotaInv, Allowed
    <3>3. plan'[u] = plan[u] /\ PublishedSites(u)' \subseteq PublishedSites(u)
      BY <1>3, <2>1, <3>1
    <3>4. QED
      BY <1>0, <3>2, <3>3, StaysAllowed
  <2>2. ASSUME NEW q \in Requests, pc'[q] = "write"
        PROVE  job'[q].user \in Users
    BY <1>0, <2>2 DEF TypeOK, Job
  <2>3. Allowed'
    BY <2>1, <2>2 DEF Allowed, MayPublish, PublishedSites, ActiveSites, Active
  <2>4. OneWriter'
    BY <1>3 DEF OneWriter, QuotaInv
  <2>5. QED
    BY <1>0, <1>3, <2>3, <2>4 DEF QuotaInv
<1>4. ASSUME NEW r \in Requests, Begins(r)
      PROVE  QuotaInv'
  <2>1. UNCHANGED <<plan, site>>
    BY <1>4 DEF Begins, Start
  <2>2. QED
    BY <1>2, <1>3, <1>4, <2>1, KeptEffect DEF QuotaInv
<1>5. ASSUME NEW r \in Requests, Quits(r)
      PROVE  QuotaInv'
  <2>1. End(r) /\ UNCHANGED <<plan, site>>
    BY <1>5 DEF Quits
  <2>2. QED
    BY <1>1, <1>3, <2>1, KeptEffect
<1>6. ASSUME NEW r \in Requests, Marks(r)
      PROVE  QuotaInv'
  <2>1. End(r) /\ UNCHANGED plan /\ pc[r] = "write"
    BY <1>0, <1>6 DEF Marks, NoPipeline
  <2>2. ASSUME NEW q \in Requests, NEW u \in Users, pc'[q] = "write", job[q].user = u
        PROVE  PublishedSites(u)' \subseteq PublishedSites(u)
    <3>1. q # r /\ pc[q] = "write"
      BY <1>1, <2>1, <2>2
    <3>2. u # job[r].user
      BY <2>1, <2>2, <3>1 DEF QuotaInv, OneWriter
    <3>3. QED
      BY <1>0, <1>6, <3>2, MarkEffect
  <2>3. QED
    BY <1>1, <1>3, <2>1, <2>2
<1>7. ASSUME NEW r \in Requests, WriteUpdate(r) \/ WriteDelete(r)
      PROVE  QuotaInv'
  <2>1. End(r) /\ UNCHANGED plan
    BY <1>7 DEF WriteUpdate, WriteDelete
  <2>2. \A u \in Users : PublishedSites(u)' \subseteq PublishedSites(u)
    BY <1>0, <1>7, UpdateEffect, DeleteEffect
  <2>3. QED
    BY <1>1, <1>3, <2>1, <2>2
<1>8. ASSUME NEW v \in Users, NEW s \in Sites, NEW m \in Modules, CreateSite(v, s, m)
      PROVE  QuotaInv'
  <2>1. UNCHANGED <<plan, pc, job>>
    BY <1>8 DEF CreateSite
  <2>2. QED
    BY <1>0, <1>3, <1>8, <2>1, CreateEffect
(* A plan changes only while nobody writes for its user. *)
<1>9. ASSUME NEW v \in Users, NEW p \in Plans, ChangePlan(v, p)
      PROVE  QuotaInv'
  <2>1. UNCHANGED <<site, pc, job>> /\ plan' = [plan EXCEPT ![v] = p]
    BY <1>9 DEF ChangePlan
  <2>2. \A q \in Requests : pc[q] = "write" => job[q].user # v
    BY <1>9, PublishingAssumption DEF ChangePlan, SubscriptionFree, HoldsSubscription
  <2>3. QED
    BY <1>0, <1>3, <2>1, <2>2, KeptEffect DEF TypeOK
<1>10. ASSUME UNCHANGED <<plan, site, pc, job>>
       PROVE  QuotaInv'
  BY <1>3, <1>10, KeptEffect
<1>11. ASSUME NEW r \in Requests, Allows(r)
       PROVE  QuotaInv'
  <2>1. /\ UNCHANGED <<plan, site, job>> /\ pc' = [pc EXCEPT ![r] = "write"]
        /\ pc[r] = "publish" /\ MayPublish(job[r].user) /\ SubscriptionFree(r, job[r].user)
    BY <1>11 DEF Allows
  <2>2. Allowed'
    <3>1. \A q \in Requests : pc'[q] = "write" => pc[q] = "write" \/ q = r
      BY <1>0, <2>1 DEF TypeOK
    <3>2. \A q \in Requests : pc'[q] = "write" => MayPublish(job[q].user)
      BY <2>1, <3>1 DEF QuotaInv, Allowed
    <3>3. QED
      BY <2>1, <3>2 DEF Allowed, MayPublish, PublishedSites, ActiveSites, Active
  <2>3. \A q \in Requests \ {r} : pc[q] = "write" => job[q].user # job[r].user
    BY <2>1 DEF SubscriptionFree, HoldsSubscription
  <2>4. OneWriter'
    BY <1>0, <2>1, <2>3 DEF QuotaInv, OneWriter, TypeOK
  <2>5. QED
    BY <1>0, <2>1, <2>2, <2>4 DEF QuotaInv, TypeOK
<1>12. ASSUME NEW r \in Requests PROVE ~ReadSync(r)
  BY <1>0 DEF ReadSync, NoPipeline
<1>13. QED
  BY StepKinds, <1>4, <1>5, <1>6, <1>7, <1>8, <1>9, <1>10, <1>11, <1>12

-----------------------------------------------------------------------------
LEMMA QuotaInvariance == ASSUME ~AwsEnabled PROVE Spec => []QuotaInv
<1>1. QuotaInv /\ [Next]_vars => QuotaInv'
  BY QuotaStep
<1>2. QED
  BY <1>1, QuotaInit, PTL DEF Spec

LEMMA QuotaCardinality == ASSUME NEW S PROVE Quota!Cardinality(S) = Cardinality(S)
  BY DEF Quota!Cardinality, Cardinality

LEMMA OnlineValue ==
    /\ DOMAIN Online = Users /\ Online = [u \in Users |-> Online[u]]
    /\ \A u \in Users : Online[u] = PublishedSites(u)
  BY DEF Online

LEMMA OnlineValueNext ==
    /\ DOMAIN Online' = Users /\ Online' = [u \in Users |-> Online'[u]]
    /\ \A u \in Users : Online'[u] = PublishedSites(u)'
  BY DEF Online

LEMMA MapsInit == Init => Quota!Init
<1> SUFFICES ASSUME Init PROVE Quota!Init
  OBVIOUS
<1>1. \A u \in Users : PublishedSites(u) = {}
  BY DEF Init, PublishedSites, ActiveSites, NoSite
<1>2. Online = [u \in Users |-> {}]
  BY <1>1, OnlineValue
<1>3. QED
  BY <1>2 DEF Init, Quota!Init

LEMMA MapsStep ==
    ASSUME ~AwsEnabled, QuotaInv, [Next]_vars
    PROVE  [Quota!Next]_(Quota!vars)
<1>0. TypeOK
  BY DEF QuotaInv
<1>1. ASSUME UNCHANGED plan, \A u \in Users : PublishedSites(u)' = PublishedSites(u)
      PROVE  UNCHANGED Quota!vars
  <2>1. Online' = Online
    BY <1>1, OnlineValue, OnlineValueNext
  <2>2. QED
    BY <1>1, <2>1 DEF Quota!vars
<1>2. ASSUME NEW r \in Requests, Marks(r)
      PROVE  [Quota!Next]_(Quota!vars)
  <2>1. pc[r] = "write" /\ UNCHANGED plan
    BY <1>2 DEF Marks, QuotaInv, NoPipeline
  <2>2. job[r].user \in Users /\ job[r].site \in Sites
    BY <1>0, <2>1, JobSite DEF Job
  <2>3. PICK u \in Users, s \in Sites : u = job[r].user /\ s = job[r].site
    BY <2>2
  <2>4. MayPublish(u)
    BY <2>1, <2>3 DEF QuotaInv, Allowed, MayPublish
  <2>5. \A v \in Users \ {u} : PublishedSites(v)' = PublishedSites(v)
    BY <1>0, <1>2, <2>3, MarkEffect
  <2>6. PublishedSites(u)' = PublishedSites(u) \/ PublishedSites(u)' = PublishedSites(u) \cup {s}
    BY <1>0, <1>2, <2>3, MarkEffect
  <2>7. ASSUME PublishedSites(u)' = PublishedSites(u)
        PROVE  UNCHANGED Quota!vars
    <3>1. \A v \in Users : PublishedSites(v)' = PublishedSites(v)
      BY <2>5, <2>7
    <3>2. QED
      BY <1>1, <2>1, <3>1
  <2>8. ASSUME PublishedSites(u)' = PublishedSites(u) \cup {s}
        PROVE  Quota!Next
    <3>1. \A v \in Users : Online'[v] = IF v = u THEN Online[u] \cup {s} ELSE Online[v]
      BY <2>5, <2>8, OnlineValue, OnlineValueNext
    <3>2. Online' = [Online EXCEPT ![u] = @ \cup {s}]
      BY <3>1, OnlineValue, OnlineValueNext
    <3>3. CanPublish[plan[u]] /\ Quota!Cardinality(Online[u]) < MaxSites[plan[u]]
      BY <2>4, OnlineValue, QuotaCardinality DEF MayPublish
    <3>4. Quota!Publish(u, s)
      BY <2>1, <3>2, <3>3 DEF Quota!Publish
    <3>5. QED
      BY <3>4 DEF Quota!Next
  <2>9. QED
    BY <2>6, <2>7, <2>8
<1>3. ASSUME NEW r \in Requests, WriteDelete(r)
      PROVE  [Quota!Next]_(Quota!vars)
  <2>1. /\ job[r].user \in Users /\ job[r].site \in Sites
        /\ site[job[r].site].owner = job[r].user
    BY <1>0, <1>3, JobSite DEF Job, WriteDelete
  <2>2. PICK u \in Users, s \in Sites : u = job[r].user /\ s = job[r].site
    BY <2>1
  <2>3. UNCHANGED plan
    BY <1>3 DEF WriteDelete
  <2>4. \A v \in Users : PublishedSites(v)' = PublishedSites(v) \ {s}
    BY <1>0, <1>3, <2>2, DeleteEffect
  <2>5. \A v \in Users \ {u} : s \notin PublishedSites(v)
    BY <2>1, <2>2 DEF PublishedSites, ActiveSites, Active
  <2>6. ASSUME s \notin PublishedSites(u)
        PROVE  UNCHANGED Quota!vars
    <3>1. \A v \in Users : PublishedSites(v)' = PublishedSites(v)
      BY <2>4, <2>5, <2>6
    <3>2. QED
      BY <1>1, <2>3, <3>1
  <2>7. ASSUME s \in PublishedSites(u)
        PROVE  Quota!Next
    <3>1. \A v \in Users : Online'[v] = IF v = u THEN Online[u] \ {s} ELSE Online[v]
      <4>1. ASSUME NEW v \in Users PROVE v # u => PublishedSites(v)' = PublishedSites(v)
        BY <2>4, <2>5
      <4>2. PublishedSites(u)' = PublishedSites(u) \ {s}
        BY <2>4
      <4>3. QED
        BY <4>1, <4>2, OnlineValue, OnlineValueNext
    <3>2. Online' = [Online EXCEPT ![u] = @ \ {s}]
      BY <3>1, OnlineValue, OnlineValueNext
    <3>3. s \in Online[u]
      BY <2>7, OnlineValue
    <3>4. Quota!TakeDown(u, s)
      BY <2>3, <3>2, <3>3 DEF Quota!TakeDown
    <3>5. QED
      BY <3>4 DEF Quota!Next
  <2>8. QED
    BY <2>6, <2>7
<1>4. ASSUME NEW v \in Users, NEW p \in Plans, ChangePlan(v, p)
      PROVE  [Quota!Next]_(Quota!vars)
  <2>1. \A u \in Users : PublishedSites(u)' = PublishedSites(u)
    BY <1>4, KeptEffect DEF ChangePlan
  <2>2. Online' = Online
    BY <2>1, OnlineValue, OnlineValueNext
  <2>3. Quota!ChangePlan(v, p)
    BY <1>4, <2>2 DEF ChangePlan, Quota!ChangePlan
  <2>4. QED
    BY <2>3 DEF Quota!Next
<1>5. ASSUME NEW r \in Requests, WriteUpdate(r)
      PROVE  UNCHANGED Quota!vars
  <2>1. UNCHANGED plan
    BY <1>5 DEF WriteUpdate
  <2>2. QED
    BY <1>0, <1>1, <1>5, <2>1, UpdateEffect
<1>6. ASSUME NEW v \in Users, NEW s \in Sites, NEW m \in Modules, CreateSite(v, s, m)
      PROVE  UNCHANGED Quota!vars
  <2>1. UNCHANGED plan
    BY <1>6 DEF CreateSite
  <2>2. QED
    BY <1>0, <1>1, <1>6, <2>1, CreateEffect
<1>7. ASSUME NEW r \in Requests, Begins(r) \/ Quits(r) \/ Allows(r) \/ ReadSync(r)
      PROVE  UNCHANGED <<plan, site>>
  BY <1>7 DEF Begins, Start, Quits, Allows, ReadSync
<1>8. ASSUME UNCHANGED <<plan, site>>
      PROVE  UNCHANGED Quota!vars
  BY <1>1, <1>8, KeptEffect
<1>9. QED
  BY StepKinds, <1>2, <1>3, <1>4, <1>5, <1>6, <1>7, <1>8

(* Publishing without a pipeline implements the plan policy: however       *)
(* publications, deletions, updates and plan changes of any number of      *)
(* users overlap, a published site is added only while the plan of its     *)
(* owner allows one more.                                                  *)
THEOREM Refinement == ASSUME ~AwsEnabled PROVE Spec => ImplementsQuota
<1>1. QuotaInv /\ [Next]_vars => [Quota!Next]_(Quota!vars)
  BY MapsStep
<1>2. QED
  BY <1>1, MapsInit, QuotaInvariance, PTL DEF Spec, ImplementsQuota, Quota!Spec

(* Only a publication that was allowed adds to what is published. *)
LEMMA LimitStep ==
    ASSUME ~AwsEnabled, QuotaInv, [Next]_vars, NEW u \in Users,
           ~(PublishedSites(u)' \subseteq PublishedSites(u))
    PROVE  CanPublish[plan[u]] /\ Cardinality(PublishedSites(u)') <= MaxSites[plan[u]]
<1>0. TypeOK
  BY DEF QuotaInv
<1>1. ASSUME NEW r \in Requests, Marks(r)
      PROVE  CanPublish[plan[u]] /\ Cardinality(PublishedSites(u)') <= MaxSites[plan[u]]
  <2>1. u = job[r].user /\ PublishedSites(u)' = PublishedSites(u) \cup {job[r].site}
    BY <1>0, <1>1, MarkEffect
  <2>2. MayPublish(u)
    BY <1>1, <2>1 DEF Marks, QuotaInv, NoPipeline, Allowed
  <2>3. CanPublish[plan[u]] /\ Cardinality(PublishedSites(u)) < MaxSites[plan[u]]
    BY <2>2 DEF MayPublish
  <2>4. IsFiniteSet(PublishedSites(u)) /\ job[r].site \notin PublishedSites(u)
    BY <2>1, PublishingAssumption, FS_Subset DEF PublishedSites, ActiveSites
  <2>5. /\ Cardinality(PublishedSites(u)') = Cardinality(PublishedSites(u)) + 1
        /\ Cardinality(PublishedSites(u)) \in Nat
    BY <2>1, <2>4, FS_AddElement, FS_CardinalityType
  <2>6. MaxSites[plan[u]] \in Nat
    BY <1>0, PublishingAssumption DEF TypeOK
  <2>7. QED
    BY <2>3, <2>5, <2>6
<1>2. ASSUME NEW r \in Requests, WriteUpdate(r) \/ WriteDelete(r)
      PROVE  FALSE
  BY <1>0, <1>2, UpdateEffect, DeleteEffect
<1>3. ASSUME NEW v \in Users, NEW s \in Sites, NEW m \in Modules, CreateSite(v, s, m)
      PROVE  FALSE
  BY <1>0, <1>3, CreateEffect
<1>4. ASSUME UNCHANGED site
      PROVE  FALSE
  BY <1>4, KeptEffect
<1>5. ASSUME NEW r \in Requests, Begins(r) \/ Quits(r) \/ Allows(r) \/ ReadSync(r)
      PROVE  UNCHANGED site
  BY <1>5 DEF Begins, Start, Quits, Allows, ReadSync
<1>6. QED
  BY StepKinds, <1>1, <1>2, <1>3, <1>4, <1>5 DEF ChangePlan

(* The limit that a pipeline does not keep is kept without one: whatever   *)
(* is added to the published sites of a user, the plan of that moment      *)
(* allows them all.                                                        *)
THEOREM LocalLimit == ASSUME ~AwsEnabled PROVE Spec => LimitAtPublish
<1>1. QuotaInv /\ [Next]_vars
         => [\A u \in Users : ~(PublishedSites(u)' \subseteq PublishedSites(u))
               => CanPublish[plan[u]]
                     /\ Cardinality(PublishedSites(u)') <= MaxSites[plan[u]]]_vars
  BY LimitStep
<1>2. QED
  BY <1>1, QuotaInvariance, PTL DEF Spec, LimitAtPublish

-----------------------------------------------------------------------------
(* With a pipeline: published sites are online. *)

(* The chain from an execution's end to the flag: what the item says, what *)
(* a poll has read there, and nobody publishes in another way.             *)
DeployedInv ==
    /\ TypeOK /\ PublishedWasDeployed
    /\ \A s \in Sites : item[s] = "published" => s \in deployed
    /\ \A r \in Requests : /\ pc[r] \in {"poll", "sync"} => job[r].site \in deployed
                           /\ pc[r] # "write"

(* Only the end of an execution writes "published" into the item, and it   *)
(* puts the site online in the same step.                                  *)
LEMMA ItemStep ==
    ASSUME TypeOK, [Next]_vars
    PROVE  /\ deployed \subseteq deployed'
           /\ \A s \in Sites :
                 item'[s] = "published" => item[s] = "published" \/ s \in deployed'
<1>1. ASSUME NEW x \in Runs, PipelineBuilds(x)
      PROVE  item' = [item EXCEPT ![run[x].site] = "building"] /\ deployed' = deployed
  BY <1>1 DEF PipelineBuilds
<1>2. ASSUME NEW x \in Runs, NEW how \in {"published", "failed"}, PipelineEnds(x, how)
      PROVE  /\ item' = [item EXCEPT ![run[x].site] = how]
             /\ deployed' = IF how = "published" THEN deployed \cup {run[x].site} ELSE deployed
  BY <1>2 DEF PipelineEnds
<1>3. ASSUME NEW r \in Requests, Serve(r) \/ Fail(r)
      PROVE  UNCHANGED <<item, deployed>>
  BY <1>3 DEF Serve, RefusePublish, AllowPublish, WritePublish, StartPipeline, ReadSync,
     NothingToSync, WriteSync, WriteUpdate, WriteDelete, Fail
<1>4. ASSUME NEW r \in Requests, NEW u \in Users, NEW s \in Sites,
             \/ BeginPublish(r, u, s) \/ BeginSync(r, u, s) \/ BeginDelete(r, u, s)
             \/ \E m \in Modules : BeginUpdate(r, u, s, m)
      PROVE  UNCHANGED <<item, deployed>>
  BY <1>4 DEF BeginPublish, BeginSync, BeginDelete, BeginUpdate, Start, pipeline
<1>5. ASSUME NEW u \in Users,
             \/ \E s \in Sites, m \in Modules : CreateSite(u, s, m)
             \/ \E p \in Plans : ChangePlan(u, p)
      PROVE  UNCHANGED <<item, deployed>>
  BY <1>5 DEF CreateSite, ChangePlan, pipeline
<1>6. CASE UNCHANGED <<item, deployed>>
  BY <1>6
<1>7. CASE \E x \in Runs : PipelineBuilds(x)
  BY <1>1, <1>7 DEF TypeOK
<1>8. CASE \E x \in Runs, how \in {"published", "failed"} : PipelineEnds(x, how)
  BY <1>2, <1>8 DEF TypeOK
<1>9. QED
  BY <1>3, <1>4, <1>5, <1>6, <1>7, <1>8 DEF Next, vars

LEMMA FlagStep ==
    ASSUME TypeOK, [Next]_vars, NEW s \in Sites, site'[s].published, ~site[s].published
    PROVE  \E r \in Requests : pc[r] \in {"write", "sync"} /\ job[r].site = s
<1>1. ASSUME NEW r \in Requests, WriteUpdate(r)
      PROVE  FALSE
  <2>1. site[job[r].site] \in SiteRow /\ job[r].site \in Sites
    BY <1>1, JobSite DEF WriteUpdate, Job
  <2>2. PICK mm, tt : site' = [site EXCEPT ![job[r].site] =
                                  [site[job[r].site] EXCEPT !.module = mm, !.type = tt]]
    BY <1>1, <2>1, UpdatedRow
  <2>3. QED
    BY <2>1, <2>2 DEF TypeOK, SiteRow
<1>2. ASSUME NEW r \in Requests, WriteDelete(r)
      PROVE  FALSE
  <2>1. site[job[r].site] \in SiteRow /\ job[r].site \in Sites
    BY <1>2, JobSite DEF WriteDelete, Job
  <2>2. QED
    BY <1>2, <2>1 DEF WriteDelete, TypeOK, SiteRow
<1>3. ASSUME NEW u \in Users, NEW t \in Sites, NEW m \in Modules, CreateSite(u, t, m)
      PROVE  FALSE
  BY <1>3 DEF CreateSite, TypeOK
<1>4. ASSUME NEW r \in Requests, Marks(r)
      PROVE  pc[r] \in {"write", "sync"} /\ job[r].site = s
  BY <1>4 DEF Marks, TypeOK
<1>5. ASSUME NEW r \in Requests, Begins(r) \/ Quits(r) \/ Allows(r) \/ ReadSync(r)
      PROVE  FALSE
  BY <1>5 DEF Begins, Start, Quits, Allows, ReadSync
<1>6. QED
  BY StepKinds, <1>1, <1>2, <1>3, <1>4, <1>5 DEF ChangePlan

LEMMA SyncStep ==
    ASSUME TypeOK, AwsEnabled, [Next]_vars, NEW r \in Requests
    PROVE  /\ pc'[r] \in {"poll", "sync"} =>
                 \/ pc[r] \in {"poll", "sync"} /\ job'[r] = job[r]
                 \/ job'[r].site \in Sites /\ item[job'[r].site] = "published"
           /\ pc'[r] = "write" => pc[r] = "write"
<1> DEFINE Goal == /\ pc'[r] \in {"poll", "sync"} =>
                         \/ pc[r] \in {"poll", "sync"} /\ job'[r] = job[r]
                         \/ job'[r].site \in Sites /\ item[job'[r].site] = "published"
                   /\ pc'[r] = "write" => pc[r] = "write"
<1>1. ASSUME NEW q \in Requests, NEW u \in Users, NEW s \in Sites, BeginSync(q, u, s)
      PROVE  Goal
  <2>1. item[s] = "published"
    BY <1>1, ReportedPublished DEF BeginSync
  <2> DEFINE new == [user |-> u, site |-> s, module |-> None,
                     seen |-> [module |-> site[s].module, type |-> site[s].type]]
  <2>2. pc' = [pc EXCEPT ![q] = "poll"] /\ job' = [job EXCEPT ![q] = new] /\ new.site = s
    BY <1>1 DEF BeginSync, Start
  <2> HIDE DEF new
  <2>3. QED
    BY <2>1, <2>2 DEF TypeOK
<1>2. ASSUME NEW q \in Requests, NEW u \in Users, NEW s \in Sites,
             \/ BeginPublish(q, u, s) \/ BeginDelete(q, u, s)
             \/ \E m \in Modules : BeginUpdate(q, u, s, m)
      PROVE  Goal
  <2>1. PICK at \in {"publish", "update", "delete"}, m \in Modules \cup {None} :
           Start(q, at, u, s, m)
    BY <1>2 DEF BeginPublish, BeginDelete, BeginUpdate
  <2> DEFINE new == [user |-> u, site |-> s, module |-> m,
                     seen |-> [module |-> site[s].module, type |-> site[s].type]]
  <2>2. pc' = [pc EXCEPT ![q] = at] /\ job' = [job EXCEPT ![q] = new]
    BY <2>1 DEF Start
  <2> HIDE DEF new
  <2>3. QED
    BY <2>2 DEF TypeOK
<1>3. ASSUME NEW q \in Requests, End(q)
      PROVE  Goal
  BY <1>3 DEF End, TypeOK
<1>4. ASSUME NEW q \in Requests, Serve(q) \/ Fail(q)
      PROVE  End(q) \/ ReadSync(q)
  BY <1>4 DEF Serve, RefusePublish, AllowPublish, WritePublish, StartPipeline, ReadSync,
     NothingToSync, WriteSync, WriteUpdate, WriteDelete, Fail
<1>5. ASSUME UNCHANGED <<pc, job>>
      PROVE  Goal
  BY <1>5
<1>6. ASSUME NEW u \in Users,
             \/ \E s \in Sites, m \in Modules : CreateSite(u, s, m)
             \/ \E p \in Plans : ChangePlan(u, p)
      PROVE  UNCHANGED <<pc, job>>
  BY <1>6 DEF CreateSite, ChangePlan
<1>7. ASSUME NEW x \in Runs,
             PipelineBuilds(x) \/ \E how \in {"published", "failed"} : PipelineEnds(x, how)
      PROVE  UNCHANGED <<pc, job>>
  BY <1>7 DEF PipelineBuilds, PipelineEnds
<1>8. ASSUME NEW q \in Requests, ReadSync(q)
      PROVE  Goal
  BY <1>8 DEF ReadSync, TypeOK
<1> HIDE DEF Goal
<1>9. ASSUME UNCHANGED vars
      PROVE  Goal
  BY <1>5, <1>9 DEF vars
<1>10. ASSUME Next
      PROVE  Goal
  BY <1>1, <1>2, <1>3, <1>4, <1>5, <1>6, <1>7, <1>10, <1>8 DEF Next
<1>11. Goal
  BY <1>9, <1>10
<1>12. QED
  BY <1>11 DEF Goal

LEMMA DeployedStep ==
    ASSUME AwsEnabled, DeployedInv, [Next]_vars
    PROVE  DeployedInv'
<1>0. TypeOK
  BY DEF DeployedInv
<1>1. TypeOK'
  BY <1>0, TypeStep
<1>2. PublishedWasDeployed'
  BY <1>0, FlagStep, ItemStep DEF DeployedInv, PublishedWasDeployed
<1>3. \A s \in Sites : item'[s] = "published" => s \in deployed'
  BY <1>0, ItemStep DEF DeployedInv
<1>4. \A r \in Requests : /\ pc'[r] \in {"poll", "sync"} => job'[r].site \in deployed'
                          /\ pc'[r] # "write"
  BY <1>0, SyncStep, ItemStep DEF DeployedInv
<1>5. QED
  BY <1>1, <1>2, <1>3, <1>4 DEF DeployedInv, PublishedWasDeployed

(* With a pipeline, a site is published only after an execution put it     *)
(* online, whatever polls, executions and failures overlap.                *)
THEOREM PublishedIsOnline == ASSUME AwsEnabled PROVE Spec => []PublishedWasDeployed
<1>1. Init => DeployedInv
  <2> SUFFICES ASSUME Init PROVE DeployedInv
    OBVIOUS
  <2>1. TypeOK
    BY TypeInit
  <2>2. QED
    BY <2>1 DEF Init, DeployedInv, PublishedWasDeployed, NoSite
<1>2. DeployedInv /\ [Next]_vars => DeployedInv'
  BY DeployedStep
<1>3. DeployedInv => PublishedWasDeployed
  BY DEF DeployedInv
<1>4. QED
  BY <1>1, <1>2, <1>3, PTL DEF Spec
=============================================================================
