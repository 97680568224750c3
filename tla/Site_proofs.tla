------------------------------ MODULE Site_proofs ------------------------------
(***************************************************************************)
(* Theorems about what app/api/v1/sites.py and monitoring.py do for one    *)
(* site, for every value of the constants: the previews (Preview), which   *)
(* this module extends, the contract that a pipeline builds from           *)
(* (Onboarding, the instance O) and the histories of response times,       *)
(* scores and citations (Monitoring, the instance M).  What the parsers of *)
(* RenderSpec, which are folds, make of a text is left to the runs.        *)
(***************************************************************************)
EXTENDS Preview, FiniteSetTheorems, WellFoundedInduction, TLAPS

-----------------------------------------------------------------------------
(* Previews: the inductive invariant. *)

(* A request under way has a contract of the site. *)
Owners == \A r \in Requests : pc[r] # "idle" => job[r].entry \in told

(* Whatever can still become the page of a request that has uploaded its   *)
(* spec - the spec in S3, and those that builds have read - it has seen.   *)
Timely ==
    \A r \in Requests : pc[r] \in {"call", "wait", "read"} =>
        /\ spec \in job[r].seen
        /\ \A b \in Builds : build[b].at = "read" => build[b].spec \in job[r].seen
        /\ pc[r] = "read" => page \in job[r].seen

(* No build is called before there is a spec. *)
Fed ==
    \A b \in Builds : /\ build[b].at # "free" => spec \in Pages
                      /\ build[b].at = "read" => build[b].spec \in Pages

PreviewInv == TypeOK /\ Owners /\ Timely /\ Fed

-----------------------------------------------------------------------------
Jobs == [entry : Entries \cup {None}, build : Builds \cup {None}, seen : SUBSET Pages]
Places == {"idle", "upload", "call", "wait", "read"}
BuildRow == [at : {"free", "called", "read"}, spec : Pages \cup {None}]

LEMMA PageOf ==
    ASSUME NEW e \in Entries
    PROVE  SpecOf[e] \in Pages
BY DEF Pages

LEMMA Rows ==
    /\ NoJob \in Jobs /\ FreeBuild \in BuildRow
    /\ NoJob.entry = None /\ NoJob.build = None /\ NoJob.seen = {}
    /\ FreeBuild.at = "free"
    /\ \A j \in Jobs, b \in Builds \cup {None} :
           /\ [j EXCEPT !.build = b] \in Jobs
           /\ [j EXCEPT !.build = b].entry = j.entry
           /\ [j EXCEPT !.build = b].build = b
           /\ [j EXCEPT !.build = b].seen = j.seen
    /\ \A j \in Jobs, e \in Entries :
           /\ [j EXCEPT !.entry = e] \in Jobs
           /\ [j EXCEPT !.entry = e].entry = e
           /\ [j EXCEPT !.entry = e].build = j.build
           /\ [j EXCEPT !.entry = e].seen = j.seen
    /\ \A j \in Jobs, pages \in SUBSET Pages :
           /\ [j EXCEPT !.seen = pages] \in Jobs
           /\ [j EXCEPT !.seen = pages].entry = j.entry
           /\ [j EXCEPT !.seen = pages].build = j.build
           /\ [j EXCEPT !.seen = pages].seen = pages
BY DEF NoJob, FreeBuild, Jobs, BuildRow

LEMMA PreviewFacts ==
    ASSUME PreviewInv
    PROVE  /\ job \in [Requests -> Jobs] /\ pc \in [Requests -> Places]
           /\ build \in [Builds -> BuildRow]
           /\ spec \in Pages \cup {None} /\ page \in Pages \cup {None}
           /\ told \subseteq Entries
           /\ \A r \in Requests : /\ pc[r] = "idle" => job[r] = NoJob
                                  /\ pc[r] # "wait" => job[r].build = None
           /\ None \notin Entries /\ None \notin Builds
BY PreviewAssumption DEF PreviewInv, TypeOK, Jobs, Places, BuildRow

(* TypeOK from the names above. *)
LEMMA PreviewType ==
    ASSUME job \in [Requests -> Jobs], pc \in [Requests -> Places],
           build \in [Builds -> BuildRow], told \subseteq Entries,
           spec \in Pages \cup {None}, page \in Pages \cup {None},
           \A r \in Requests : /\ pc[r] = "idle" => job[r] = NoJob
                               /\ pc[r] # "wait" => job[r].build = None
    PROVE  TypeOK
BY DEF TypeOK, Jobs, Places, BuildRow

LEMMA PreviewTypeNext ==
    ASSUME job' \in [Requests -> Jobs], pc' \in [Requests -> Places],
           build' \in [Builds -> BuildRow], told' \subseteq Entries,
           spec' \in Pages \cup {None}, page' \in Pages \cup {None},
           \A r \in Requests : /\ pc'[r] = "idle" => job'[r] = NoJob
                               /\ pc'[r] # "wait" => job'[r].build = None
    PROVE  TypeOK'
BY DEF TypeOK, Jobs, Places, BuildRow

-----------------------------------------------------------------------------
(* One lemma for each kind of step. *)

LEMMA BeginStep ==
    ASSUME PreviewInv, NEW r \in Requests, NEW e \in Entries, BeginPreview(r, e)
    PROVE  PreviewInv'
<1> USE PreviewFacts, Rows
<1>1. /\ pc[r] = "idle" /\ e \in told /\ pc' = [pc EXCEPT ![r] = "upload"]
      /\ job' = [job EXCEPT ![r] = [job[r] EXCEPT !.entry = e]]
      /\ spec' = spec /\ page' = page /\ build' = build /\ told' = told
  BY DEF BeginPreview, Goto
<1>2. /\ pc'[r] = "upload" /\ job'[r].entry = e /\ job'[r].build = None
      /\ \A s \in Requests : s # r => pc'[s] = pc[s] /\ job'[s] = job[s]
  <2>1. job'[r] = [job[r] EXCEPT !.entry = e] /\ job[r] \in Jobs
    BY <1>1
  <2>2. QED
    BY <1>1, <2>1
<1>3. TypeOK'
  <2>1. job' \in [Requests -> Jobs] /\ pc' \in [Requests -> Places]
    BY <1>1 DEF Places
  <2>2. QED
    BY <1>1, <1>2, <2>1, PreviewTypeNext
<1>4. Owners'
  BY <1>1, <1>2 DEF PreviewInv, Owners
<1>5. Timely'
  BY <1>1, <1>2 DEF PreviewInv, Timely
<1>6. Fed'
  BY <1>1 DEF PreviewInv, Fed
<1>7. QED
  BY <1>3, <1>4, <1>5, <1>6 DEF PreviewInv

(* Whoever ends takes nothing along. *)
LEMMA EndStep ==
    ASSUME PreviewInv, NEW r \in Requests, End(r), UNCHANGED <<told, spec, page, build>>
    PROVE  PreviewInv'
<1> USE PreviewFacts, Rows
<1>1. /\ pc' = [pc EXCEPT ![r] = "idle"] /\ job' = [job EXCEPT ![r] = NoJob]
      /\ spec' = spec /\ page' = page /\ build' = build /\ told' = told
  BY DEF End
<1>2. /\ pc'[r] = "idle" /\ job'[r] = NoJob
      /\ \A s \in Requests : s # r => pc'[s] = pc[s] /\ job'[s] = job[s]
  BY <1>1
<1>3. TypeOK'
  <2>1. job' \in [Requests -> Jobs] /\ pc' \in [Requests -> Places]
    BY <1>1 DEF Places
  <2>2. QED
    BY <1>1, <1>2, <2>1, PreviewTypeNext
<1>4. Owners'
  BY <1>1, <1>2 DEF PreviewInv, Owners
<1>5. Timely'
  BY <1>1, <1>2 DEF PreviewInv, Timely
<1>6. Fed'
  BY <1>1 DEF PreviewInv, Fed
<1>7. QED
  BY <1>3, <1>4, <1>5, <1>6 DEF PreviewInv

(* An upload is seen by whoever has uploaded before.                       *)
LEMMA UploadStep ==
    ASSUME PreviewInv, NEW r \in Requests, UploadSpec(r)
    PROVE  PreviewInv'
<1> USE PreviewFacts, Rows
<1> DEFINE mine == [job[r] EXCEPT !.seen = InBuilds \cup {spec'}]
           More(s) == [job[s] EXCEPT !.seen = job[s].seen \cup {spec'}]
<1>1. /\ pc[r] = "upload" /\ pc' = [pc EXCEPT ![r] = "call"]
      /\ spec' = SpecOf[job[r].entry] /\ page' = page /\ build' = build /\ told' = told
  BY DEF UploadSpec, Goto
<1>2. pc'[r] = "call" /\ \A s \in Requests : s # r => pc'[s] = pc[s]
  BY <1>1
<1>3. spec' \in Pages /\ InBuilds \in SUBSET Pages
  <2>1. job[r].entry \in Entries
    BY <1>1 DEF PreviewInv, Owners
  <2>2. \A b \in Builds : build[b].at = "read" => build[b].spec \in Pages
    BY DEF PreviewInv, Fed
  <2>3. QED
    BY <1>1, <2>1, <2>2, PageOf DEF InBuilds
<1>4. /\ job' = [s \in Requests |->
                   CASE s = r -> mine
                     [] s # r /\ pc[s] \in {"call", "wait", "read"} -> More(s)
                     [] OTHER -> job[s]]
  BY DEF UploadSpec
<1>5. /\ mine \in Jobs /\ mine.entry = job[r].entry /\ mine.build = None
      /\ mine.seen = InBuilds \cup {spec'}
  <2>1. InBuilds \cup {spec'} \in SUBSET Pages /\ job[r] \in Jobs
    BY <1>3
  <2>2. QED
    BY <1>1, <2>1
<1>6. ASSUME NEW s \in Requests
      PROVE  /\ More(s) \in Jobs /\ More(s).entry = job[s].entry /\ More(s).build = job[s].build
             /\ More(s).seen = job[s].seen \cup {spec'}
  <2>1. job[s] \in Jobs
    OBVIOUS
  <2> DEFINE pages == job[s].seen \cup {spec'}
  <2>2. pages \in SUBSET Pages
    BY <1>3, <2>1 DEF Jobs
  <2>3. More(s) = [job[s] EXCEPT !.seen = pages]
    OBVIOUS
  <2> HIDE DEF pages, More
  <2>4. More(s) \in Jobs /\ More(s).entry = job[s].entry /\ More(s).build = job[s].build
        /\ More(s).seen = pages
    BY <2>1, <2>2, <2>3
  <2>5. QED
    BY <2>4 DEF pages
<1> HIDE DEF mine, More
<1>7. /\ job'[r] = mine
      /\ \A s \in Requests : s # r =>
            job'[s] = IF pc[s] \in {"call", "wait", "read"} THEN More(s) ELSE job[s]
  BY <1>4
<1>8. TypeOK'
  <2>1. job' \in [Requests -> Jobs] /\ pc' \in [Requests -> Places]
    <3>1. \A s \in Requests : job'[s] \in Jobs
      BY <1>5, <1>6, <1>7
    <3>2. job' = [s \in Requests |-> job'[s]]
      BY <1>4
    <3>3. QED
      BY <1>1, <3>1, <3>2 DEF Places
  <2>2. \A s \in Requests : /\ pc'[s] = "idle" => job'[s] = NoJob
                            /\ pc'[s] # "wait" => job'[s].build = None
    BY <1>2, <1>5, <1>6, <1>7
  <2>3. QED
    BY <1>1, <1>3, <2>1, <2>2, PreviewTypeNext
<1>9. Owners'
  BY <1>1, <1>2, <1>5, <1>6, <1>7 DEF PreviewInv, Owners
<1>10. Timely'
  <2>1. ASSUME NEW s \in Requests, pc'[s] \in {"call", "wait", "read"}
        PROVE  /\ spec' \in job'[s].seen
               /\ \A b \in Builds : build'[b].at = "read" => build'[b].spec \in job'[s].seen
               /\ pc'[s] = "read" => page' \in job'[s].seen
    <3>1. CASE s = r
      BY <1>1, <1>2, <1>5, <1>7, <3>1 DEF InBuilds
    <3>2. CASE s # r
      <4>1. pc[s] \in {"call", "wait", "read"} /\ job'[s].seen = job[s].seen \cup {spec'}
        BY <1>2, <1>6, <1>7, <2>1, <3>2
      <4>2. QED
        BY <1>1, <1>2, <3>2, <4>1 DEF PreviewInv, Timely
    <3>3. QED
      BY <3>1, <3>2
  <2>2. QED
    BY <2>1 DEF Timely
<1>11. Fed'
  BY <1>1, <1>3 DEF PreviewInv, Fed
<1>12. QED
  BY <1>8, <1>9, <1>10, <1>11 DEF PreviewInv

LEMMA CallStep ==
    ASSUME PreviewInv, NEW r \in Requests, NEW b \in Builds, CallWorker(r, b)
    PROVE  PreviewInv'
<1> USE PreviewFacts, Rows
<1>1. /\ pc[r] = "call" /\ build[b] = FreeBuild /\ pc' = [pc EXCEPT ![r] = "wait"]
      /\ build' = [build EXCEPT ![b] = [build[b] EXCEPT !.at = "called"]]
      /\ job' = [job EXCEPT ![r] = [job[r] EXCEPT !.build = b]]
      /\ spec' = spec /\ page' = page /\ told' = told
  BY DEF CallWorker, Goto
<1>2. /\ [build[b] EXCEPT !.at = "called"] \in BuildRow
      /\ [build[b] EXCEPT !.at = "called"].at = "called"
  BY DEF BuildRow
<1>3. /\ pc'[r] = "wait" /\ job'[r].entry = job[r].entry /\ job'[r].seen = job[r].seen
      /\ \A s \in Requests : s # r => pc'[s] = pc[s] /\ job'[s] = job[s]
      /\ build'[b].at = "called" /\ \A c \in Builds : c # b => build'[c] = build[c]
  <2>1. job'[r] = [job[r] EXCEPT !.build = b] /\ job[r] \in Jobs
    BY <1>1
  <2>2. QED
    BY <1>1, <1>2, <2>1
<1>4. TypeOK'
  <2>1. /\ job' \in [Requests -> Jobs] /\ pc' \in [Requests -> Places]
        /\ build' \in [Builds -> BuildRow]
    BY <1>1, <1>2 DEF Places
  <2>2. QED
    BY <1>1, <1>3, <2>1, PreviewTypeNext
<1>5. Owners'
  BY <1>1, <1>3 DEF PreviewInv, Owners
<1>6. Timely'
  BY <1>1, <1>3 DEF PreviewInv, Timely
<1>7. Fed'
  <2>1. spec \in job[r].seen /\ job[r] \in Jobs
    BY <1>1 DEF PreviewInv, Timely
  <2>2. spec \in Pages
    BY <2>1 DEF Jobs
  <2>3. QED
    BY <1>1, <1>3, <2>2 DEF PreviewInv, Fed
<1>8. QED
  BY <1>4, <1>5, <1>6, <1>7 DEF PreviewInv

(* What a build reads, everybody has seen. *)
LEMMA ReadsStep ==
    ASSUME PreviewInv, NEW b \in Builds, WorkerReads(b)
    PROVE  PreviewInv'
<1> USE PreviewFacts, Rows
<1> DEFINE row == [at |-> "read", spec |-> spec]
<1>1. /\ build[b].at = "called" /\ build' = [build EXCEPT ![b] = row]
      /\ spec' = spec /\ page' = page /\ pc' = pc /\ job' = job /\ told' = told
  BY DEF WorkerReads
<1>2. row \in BuildRow /\ row.spec = spec
  BY DEF BuildRow
<1> HIDE DEF row
<1>3. build'[b] = row /\ \A c \in Builds : c # b => build'[c] = build[c]
  BY <1>1
<1>4. TypeOK'
  <2>1. build' \in [Builds -> BuildRow]
    BY <1>1, <1>2
  <2>2. QED
    BY <1>1, <2>1, PreviewTypeNext
<1>5. Owners'
  BY <1>1 DEF PreviewInv, Owners
<1>6. Timely'
  BY <1>1, <1>2, <1>3 DEF PreviewInv, Timely
<1>7. Fed'
  BY <1>1, <1>2, <1>3 DEF PreviewInv, Fed
<1>8. QED
  BY <1>4, <1>5, <1>6, <1>7 DEF PreviewInv

(* A page is written for whoever still waits, and of what the build read.  *)
LEMMA WritesStep ==
    ASSUME PreviewInv, NEW b \in Builds, WorkerWrites(b)
    PROVE  PreviewInv'
<1> USE PreviewFacts, Rows
<1>1. /\ build[b].at = "read" /\ page' = build[b].spec /\ spec' = spec /\ told' = told
      /\ build' = [build EXCEPT ![b] = FreeBuild]
      /\ pc' = [r \in Requests |-> IF job[r].build = b THEN "read" ELSE pc[r]]
      /\ job' = [r \in Requests |->
                   IF job[r].build = b THEN [job[r] EXCEPT !.build = None] ELSE job[r]]
  BY DEF WorkerWrites
<1>2. /\ build'[b].at = "free" /\ \A c \in Builds : c # b => build'[c] = build[c]
      /\ \A r \in Requests :
            /\ job'[r].entry = job[r].entry /\ job'[r].seen = job[r].seen
            /\ job[r].build = b => pc'[r] = "read" /\ job'[r].build = None /\ pc[r] = "wait"
            /\ job[r].build # b => pc'[r] = pc[r] /\ job'[r] = job[r]
  BY <1>1
<1>3. TypeOK'
  <2>1. /\ job' \in [Requests -> Jobs] /\ pc' \in [Requests -> Places]
        /\ build' \in [Builds -> BuildRow]
    BY <1>1 DEF Places
  <2>2. page' \in Pages \cup {None}
    BY <1>1 DEF BuildRow
  <2>3. QED
    BY <1>1, <1>2, <2>1, <2>2, PreviewTypeNext
<1>4. Owners'
  BY <1>1, <1>2 DEF PreviewInv, Owners
<1>5. Timely'
  <2>1. ASSUME NEW r \in Requests, pc'[r] \in {"call", "wait", "read"}
        PROVE  /\ spec' \in job'[r].seen
               /\ \A c \in Builds : build'[c].at = "read" => build'[c].spec \in job'[r].seen
               /\ page' \in job'[r].seen
    <3>1. pc[r] \in {"call", "wait", "read"} /\ job'[r].seen = job[r].seen
      BY <1>2, <2>1
    <3>2. /\ spec \in job[r].seen
          /\ \A c \in Builds : build[c].at = "read" => build[c].spec \in job[r].seen
      BY <3>1 DEF PreviewInv, Timely
    <3>3. QED
      BY <1>1, <1>2, <3>1, <3>2
  <2>2. QED
    BY <2>1 DEF Timely
<1>6. Fed'
  BY <1>1, <1>2 DEF PreviewInv, Fed
<1>7. QED
  BY <1>3, <1>4, <1>5, <1>6 DEF PreviewInv

LEMMA DiesStep ==
    ASSUME PreviewInv, NEW b \in Builds, WorkerDies(b)
    PROVE  PreviewInv'
<1> USE PreviewFacts, Rows
<1>1. /\ build' = [build EXCEPT ![b] = FreeBuild]
      /\ spec' = spec /\ page' = page /\ pc' = pc /\ job' = job /\ told' = told
  BY DEF WorkerDies
<1>2. build'[b].at = "free" /\ \A c \in Builds : c # b => build'[c] = build[c]
  BY <1>1
<1>3. TypeOK'
  <2>1. build' \in [Builds -> BuildRow]
    BY <1>1
  <2>2. QED
    BY <1>1, <2>1, PreviewTypeNext
<1>4. Owners'
  BY <1>1 DEF PreviewInv, Owners
<1>5. Timely'
  BY <1>1, <1>2 DEF PreviewInv, Timely
<1>6. Fed'
  BY <1>1, <1>2 DEF PreviewInv, Fed
<1>7. QED
  BY <1>3, <1>4, <1>5, <1>6 DEF PreviewInv

-----------------------------------------------------------------------------
LEMMA PreviewInit == Init => PreviewInv
<1> SUFFICES ASSUME Init PROVE PreviewInv
  OBVIOUS
<1>1. TypeOK
  BY Rows, PreviewType DEF Init, Places
<1>2. Owners /\ Timely /\ Fed
  BY Rows DEF Init, Owners, Timely, Fed
<1>3. QED
  BY <1>1, <1>2 DEF PreviewInv

LEMMA PreviewNext == PreviewInv /\ [Next]_vars => PreviewInv'
<1> SUFFICES ASSUME PreviewInv, [Next]_vars PROVE PreviewInv'
  OBVIOUS
<1>1. ASSUME NEW r \in Requests, Serve(r) PROVE PreviewInv'
  BY <1>1, UploadStep, EndStep, CallStep DEF Serve, GiveUp, ReadPage
<1>2. ASSUME NEW r \in Requests, Fail(r) PROVE PreviewInv'
  BY <1>2, EndStep DEF Fail
<1>3. CASE UNCHANGED vars
  BY <1>3 DEF vars, PreviewInv, TypeOK, Owners, Timely, Fed
<1>4. QED
  BY <1>1, <1>2, <1>3, BeginStep, ReadsStep, WritesStep, DiesStep DEF Next

LEMMA PreviewInvariant == Spec => []PreviewInv
BY PreviewInit, PreviewNext, PTL DEF Spec

-----------------------------------------------------------------------------
(* The objects in S3 hold pages of entries or nothing, and a request that  *)
(* create_preview no longer serves leaves nothing behind.                  *)
THEOREM PreviewTypeCorrect == Spec => []TypeOK
<1>1. PreviewInv => TypeOK
  BY DEF PreviewInv
<1>2. QED
  BY <1>1, PreviewInvariant, PTL

(* However many previews of a site overlap, and however many builds        *)
(* outlive their request: the page that create_preview                     *)
(* (app/api/v1/sites.py) is about to return was built of a spec uploaded   *)
(* with or after its own, or in the hands of a build then, never of an     *)
(* older one; whatever the parsers do.                                     *)
THEOREM PreviewIsOfItsTime == Spec => []PreviewOfItsTime
<1>1. PreviewInv => PreviewOfItsTime
  BY DEF PreviewInv, Timely, PreviewOfItsTime
<1>2. QED
  BY <1>1, PreviewInvariant, PTL

-----------------------------------------------------------------------------
(* Onboarding: from answers to the contract of a pipeline. *)

CONSTANTS Tasks, Answers, Blank
VARIABLES memory, restarted, contract, publishing, uses, overtaken

O == INSTANCE Onboarding WITH pc <- publishing, job <- uses

OnboardingInv == O!TypeOK /\ O!PipelineFindsContract

(* Answers change nothing but the memory of their task. *)
LEMMA SaveStep ==
    ASSUME OnboardingInv, NEW t \in Tasks, NEW fields \in SUBSET O!Fields,
           NEW a \in Answers \cup {Blank}, O!Save(t, fields, a)
    PROVE  OnboardingInv'
<1> DEFINE row == [f \in O!Fields |-> IF f \in fields THEN a ELSE memory[t][f]]
<1>1. /\ memory' = [memory EXCEPT ![t] = row] /\ publishing' = publishing /\ uses' = uses
      /\ restarted' = restarted /\ contract' = contract /\ overtaken' = overtaken
  BY DEF O!Save
<1>2. memory \in [Tasks -> O!Store]
  BY DEF OnboardingInv, O!TypeOK
<1>3. row \in O!Store
  BY <1>2 DEF O!Store
<1> HIDE DEF row
<1>4. memory' \in [Tasks -> O!Store]
  BY <1>1, <1>2, <1>3
<1>5. O!TypeOK'
  BY <1>1, <1>4 DEF OnboardingInv, O!TypeOK
<1>6. QED
  BY <1>1, <1>5 DEF OnboardingInv, O!PipelineFindsContract, O!Starting

(* The chat agent overtakes whoever is about to start a pipeline. *)
LEMMA ChatStep ==
    ASSUME OnboardingInv, NEW a \in Answers, NEW core \in Answers \cup {Blank},
           O!ChatCompiles(a, core)
    PROVE  OnboardingInv'
<1> DEFINE c == [schema |-> "1.0.0",
                 slots |-> [f \in O!Slots |-> IF f = "core_services" THEN core ELSE a]]
<1>1. /\ contract' = c /\ memory' = memory /\ publishing' = publishing /\ uses' = uses
      /\ restarted' = restarted /\ overtaken' = O!Starting
  BY DEF O!ChatCompiles
<1>2. c \in O!Contract
  BY DEF O!Contract
<1>3. c # O!NoContract
  BY DEF O!NoContract
<1> HIDE DEF c
<1>4. O!TypeOK'
  BY <1>1, <1>2 DEF OnboardingInv, O!TypeOK, O!Starting
<1>5. QED
  BY <1>1, <1>3, <1>4 DEF OnboardingInv, O!PipelineFindsContract, O!Starting

(* A publication takes a contract, from S3 or built. *)
LEMMA PublishStep ==
    ASSUME OnboardingInv, NEW t \in Tasks, O!BeginPublish(t) \/ O!BuildPublish(t)
    PROVE  OnboardingInv'
<1>1. /\ publishing[t] = "idle" /\ memory' = memory /\ restarted' = restarted
      /\ contract' = contract /\ overtaken' = overtaken
  BY DEF O!BeginPublish, O!BuildPublish
<1>2. PICK c \in O!Contract, at \in {"start", "upload"} :
         /\ uses' = [uses EXCEPT ![t] = c] /\ publishing' = [publishing EXCEPT ![t] = at]
         /\ at = "start" => contract = c
  <2>1. CASE O!BeginPublish(t)
    BY <2>1 DEF OnboardingInv, O!TypeOK, O!BeginPublish
  <2>2. CASE O!BuildPublish(t)
    <3>1. memory[t] \in O!Store
      BY DEF OnboardingInv, O!TypeOK
    <3>2. O!BuildContract(t) \in O!Contract
      BY <3>1 DEF O!BuildContract, O!Contract, O!Store, O!Fields
    <3>3. QED
      BY <2>2, <3>2 DEF O!BuildPublish
  <2>3. QED
    BY <2>1, <2>2
<1>3. c # O!NoContract
  BY DEF O!Contract, O!NoContract
<1>4. O!TypeOK'
  <2>1. t \notin overtaken
    BY <1>1 DEF OnboardingInv, O!TypeOK
  <2>2. QED
    BY <1>1, <1>2, <1>3, <2>1 DEF OnboardingInv, O!TypeOK
<1>5. O!PipelineFindsContract'
  BY <1>1, <1>2, <1>3 DEF OnboardingInv, O!TypeOK, O!PipelineFindsContract, O!Starting
<1>6. QED
  BY <1>4, <1>5 DEF OnboardingInv

(* An upload overtakes whoever else is about to start a pipeline. *)
LEMMA S3Step ==
    ASSUME OnboardingInv, NEW t \in Tasks, O!Upload(t)
    PROVE  OnboardingInv'
<1>1. /\ publishing[t] = "upload" /\ contract' = uses[t]
      /\ publishing' = [publishing EXCEPT ![t] = "start"]
      /\ memory' = memory /\ restarted' = restarted /\ uses' = uses
      /\ overtaken' = O!Starting
  BY DEF O!Upload
<1>2. uses[t] # O!NoContract
  BY <1>1 DEF OnboardingInv, O!TypeOK
<1>3. O!TypeOK'
  BY <1>1, <1>2 DEF OnboardingInv, O!TypeOK, O!Starting
<1>4. O!PipelineFindsContract'
  BY <1>1, <1>2 DEF OnboardingInv, O!TypeOK, O!PipelineFindsContract, O!Starting
<1>5. QED
  BY <1>3, <1>4 DEF OnboardingInv

(* A publication ends: by its pipeline, by an error, by a restart.         *)
LEMMA EndPublicationStep ==
    ASSUME OnboardingInv, NEW t \in Tasks,
           O!StartPipeline(t) \/ O!Fail(t) \/ O!Restart(t)
    PROVE  OnboardingInv'
<1>1. /\ publishing' = [publishing EXCEPT ![t] = "idle"]
      /\ uses' = [uses EXCEPT ![t] = O!NoContract] /\ contract' = contract
      /\ overtaken' = overtaken \ {t}
  BY DEF O!StartPipeline, O!Fail, O!Restart, O!End
<1>2. memory' \in [Tasks -> O!Store] /\ restarted' \in BOOLEAN
  <2>1. O!EmptyStore \in O!Store
    BY DEF O!EmptyStore, O!Store
  <2>2. QED
    BY <2>1 DEF OnboardingInv, O!TypeOK, O!StartPipeline, O!Fail, O!Restart
<1>3. O!TypeOK'
  BY <1>1, <1>2 DEF OnboardingInv, O!TypeOK
<1>4. O!PipelineFindsContract'
  BY <1>1 DEF OnboardingInv, O!TypeOK, O!PipelineFindsContract, O!Starting
<1>5. QED
  BY <1>3, <1>4 DEF OnboardingInv

LEMMA OnboardingInit == O!Init => OnboardingInv
<1> SUFFICES ASSUME O!Init PROVE OnboardingInv
  OBVIOUS
<1>1. O!EmptyStore \in O!Store
  BY DEF O!EmptyStore, O!Store
<1>2. O!TypeOK
  BY <1>1 DEF O!Init, O!TypeOK
<1>3. QED
  BY <1>2 DEF O!Init, OnboardingInv, O!PipelineFindsContract, O!Starting

LEMMA OnboardingInvariant == O!Spec => []OnboardingInv
<1>1. ASSUME OnboardingInv, [O!Next]_(O!vars) PROVE OnboardingInv'
  <2>1. ASSUME NEW t \in Tasks, NEW a \in Answers \cup {Blank},
               \/ O!SaveBusiness(t, a) \/ O!SaveStructure(t, a)
               \/ O!SaveServices(t, a) \/ O!SaveContact(t, a)
               \/ \E fields \in SUBSET O!Slots : O!SaveSlots(t, fields, a)
        PROVE  OnboardingInv'
    <3>1. \E fields \in SUBSET O!Fields : O!Save(t, fields, a)
      BY <2>1 DEF O!SaveBusiness, O!SaveStructure, O!SaveServices, O!SaveContact,
                  O!SaveSlots, O!Fields, O!Slots, O!Required
    <3>2. QED
      BY <1>1, <3>1, SaveStep
  <2>2. CASE UNCHANGED O!vars
    BY <1>1, <2>2 DEF O!vars, OnboardingInv, O!TypeOK, O!PipelineFindsContract, O!Starting
  <2>3. QED
    BY <1>1, <2>1, <2>2, ChatStep, PublishStep, S3Step, EndPublicationStep DEF O!Next
<1>2. QED
  BY <1>1, OnboardingInit, PTL DEF O!Spec

(* The answers in a task's memory, the contracts and the publications that *)
(* use them have their types, and an idle task holds no contract.          *)
THEOREM OnboardingTypeCorrect == O!Spec => []O!TypeOK
<1>1. OnboardingInv => O!TypeOK
  BY DEF OnboardingInv
<1>2. QED
  BY <1>1, OnboardingInvariant, PTL

(* Before a pipeline starts (publish_site of app/api/v1/sites.py) there is *)
(* a contract in S3, and it is the one that the pipeline is started for,   *)
(* unless somebody else has written another one since publish read or      *)
(* uploaded it.                                                            *)
THEOREM ContractAtStart == O!Spec => []O!PipelineFindsContract
<1>1. OnboardingInv => O!PipelineFindsContract
  BY DEF OnboardingInv
<1>2. QED
  BY <1>1, OnboardingInvariant, PTL

-----------------------------------------------------------------------------
(* Monitoring: the history of response times. *)

CONSTANTS Calls, Day, HistoryDays, ScoreDays, MaxTime
VARIABLES now, snapshots, scores, citations, measuring

M == INSTANCE Monitoring WITH Requests <- Calls, pc <- measuring

(* What Monitoring assumes of its constants. *)
MonitoringConstants ==
    /\ Day \in Nat \ {0} /\ HistoryDays \in Nat \ {0}
    /\ ScoreDays \in Nat /\ MaxTime \in Nat
    /\ None \notin Nat

(* What day it is. *)
LEMMA Dates ==
    ASSUME MonitoringConstants, NEW t \in Nat
    PROVE  /\ t \div Day \in Nat
           /\ (t \div Day) * Day <= t /\ t < (t \div Day) * Day + Day
BY DEF MonitoringConstants

LEMMA LaterDate ==
    ASSUME MonitoringConstants, NEW s \in Nat, NEW t \in Nat, s <= t
    PROVE  s \div Day <= t \div Day
<1> DEFINE m == s \div Day
           n == t \div Day
<1>1. /\ m \in Nat /\ n \in Nat /\ Day \in Nat /\ Day > 0
      /\ m * Day <= s /\ t < n * Day + Day
  BY Dates DEF MonitoringConstants
<1> HIDE DEF m, n
<1>2. SUFFICES ASSUME m > n PROVE FALSE
  BY <1>1 DEF m, n
<1>3. m >= n + 1 /\ m * Day >= (n + 1) * Day /\ (n + 1) * Day = n * Day + Day
  BY <1>1, <1>2
<1>4. n * Day \in Nat /\ m * Day \in Nat
  BY <1>1
<1>5. QED
  BY <1>1, <1>3, <1>4

(* The query goes back by hours from now, the graph by dates: nothing of   *)
(* the first day shown is older than the query reaches.                    *)
LEMMA QueryReachesFirstDay ==
    ASSUME MonitoringConstants, NEW t \in Nat, NEW n \in Nat,
           t \div Day + HistoryDays > n \div Day
    PROVE  t + HistoryDays * Day >= n
<1> DEFINE d == t \div Day
           e == n \div Day
<1>1. /\ d \in Nat /\ e \in Nat /\ d * Day <= t /\ n < e * Day + Day
      /\ Day \in Nat /\ HistoryDays \in Nat
  BY Dates DEF MonitoringConstants
<1>2. d + HistoryDays > e
  OBVIOUS
<1> HIDE DEF d, e
<1>3. (d + HistoryDays) * Day >= (e + 1) * Day
  BY <1>1, <1>2
<1>4. /\ (d + HistoryDays) * Day = d * Day + HistoryDays * Day
      /\ (e + 1) * Day = e * Day + Day
  BY <1>1
<1>5. d * Day \in Nat /\ e * Day \in Nat /\ HistoryDays * Day \in Nat
  BY <1>1
<1>6. QED
  BY <1>1, <1>3, <1>4, <1>5

(* _load_history with the texts left out: sort keys of moments are odd,    *)
(* those of dates even, and their order is that of the times.              *)
LEMMA LoadedHistory ==
    ASSUME MonitoringConstants, M!TypeOK, NEW days \in Nat
    PROVE  M!LoadHistory(days) = {t \in snapshots : t + days * Day >= now}
<1>1. /\ now \in Nat /\ snapshots \subseteq Nat /\ M!Days \subseteq Nat
      /\ days * Day \in Nat /\ Day \in Nat
  BY DEF MonitoringConstants, M!TypeOK, M!Days
<1>2. ASSUME NEW t \in Nat
      PROVE  /\ M!MomentKey(t) \div 2 = t /\ M!MomentKey(t) % 2 = 1
             /\ M!MomentKey(t) + 2 * days * Day >= M!MomentKey(now)
                   <=> t + days * Day >= now
  <2>1. 2 * days * Day = 2 * (days * Day)
    BY <1>1
  <2> DEFINE x == days * Day
  <2>2. x \in Nat
    BY <1>1
  <2> HIDE DEF x
  <2>3. (2 * t + 1) + 2 * x >= 2 * now + 1 <=> t + x >= now
    BY <1>1, <2>2
  <2>4. (2 * t + 1) \div 2 = t /\ (2 * t + 1) % 2 = 1
    OBVIOUS
  <2>5. QED
    BY <2>1, <2>3, <2>4 DEF x, M!MomentKey
<1>3. ASSUME NEW d \in M!Days
      PROVE  M!DateKey(d) % 2 = 0
  <2> DEFINE x == d * Day
  <2>1. x \in Nat /\ 2 * d * Day = 2 * x
    BY <1>1
  <2> HIDE DEF x
  <2>2. (2 * x) % 2 = 0
    BY <2>1
  <2>3. QED
    BY <2>1, <2>2 DEF M!DateKey
<1>4. ASSUME NEW t \in M!LoadHistory(days)
      PROVE  t \in snapshots /\ t + days * Day >= now
  <2>1. PICK k \in M!Keys : /\ k % 2 = 1 /\ t = k \div 2
                            /\ k + 2 * days * Day >= M!MomentKey(now)
    BY <1>4 DEF M!LoadHistory, M!From
  <2>2. \A d \in M!Scored : k # M!DateKey(d)
    BY <1>3, <2>1 DEF M!Scored
  <2>3. PICK s \in snapshots : k = M!MomentKey(s)
    BY <2>1, <2>2 DEF M!Keys
  <2>4. s \in Nat
    BY <1>1
  <2>5. QED
    BY <1>2, <2>1, <2>3, <2>4
<1>5. ASSUME NEW t \in snapshots, t + days * Day >= now
      PROVE  t \in M!LoadHistory(days)
  <2>1. t \in Nat
    BY <1>1
  <2>2. M!MomentKey(t) \in M!From(days)
    BY <1>2, <1>5, <2>1 DEF M!From, M!Keys
  <2>3. QED
    BY <1>2, <2>1, <2>2 DEF M!LoadHistory
<1>6. QED
  BY <1>4, <1>5

LEMMA MonitoringInit ==
    ASSUME MonitoringConstants, M!Init
    PROVE  M!TypeOK
BY DEF MonitoringConstants, M!Init, M!TypeOK

LEMMA MonitoringNext ==
    ASSUME MonitoringConstants, M!TypeOK, [M!Next]_(M!vars)
    PROVE  M!TypeOK'
<1>1. /\ now \in 0..MaxTime /\ snapshots \subseteq 0..now
      /\ scores \in [M!Days -> M!Score \cup {None}]
      /\ \A d \in M!Days : d > now \div Day => scores[d] = None
      /\ citations \subseteq 0..(now \div Day)
      /\ measuring \in [Calls -> {"idle", "measure"}]
      /\ MaxTime \in Nat
  BY DEF M!TypeOK, MonitoringConstants
<1>2. /\ now \div Day \in Nat /\ now \div Day <= MaxTime \div Day
      /\ MaxTime \div Day \in Nat
  BY <1>1, Dates, LaterDate
<1>3. ASSUME NEW r \in Calls,
             \/ \E answers \in BOOLEAN : M!BeginMeasure(r, answers)
             \/ M!SaveSnapshot(r) \/ M!LoseSnapshot(r)
      PROVE  M!TypeOK'
  <2>1. /\ now' = now /\ scores' = scores /\ citations' = citations
        /\ snapshots' \subseteq snapshots \cup {now}
        /\ measuring' \in [Calls -> {"idle", "measure"}]
    BY <1>1, <1>3 DEF M!BeginMeasure, M!SaveSnapshot, M!LoseSnapshot, M!reports
  <2>2. snapshots' \subseteq 0..now
    BY <1>1, <2>1
  <2>3. QED
    BY <1>1, <2>1, <2>2 DEF M!TypeOK
<1>4. ASSUME NEW item \in M!Score, M!ReportScore(item) PROVE M!TypeOK'
  <2>1. /\ scores' = [scores EXCEPT ![now \div Day] = item]
        /\ now' = now /\ snapshots' = snapshots /\ citations' = citations
        /\ measuring' = measuring
    BY <1>4 DEF M!ReportScore, M!DateOf
  <2>2. scores' \in [M!Days -> M!Score \cup {None}]
    BY <1>1, <2>1
  <2>3. \A d \in M!Days : d > now \div Day => scores'[d] = None
    BY <1>1, <1>2, <2>1 DEF M!Days
  <2>4. QED
    BY <1>1, <2>1, <2>2, <2>3 DEF M!TypeOK
<1>5. ASSUME M!ReportCitations PROVE M!TypeOK'
  <2>1. /\ citations' = citations \cup {now \div Day}
        /\ now' = now /\ snapshots' = snapshots /\ scores' = scores
        /\ measuring' = measuring
    BY <1>5 DEF M!ReportCitations, M!DateOf
  <2>2. now \div Day \in 0..(now \div Day)
    BY <1>2
  <2>3. citations' \subseteq 0..(now \div Day)
    BY <1>1, <2>1, <2>2
  <2>4. QED
    BY <1>1, <2>1, <2>3 DEF M!TypeOK
<1>6. ASSUME M!Tick PROVE M!TypeOK'
  <2>1. /\ now < MaxTime /\ now' = now + 1 /\ snapshots' = snapshots
        /\ scores' = scores /\ citations' = citations /\ measuring' = measuring
    BY <1>6 DEF M!Tick, M!reports
  <2>2. now' \in 0..MaxTime /\ now \in Nat /\ now + 1 \in Nat /\ now <= now + 1
    BY <1>1, <2>1
  <2>3. now \div Day <= now' \div Day /\ now' \div Day \in Nat
    BY <2>1, <2>2, Dates, LaterDate
  <2>4. /\ snapshots' \subseteq 0..now' /\ citations' \subseteq 0..(now' \div Day)
        /\ \A d \in M!Days : d > now' \div Day => scores'[d] = None
    BY <1>1, <1>2, <2>1, <2>2, <2>3 DEF M!Days
  <2>5. QED
    BY <1>1, <2>1, <2>2, <2>4 DEF M!TypeOK
<1>7. CASE UNCHANGED M!vars
  BY <1>7 DEF M!TypeOK, M!vars
<1>8. QED
  BY <1>3, <1>4, <1>5, <1>6, <1>7 DEF M!Next

(* Nothing is stored under a time that has not come.                       *)
THEOREM MonitoringTypeCorrect ==
    ASSUME MonitoringConstants
    PROVE  M!Spec => []M!TypeOK
BY MonitoringInit, MonitoringNext, PTL DEF M!Spec

(* For every length of a day and of the history, at any hour: the graph    *)
(* shows of each of its days the last measurement that is stored, as the   *)
(* query of _load_history (app/api/v1/monitoring.py), which goes back by   *)
(* hours, never cuts into the first of the days, which are counted by date. *)
THEOREM ResponsesShown ==
    ASSUME MonitoringConstants
    PROVE  M!Spec => []M!ResponsesComplete
<1>1. M!TypeOK => M!ResponsesComplete
  <2>1. ASSUME M!TypeOK, NEW d \in M!ShownDays
        PROVE  {t \in M!LoadHistory(HistoryDays) : M!DateOf(t) = d}
                 = {t \in snapshots : M!DateOf(t) = d}
    <3>1. now \in Nat /\ snapshots \subseteq Nat
      BY <2>1 DEF M!TypeOK, MonitoringConstants
    <3>2. M!LoadHistory(HistoryDays) = {t \in snapshots : t + HistoryDays * Day >= now}
      BY <2>1, LoadedHistory DEF MonitoringConstants
    <3>3. \A t \in snapshots : M!DateOf(t) = d => t + HistoryDays * Day >= now
      BY <3>1, QueryReachesFirstDay DEF M!ShownDays, M!DateOf
    <3>4. QED
      BY <3>2, <3>3
  <2>2. QED
    BY <2>1 DEF M!ResponsesComplete, M!History
<1>2. QED
  BY <1>1, MonitoringTypeCorrect, PTL

-----------------------------------------------------------------------------
(* Monitoring: the histories of scores and citations. *)

Increasing(list) == \A i, j \in DOMAIN list : i < j => list[i] < list[j]

(* A finite set of numbers can be listed in order: every number's place is *)
(* how many of the set it is not below.                                    *)
LEMMA OrderExists ==
    ASSUME NEW S \in SUBSET Nat, IsFiniteSet(S)
    PROVE  \E list \in [1..Cardinality(S) -> S] : Increasing(list)
<1> DEFINE n == Cardinality(S)
           upTo(x) == {y \in S : y <= x}
           rank == [x \in S |-> Cardinality(upTo(x))]
<1>1. n \in Nat /\ IsFiniteSet(1..n) /\ Cardinality(1..n) = n
  <2>1. n \in Nat
    BY FS_CardinalityType
  <2>2. QED
    BY <2>1, FS_Interval
<1>2. ASSUME NEW x \in S PROVE rank[x] \in 1..n /\ IsFiniteSet(upTo(x))
  <2>1. upTo(x) \in SUBSET S /\ x \in upTo(x)
    OBVIOUS
  <2> HIDE DEF upTo
  <2>2. IsFiniteSet(upTo(x)) /\ Cardinality(upTo(x)) <= n
    BY <2>1, FS_Subset
  <2>3. Cardinality(upTo(x)) \in Nat /\ Cardinality(upTo(x)) # 0
    BY <2>1, <2>2, FS_CardinalityType, FS_EmptySet
  <2>4. QED
    BY <1>1, <2>2, <2>3
<1>3. ASSUME NEW x \in S, NEW y \in S, x < y PROVE rank[x] < rank[y]
  <2>1. /\ upTo(x) \in SUBSET upTo(y) /\ upTo(x) # upTo(y)
    <3>1. x \in Nat /\ y \in Nat /\ S \subseteq Nat
      OBVIOUS
    <3>2. ASSUME NEW z \in upTo(x) PROVE z \in upTo(y)
      <4>1. z \in S /\ z \in Nat /\ z <= x
        BY <3>2
      <4>2. z <= y
        BY <1>3, <3>1, <4>1
      <4>3. QED
        BY <4>1, <4>2
    <3>3. y \in upTo(y) /\ y \notin upTo(x)
      BY <1>3, <3>1
    <3>4. QED
      BY <3>2, <3>3
  <2>2. IsFiniteSet(upTo(y)) /\ rank[x] = Cardinality(upTo(x)) /\ rank[y] = Cardinality(upTo(y))
    BY <1>2
  <2>3. rank[x] \in 1..n /\ rank[y] \in 1..n
    BY <1>2
  <2> HIDE DEF upTo, rank
  <2>4. Cardinality(upTo(x)) <= Cardinality(upTo(y)) /\ Cardinality(upTo(x)) # Cardinality(upTo(y))
    BY <2>1, <2>2, FS_Subset
  <2>5. QED
    BY <1>1, <2>2, <2>3, <2>4
<1>4. rank \in [S -> 1..n]
  BY <1>2
<1> HIDE DEF rank
<1>5. rank \in Injection(S, 1..n)
  <2>1. \A x, y \in S : rank[x] = rank[y] => x = y
    <3> SUFFICES ASSUME NEW x \in S, NEW y \in S, rank[x] = rank[y], x # y PROVE FALSE
      OBVIOUS
    <3>1. x < y \/ y < x
      OBVIOUS
    <3>2. rank[x] \in Nat /\ rank[y] \in Nat
      BY <1>1, <1>4
    <3>3. QED
      BY <1>3, <3>1, <3>2
  <2>2. QED
    BY <1>4, <2>1 DEF Injection, IsInjective
<1>6. \A i \in 1..n : \E x \in S : rank[x] = i
  <2>1. Cardinality(S) = Cardinality(1..n)
    BY <1>1
  <2>2. rank \in Surjection(S, 1..n)
    BY <1>1, <1>5, <2>1, FS_Injection
  <2>3. QED
    BY <2>2 DEF Surjection
<1> DEFINE list == [i \in 1..n |-> CHOOSE x \in S : rank[x] = i]
<1>7. \A i \in 1..n : list[i] \in S /\ rank[list[i]] = i
  BY <1>6
<1>8. list \in [1..n -> S]
  BY <1>7
<1> HIDE DEF list
<1>9. Increasing(list)
  <2> SUFFICES ASSUME NEW i \in 1..n, NEW j \in 1..n, i < j PROVE list[i] < list[j]
    BY <1>8 DEF Increasing
  <2>1. list[i] \in S /\ list[j] \in S /\ rank[list[i]] = i /\ rank[list[j]] = j
    BY <1>7
  <2>2. list[i] \in Nat /\ list[j] \in Nat /\ i \in Nat /\ j \in Nat
    <3>1. i \in Nat /\ j \in Nat
      BY <1>1
    <3>2. S \subseteq Nat
      OBVIOUS
    <3>3. QED
      BY <2>1, <3>1, <3>2
  <2> DEFINE x == list[i]
             y == list[j]
  <2>3. x \in S /\ y \in S /\ x \in Nat /\ y \in Nat /\ rank[x] = i /\ rank[y] = j
    BY <2>1, <2>2
  <2> HIDE DEF x, y
  <2>4. x # y /\ (y < x => j < i)
    BY <1>3, <2>2, <2>3
  <2>5. x < y
    BY <2>2, <2>3, <2>4
  <2>6. QED
    BY <2>5 DEF x, y
<1>10. QED
  BY <1>8, <1>9

(* A list in order of as many numbers as the set has misses none of them.  *)
LEMMA OrderComplete ==
    ASSUME NEW S \in SUBSET Nat, IsFiniteSet(S),
           NEW list \in [1..Cardinality(S) -> S], Increasing(list)
    PROVE  \A x \in S : \E i \in DOMAIN list : list[i] = x
<1> DEFINE n == Cardinality(S)
<1>1. n \in Nat /\ IsFiniteSet(1..n) /\ Cardinality(1..n) = n
  <2>1. n \in Nat
    BY FS_CardinalityType
  <2>2. QED
    BY <2>1, FS_Interval
<1>2. \A i, j \in 1..n : list[i] = list[j] => i = j
  <2> SUFFICES ASSUME NEW i \in 1..n, NEW j \in 1..n, list[i] = list[j], i # j PROVE FALSE
    OBVIOUS
  <2>1. (i < j \/ j < i) /\ i \in DOMAIN list /\ j \in DOMAIN list
    BY <1>1
  <2>2. list[i] \in S
    OBVIOUS
  <2>3. list[i] \in Nat /\ list[j] = list[i]
    BY <2>2
  <2>4. list[i] < list[j] \/ list[j] < list[i]
    BY <2>1 DEF Increasing
  <2>5. QED
    BY <2>3, <2>4
<1>3. list \in Injection(1..n, S)
  BY <1>2 DEF Injection, IsInjective
<1>4. list \in Surjection(1..n, S)
  BY <1>1, <1>3, FS_Injection
<1>5. QED
  BY <1>4 DEF Surjection

(* The list that a query returns. *)
LEMMA InOrderLists ==
    ASSUME NEW S \in SUBSET Nat, IsFiniteSet(S)
    PROVE  /\ M!InOrder(S) \in Seq(S) /\ Len(M!InOrder(S)) = Cardinality(S)
           /\ Cardinality(S) \in Nat
           /\ DOMAIN M!InOrder(S) = 1..Len(M!InOrder(S))
           /\ ToSet(M!InOrder(S)) = S /\ Increasing(M!InOrder(S))
<1> DEFINE n == Cardinality(S)
           list == M!InOrder(S)
<1>1. n \in Nat
  BY FS_CardinalityType
<1>2. list \in [1..n -> S] /\ Increasing(list)
  <2>1. \E l \in [1..n -> S] : \A i, j \in DOMAIN l : i < j => l[i] < l[j]
    BY OrderExists DEF Increasing
  <2>2. list = CHOOSE l \in [1..n -> S] : \A i, j \in DOMAIN l : i < j => l[i] < l[j]
    BY DEF M!InOrder, M!Cardinality, Cardinality, M!IsFiniteSet, IsFiniteSet
  <2> HIDE DEF list, n
  <2>3. list \in [1..n -> S] /\ \A i, j \in DOMAIN list : i < j => list[i] < list[j]
    BY <2>1, <2>2, Zenon
  <2>4. QED
    BY <2>3 DEF Increasing
<1>3. list \in Seq(S) /\ Len(list) = n /\ DOMAIN list = 1..n
  BY <1>1, <1>2
<1> HIDE DEF list
<1>4. \A x \in S : \E i \in DOMAIN list : list[i] = x
  BY <1>2, OrderComplete
<1>5. ToSet(list) = S
  BY <1>2, <1>3, <1>4 DEF ToSet
<1>6. QED
  BY <1>1, <1>2, <1>3, <1>5 DEF list

(* A set of places of a list has a last one: a descending sequence in Nat  *)
(* would have no end otherwise.                                            *)
LEMMA LastPlace ==
    ASSUME NEW n \in Nat, NEW I \in SUBSET (1..n), I # {}
    PROVE  Max(I) \in I /\ \A i \in I : i <= Max(I)
<1> DEFINE gaps == {n - i : i \in I}
           less == {p \in Nat \X Nat : p[1] < p[2]}
<1>1. gaps \subseteq Nat /\ gaps # {}
  OBVIOUS
<1>2. IsWellFoundedOn(less, Nat)
  BY NatLessThanWellFounded DEF OpToRel
<1>3. PICK g \in gaps : \A h \in gaps : ~ (<<h, g>> \in less)
  <2> HIDE DEF gaps, less
  <2>1. QED
    BY <1>1, <1>2, WFMin
<1>4. PICK last \in I : g = n - last
  BY <1>3
<1>5. \A i \in I : last >= i
  <2> SUFFICES ASSUME NEW i \in I PROVE last >= i
    OBVIOUS
  <2>1. n - i \in gaps /\ n - i \in Nat /\ g \in Nat
    BY <1>1
  <2>2. ~ (n - i < g)
    BY <1>3, <2>1
  <2>3. QED
    BY <1>4, <2>2
<1>6. Max(I) \in I /\ \A i \in I : Max(I) >= i
  BY <1>5 DEF Max
<1>7. QED
  BY <1>6

(* The days of the scores and citations that are read. *)
Recent(days) == {d \in days : d + ScoreDays >= now \div Day}

LEMMA RecentDays ==
    ASSUME MonitoringConstants, M!TypeOK
    PROVE  /\ M!Scored \subseteq Nat /\ citations \subseteq Nat
           /\ Recent(M!Scored) \in SUBSET Nat /\ IsFiniteSet(Recent(M!Scored))
           /\ Recent(citations) \in SUBSET Nat /\ IsFiniteSet(Recent(citations))
<1>1. now \in 0..MaxTime /\ citations \subseteq 0..(now \div Day) /\ MaxTime \in Nat
  BY DEF MonitoringConstants, M!TypeOK
<1>2. now \div Day \in Nat /\ MaxTime \div Day \in Nat
  BY <1>1, Dates
<1>3. IsFiniteSet(0..(MaxTime \div Day)) /\ IsFiniteSet(0..(now \div Day))
  BY <1>2, FS_Interval
<1>4. /\ Recent(M!Scored) \in SUBSET (0..(MaxTime \div Day))
      /\ Recent(citations) \in SUBSET (0..(now \div Day))
      /\ M!Scored \subseteq 0..(MaxTime \div Day)
  BY <1>1 DEF Recent, M!Scored, M!Days
<1>5. IsFiniteSet(Recent(M!Scored)) /\ IsFiniteSet(Recent(citations))
  BY <1>3, <1>4, FS_Subset
<1>6. QED
  BY <1>1, <1>2, <1>4, <1>5

(* The sort key of a date is not below that of now - days exactly if the   *)
(* date is not.                                                            *)
LEMMA DateKeys ==
    ASSUME MonitoringConstants, NEW d \in Nat, NEW e \in Nat
    PROVE  M!DateKey(d) + 2 * ScoreDays * Day >= M!DateKey(e) <=> d + ScoreDays >= e
<1>1. Day \in Nat /\ Day > 0 /\ ScoreDays \in Nat
  BY DEF MonitoringConstants
<1> DEFINE x == d + ScoreDays
           u == x * Day
           v == e * Day
<1>2. x \in Nat /\ u \in Nat /\ v \in Nat
  BY <1>1
<1>3. M!DateKey(d) + 2 * ScoreDays * Day = 2 * u /\ M!DateKey(e) = 2 * v
  BY <1>1 DEF M!DateKey
<1>4. 2 * u >= 2 * v <=> u >= v
  <2> HIDE DEF u, v
  <2>1. QED
    BY <1>2
<1>5. u >= v <=> x >= e
  <2> HIDE DEF x
  <2>1. ASSUME x >= e PROVE u >= v
    BY <1>1, <1>2, <2>1
  <2>2. ASSUME e > x PROVE v > u
    BY <1>1, <1>2, <2>2
  <2>3. QED
    BY <1>2, <2>1, <2>2
<1>6. QED
  BY <1>3, <1>4, <1>5

LEMMA LoadedScores ==
    ASSUME MonitoringConstants, M!TypeOK
    PROVE  /\ M!LoadScoreHistory(ScoreDays) = M!InOrder(Recent(M!Scored))
           /\ M!LoadCitationHistory(ScoreDays) = M!InOrder(Recent(citations))
<1>1. now \div Day \in Nat /\ M!Scored \subseteq Nat
  BY Dates, RecentDays DEF M!TypeOK, MonitoringConstants
<1>2. {d \in M!Scored : M!DateKey(d) + 2 * ScoreDays * Day >= M!DateKey(now \div Day)}
        = Recent(M!Scored)
  BY <1>1, DateKeys DEF Recent
<1>3. QED
  BY <1>2 DEF M!LoadScoreHistory, M!LoadCitationHistory, M!DateOf, Recent

LEMMA ScoresShown ==
    ASSUME MonitoringConstants, M!TypeOK
    PROVE  M!ScoresComplete
<1> DEFINE history == M!LoadScoreHistory(ScoreDays)
           rates == M!LoadCitationHistory(ScoreDays)
           n == Len(history)
           geo == {i \in 1..n : scores[history[i]].geo}
<1>1. /\ history \in Seq(Recent(M!Scored)) /\ n \in Nat /\ DOMAIN history = 1..n
      /\ ToSet(history) = Recent(M!Scored) /\ Increasing(history)
      /\ ToSet(rates) = Recent(citations) /\ Increasing(rates)
  BY LoadedScores, RecentDays, InOrderLists
<1>2. /\ M!LatestScore = IF history = <<>> THEN None ELSE history[n]
      /\ M!GeoScore = IF geo = {} \/ Max(geo) = 0 THEN None ELSE history[Max(geo)]
  BY DEF M!LatestScore, M!GeoScore, M!Last, M!SelectLastInSeq, M!Max, Max
<1> HIDE DEF history, rates, n
<1>3. /\ \A i \in 1..n : history[i] \in Nat
      /\ \A i, j \in 1..n : i <= j => history[i] <= history[j]
  <2>1. \A i \in 1..n : history[i] \in Nat
    BY <1>1, RecentDays DEF ToSet
  <2>2. \A i, j \in 1..n : i < j => history[i] < history[j]
    BY <1>1 DEF Increasing
  <2>3. QED
    BY <1>1, <2>1, <2>2
<1>4. ASSUME NEW d \in Recent(M!Scored)
      PROVE  /\ d <= M!LatestScore
             /\ scores[d].geo =>
                   M!GeoScore # None /\ d <= M!GeoScore /\ M!GeoScore <= M!LatestScore
  <2>1. PICK i \in 1..n : history[i] = d
    BY <1>1 DEF ToSet
  <2>2. n \in 1..n /\ history # <<>> /\ M!LatestScore = history[n]
    BY <1>1, <1>2, <2>1
  <2>3. d <= M!LatestScore
    BY <1>3, <2>1, <2>2
  <2>4. ASSUME scores[d].geo
        PROVE  M!GeoScore # None /\ d <= M!GeoScore /\ M!GeoScore <= M!LatestScore
    <3>1. i \in geo /\ geo \in SUBSET (1..n)
      BY <2>1, <2>4
    <3> DEFINE last == Max(geo)
    <3> HIDE DEF geo
    <3>2. last \in geo /\ i <= last
      BY <1>1, <3>1, LastPlace
    <3>3. last \in 1..n /\ M!GeoScore = history[last]
      <4>1. last \in 1..n
        BY <3>1, <3>2
      <4>2. last # 0 /\ geo # {}
        BY <1>1, <3>1, <4>1
      <4>3. QED
        BY <1>2, <4>1, <4>2
    <3> HIDE DEF last
    <3>4. history[last] \in Nat /\ history[i] <= history[last] /\ history[last] <= history[n]
      BY <1>1, <1>3, <2>2, <3>2, <3>3
    <3>5. QED
      BY <2>1, <2>2, <3>3, <3>4 DEF MonitoringConstants
  <2>5. QED
    BY <2>3, <2>4
<1>5. /\ M!ToSet(history) = Recent(M!Scored) /\ M!ToSet(rates) = Recent(citations)
      /\ \A i, j \in DOMAIN history : i < j => history[i] < history[j]
      /\ \A i, j \in DOMAIN rates : i < j => rates[i] < rates[j]
  BY <1>1 DEF ToSet, M!ToSet, Increasing
<1>6. QED
  BY <1>4, <1>5 DEF M!ScoresComplete, M!DateOf, Recent, history, rates

(* For every length of a day and of the histories, at any hour: the graphs *)
(* of response times, scores and citation rates (get_history,              *)
(* get_score_history and get_citation_history of                           *)
(* app/api/v1/monitoring.py) miss nothing of their days and repeat         *)
(* nothing, and the geo_file_score beside the newest score is the newest.  *)
THEOREM HistoriesShown ==
    ASSUME MonitoringConstants
    PROVE  M!Spec => []M!HistoryComplete
BY ResponsesShown, ScoresShown, MonitoringTypeCorrect, PTL DEF M!HistoryComplete
=============================================================================
