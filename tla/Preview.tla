-------------------------------- MODULE Preview --------------------------------
(***************************************************************************)
(* Previews of one site: create_preview of app/api/v1/sites.py with a P3   *)
(* build worker.  What a preview shows passes through two S3 objects that  *)
(* all previews of the site share: preview/render_spec.json, which the     *)
(* request writes, and preview/index.html, which the worker writes and the *)
(* request reads back.                                                     *)
(*                                                                         *)
(*   preview   idle -> upload -> call -> wait -> read -> idle              *)
(*   worker    free -> called -> read -> free                              *)
(*                                                                         *)
(* Requests run in several tasks, and while one waits for the worker its   *)
(* task serves others.  A worker goes on after its caller has given up.    *)
(*                                                                         *)
(* An entry is what the owner told the chat agent: the template, the name  *)
(* over the page (of the business, its region or its author), one or two   *)
(* lists of what is offered, and whether the agent hands lists over as     *)
(* lists or as texts (of wines it always makes a text).                    *)
(***************************************************************************)
EXTENDS RenderSpec, FiniteSets

CONSTANTS
    Requests, Builds,   \* preview requests, builds of the worker
    Entries,            \* [template, name, list, more, as]
    None,               \* no such object
    MaxTold             \* bound: contracts of a site in a behaviour

ASSUME PreviewAssumption == None \notin Entries \cup Builds

VARIABLES
    told,    \* the entries of the site's contracts, in S3 and in memories
    spec,    \* preview/render_spec.json
    page,    \* preview/index.html
    build,   \* build[b]: where build b is, and the spec it has read
    pc,      \* pc[r]: where request r is
    job      \* job[r]: its contract, its build, and (history) seen: the specs
             \* that may have become a page since it uploaded its own

vars == <<told, spec, page, build, pc, job>>

(* What the chat agent writes: lists, or texts in the forms that the       *)
(* parsers of RenderSpec document.  Of names and descriptions they ask     *)
(* that a text has no comma in them, and names no slash.                   *)
ItemText(item) ==
    item.name \o (IF item.desc = <<>> THEN <<>> ELSE <<"/">> \o item.desc)

WineText(wine) ==
    IF wine.price = <<>> THEN wine.name
    ELSE wine.name \o <<"/">> \o wine.type \o <<"/">> \o wine.price
            \o (IF wine.desc = <<>> THEN <<>> ELSE <<"/">> \o wine.desc)

Joined(texts) ==
    FoldLeft(LAMBDA text, part : IF text = <<>> THEN part ELSE text \o <<",">> \o part,
             <<>>, texts)

ItemList(items, as) ==
    LET texts == [i \in DOMAIN items |-> ItemText(items[i])]
    IN  IF as = "list" THEN AsList(texts) ELSE AsText(Joined(texts))
WineList(wines) == Joined([i \in DOMAIN wines |-> WineText(wines[i])])

ContractOf(e) ==
    LET For(template, text) == IF e.template = template THEN text ELSE <<>>
        ListFor(template, list) ==
            IF e.template = template THEN ItemList(list, e.as) ELSE AsText(<<>>)
    IN  [template |-> e.template,
         slots |-> [business_name |-> e.name,
                    business_region |-> e.name,
                    author_info |-> For("career", e.name),
                    wine_lineup |-> For("wine", WineList(e.list)),
                    tax_services |-> ListFor("tax", e.list),
                    portfolio_projects |-> ListFor("career", e.list),
                    learning_activities |-> ListFor("career", e.more),
                    core_services |-> ListFor("general", e.list)]]

SpecOf == [e \in Entries |-> BuildRenderSpec(ContractOf(e))]

Pages == {SpecOf[e] : e \in Entries}

FreeBuild == [at |-> "free", spec |-> None]
NoJob == [entry |-> None, build |-> None, seen |-> {}]

TypeOK ==
    /\ told \subseteq Entries
    /\ spec \in Pages \cup {None}
    /\ page \in Pages \cup {None}
    /\ build \in [Builds -> [at : {"free", "called", "read"}, spec : Pages \cup {None}]]
    /\ pc \in [Requests -> {"idle", "upload", "call", "wait", "read"}]
    /\ job \in [Requests -> [entry : Entries \cup {None}, build : Builds \cup {None},
                             seen : SUBSET Pages]]
    /\ \A r \in Requests : (pc[r] = "idle" => job[r] = NoJob)
                           /\ (pc[r] # "wait" => job[r].build = None)

Init ==
    /\ told \in {es \in SUBSET Entries : Cardinality(es) \in 1..MaxTold}
    /\ spec = None
    /\ page = None
    /\ build = [b \in Builds |-> FreeBuild]
    /\ pc = [r \in Requests |-> "idle"]
    /\ job = [r \in Requests |-> NoJob]

-----------------------------------------------------------------------------
End(r) ==
    /\ pc' = [pc EXCEPT ![r] = "idle"]
    /\ job' = [job EXCEPT ![r] = NoJob]

Goto(r, at) == pc' = [pc EXCEPT ![r] = at]

(* The contract is read from S3, where the chat agent may have replaced    *)
(* it; if none is there, the task's memory gives one, of which a page      *)
(* shows the name and the core services ("general").                       *)
BeginPreview(r, e) ==
    /\ pc[r] = "idle" /\ e \in told
    /\ Goto(r, "upload")
    /\ job' = [job EXCEPT ![r].entry = e]
    /\ UNCHANGED <<told, spec, page, build>>

(* What the builds that have read it will still write. *)
InBuilds == {build[b].spec : b \in {c \in Builds : build[c].at = "read"}}

UploadSpec(r) ==
    /\ pc[r] = "upload"
    /\ spec' = SpecOf[job[r].entry]
    /\ job' = [s \in Requests |->
                 CASE s = r -> [job[s] EXCEPT !.seen = InBuilds \cup {spec'}]
                   [] s # r /\ pc[s] \in {"call", "wait", "read"} ->
                        [job[s] EXCEPT !.seen = @ \cup {spec'}]
                   [] OTHER -> job[s]]
    /\ Goto(r, "call")
    /\ UNCHANGED <<told, page, build>>

(* POST /build: the worker is told the site, not the spec. *)
CallWorker(r, b) ==
    /\ pc[r] = "call" /\ build[b] = FreeBuild
    /\ build' = [build EXCEPT ![b].at = "called"]
    /\ job' = [job EXCEPT ![r].build = b]
    /\ Goto(r, "wait")
    /\ UNCHANGED <<told, spec, page>>

WorkerReads(b) ==
    /\ build[b].at = "called"
    /\ build' = [build EXCEPT ![b] = [at |-> "read", spec |-> spec]]
    /\ UNCHANGED <<told, spec, page, pc, job>>

(* The worker writes the page and answers, if its caller still listens. *)
WorkerWrites(b) ==
    /\ build[b].at = "read"
    /\ page' = build[b].spec
    /\ build' = [build EXCEPT ![b] = FreeBuild]
    /\ pc' = [r \in Requests |-> IF job[r].build = b THEN "read" ELSE pc[r]]
    /\ job' = [r \in Requests |->
                 IF job[r].build = b THEN [job[r] EXCEPT !.build = None] ELSE job[r]]
    /\ UNCHANGED <<told, spec>>

(* It ends without a page; its caller, if any, has given up before. *)
WorkerDies(b) ==
    /\ build[b] # FreeBuild /\ \A r \in Requests : job[r].build # b
    /\ build' = [build EXCEPT ![b] = FreeBuild]
    /\ UNCHANGED <<told, spec, page, pc, job>>

(* Mutant: the worker is waited for as long as it takes. *)
NoTimeout(r) == FALSE

(* Mutant: without an answer, the page that is there is shown. *)
GiveUpShowing(r) ==
    /\ pc[r] = "wait"
    /\ Goto(r, "read")
    /\ job' = [job EXCEPT ![r].build = None]
    /\ UNCHANGED <<told, spec, page, build>>

(* 503: an error, or no answer for 120 s. *)
GiveUp(r) ==
    /\ pc[r] = "wait"
    /\ End(r)
    /\ UNCHANGED <<told, spec, page, build>>

(* The page is read back, its style sheets inlined, and returned. *)
ReadPage(r) ==
    /\ pc[r] = "read"
    /\ End(r)
    /\ UNCHANGED <<told, spec, page, build>>

(* S3 fails, or the worker cannot be reached. *)
Fail(r) ==
    /\ pc[r] \in {"upload", "call", "read"}
    /\ End(r)
    /\ UNCHANGED <<told, spec, page, build>>

-----------------------------------------------------------------------------
Serve(r) ==
    \/ UploadSpec(r) \/ GiveUp(r) \/ ReadPage(r)
    \/ \E b \in Builds : CallWorker(r, b)

Next ==
    \/ \E r \in Requests :
          \/ \E e \in Entries : BeginPreview(r, e)
          \/ Serve(r) \/ Fail(r)
    \/ \E b \in Builds : WorkerReads(b) \/ WorkerWrites(b) \/ WorkerDies(b)

Spec == Init /\ [][Next]_vars

(* The event loop and the 120 s timer of the HTTP client run (SF: requests *)
(* share the builds); a build nobody waits for ends, one way or another.   *)
FairSpec ==
    /\ Spec
    /\ \A r \in Requests : SF_vars(Serve(r))
    /\ \A b \in Builds : WF_vars(WorkerDies(b))

-----------------------------------------------------------------------------
ShowsItem(shown, item) ==
    /\ shown.name = item.name
    /\ shown.price = item.price
    /\ IsPrefix(item.type, shown.desc) /\ IsSuffix(item.desc, shown.desc)

(* Page p says what entry e said: it bears its name, and shows in order    *)
(* the first items of both lists, each with its own description and price; *)
(* a wine page is headed by the first wine.                                *)
Shows(p, e) ==
    /\ p # None
    /\ p.category = Category[e.template]
    /\ IF e.template # "wine" THEN p.h1 = e.name
       ELSE /\ p.h1 = Head(e.list).name
            /\ p.price = Head(e.list).price
            /\ p.subheadline = Head(e.list).desc
    /\ \E n \in 0..Len(e.list), m \in 0..Len(e.more) :
          /\ (n = 0) <=> (e.list = <<>>)
          /\ (m = 0) <=> (e.more = <<>>)
          /\ LET items == SubSeq(e.list, 1, n) \o SubSeq(e.more, 1, m)
             IN  /\ Len(p.items) = Len(items)
                 /\ \A i \in DOMAIN items : ShowsItem(p.items[i], items[i])

(* Previews of a site may show each other's pages, and those of builds     *)
(* that outlived their request, but none from before: what a preview is    *)
(* about to return was built of a spec that was uploaded with or after its *)
(* own, or that a build still had in hand then (sites.py:877-911).         *)
PreviewOfItsTime == \A r \in Requests : pc[r] = "read" => page \in job[r].seen

(* No part of a list of wines can be taken for the rest of a price. *)
Parsable(e) ==
    e.template = "wine" => \A i \in 2..Len(e.list) : Head(e.list[i].name) \notin Numbers

Alone(r) == pc[r] = "read" /\ job[r].seen = {SpecOf[job[r].entry]}

(* A preview that meets no other page returns one that says what the owner *)
(* had said to the chat agent: through the agent's texts, the parsers of   *)
(* sites.py and the two S3 objects; unless a wine is named by a number.    *)
LonePreviewFaithful ==
    \A r \in Requests : Alone(r) /\ Parsable(job[r].entry) => Shows(page, job[r].entry)

(* sites.py:280-281: prices with commas are dealt with, and the form of a  *)
(* wine is name/type/price/description: any name is a name.                *)
LonePreviewShowsNumbers ==
    \A r \in Requests : Alone(r) => Shows(page, job[r].entry)

(* Every preview ends, whatever the worker does. *)
PreviewsEnd == \A r \in Requests : (pc[r] # "idle") ~> (pc[r] = "idle")

(* sites.py:815: contract -> render_spec to S3 -> worker -> HTML returned: *)
(* the page a preview is about to return is that of the contract it read.  *)
PreviewShowsContract ==
    \A r \in Requests : pc[r] = "read" => page = SpecOf[job[r].entry]
=============================================================================
