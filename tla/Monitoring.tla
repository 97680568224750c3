------------------------------ MODULE Monitoring ------------------------------
(***************************************************************************)
(* Monitoring of one published site: app/api/v1/monitoring.py over the     *)
(* report_scores table of DynamoDB, whose items for a site are sorted by   *)
(* the text "REPORT#<time>".  Measurements are stored under the moment     *)
(* they were stored; the report agent stores scores under the bare date,   *)
(* which sorts before all moments of that day, and citation rates under    *)
(* "CITATION#<date>".  An item stored again replaces the older one.        *)
(*                                                                         *)
(*   snapshot   idle -> measure -> idle                                    *)
(***************************************************************************)
EXTENDS Naturals, Sequences, FiniteSets, SequencesExt, FiniteSetsExt

CONSTANTS
    Requests,      \* calls of GET .../monitoring/snapshot
    Day,           \* moments in a day, 24 h: the age up to which a snapshot is reused
    HistoryDays,   \* days that GET .../monitoring/history shows (7)
    ScoreDays,     \* days that the histories of scores and citations go back (90)
    MaxTime,       \* bound: the last moment of a behaviour
    None           \* no such item

ASSUME MonitoringAssumption ==
    /\ Day \in Nat \ {0} /\ HistoryDays \in Nat \ {0}
    /\ ScoreDays \in Nat /\ MaxTime \in Nat
    /\ None \notin Nat

VARIABLES
    now,        \* the time, in moments
    snapshots,  \* moments under which measurements are stored
    scores,     \* scores[d]: the item of the report agent for day d, or None
    citations,  \* days for which it stored citation rates
    pc          \* pc[r]: "idle" or "measure"

vars == <<now, snapshots, scores, citations, pc>>
reports == <<scores, citations>>

Days == 0..(MaxTime \div Day)

(* What tells items apart: has the score a geo_file_score? *)
Score == [geo : BOOLEAN]

TypeOK ==
    /\ now \in 0..MaxTime
    /\ snapshots \subseteq 0..now
    /\ scores \in [Days -> Score \cup {None}]
    /\ \A d \in Days : d > now \div Day => scores[d] = None
    /\ citations \subseteq 0..(now \div Day)
    /\ pc \in [Requests -> {"idle", "measure"}]

Init ==
    /\ now = 0
    /\ snapshots = {}
    /\ scores = [d \in Days |-> None]
    /\ citations = {}
    /\ pc = [r \in Requests |-> "idle"]

-----------------------------------------------------------------------------
(* Sort keys, as numbers in the order of the texts. *)
MomentKey(t) == 2 * t + 1
DateKey(d) == 2 * d * Day

Scored == {d \in Days : scores[d] # None}

Keys == {MomentKey(t) : t \in snapshots} \cup {DateKey(d) : d \in Scored}

DateOf(t) == t \div Day

(* sk >= "REPORT#<now - days>"; before the first day the bound cuts nothing. *)
From(days) == {k \in Keys : k + 2 * days * Day >= MomentKey(now)}

(* _load_latest_snapshot: the newest item of the last 24 hours, if that is *)
(* a snapshot.                                                             *)
LatestSnapshot ==
    LET newest == Max(From(1)) IN
        IF From(1) = {} \/ newest % 2 = 0 THEN None ELSE newest \div 2

(* Mutant: the query begins one day late. *)
LoadHistoryShort(days) == {k \div 2 : k \in {k \in From(days - 1) : k % 2 = 1}}

(* _load_history: the snapshots from now - days on. *)
LoadHistory(days) == {k \div 2 : k \in {k \in From(days) : k % 2 = 1}}

(* _build_history_from_items: for each of the last days the last item of   *)
(* that date, in the order of the keys.                                    *)
History(d) ==
    LET items == {t \in LoadHistory(HistoryDays) : DateOf(t) = d} IN
        IF items = {} THEN None ELSE Max(items)

(* The items of a query, by ascending key (ScanIndexForward). *)
InOrder(items) ==
    CHOOSE list \in [1..Cardinality(items) -> items] :
        \A i, j \in DOMAIN list : i < j => list[i] < list[j]

(* _load_score_history: the items with a score from the date of            *)
(* now - days on.                                                          *)
LoadScoreHistory(days) ==
    InOrder({d \in Scored : DateKey(d) + 2 * days * Day >= DateKey(DateOf(now))})

(* _load_citation_history, likewise. *)
LoadCitationHistory(days) == InOrder({d \in citations : d + days >= DateOf(now)})

(* get_score_history: what it calls the latest, and the newest item of     *)
(* all that has a geo_file_score.                                          *)
LatestScore ==
    LET history == LoadScoreHistory(ScoreDays) IN
        IF history = <<>> THEN None ELSE Last(history)
GeoScore ==
    LET history == LoadScoreHistory(ScoreDays)
        newest == SelectLastInSeq(history, LAMBDA d : scores[d].geo)
    IN  IF newest = 0 THEN None ELSE history[newest]

ShownDays == {d \in 0..DateOf(now) : d + HistoryDays > DateOf(now)}

-----------------------------------------------------------------------------
(* get_snapshot with nothing cached measures the site, and so it does when *)
(* DynamoDB does not answer; with a snapshot in the cache it answers at    *)
(* once and changes nothing.                                               *)
BeginMeasure(r, answers) ==
    /\ pc[r] = "idle" /\ (answers => LatestSnapshot = None)
    /\ pc' = [pc EXCEPT ![r] = "measure"]
    /\ UNCHANGED <<now, snapshots, reports>>

(* No two moments of storing are the same (microseconds). *)
SaveSnapshot(r) ==
    /\ pc[r] = "measure" /\ now \notin snapshots
    /\ snapshots' = snapshots \cup {now}
    /\ pc' = [pc EXCEPT ![r] = "idle"]
    /\ UNCHANGED <<now, reports>>

(* DynamoDB fails and the snapshot is lost; so it is in a crash. *)
LoseSnapshot(r) ==
    /\ pc[r] = "measure"
    /\ pc' = [pc EXCEPT ![r] = "idle"]
    /\ UNCHANGED <<now, snapshots, reports>>

(* The report agent, on any day (once a week), or again on the same. *)
ReportScore(item) ==
    /\ scores' = [scores EXCEPT ![DateOf(now)] = item]
    /\ UNCHANGED <<now, snapshots, citations, pc>>

ReportCitations ==
    /\ citations' = citations \cup {DateOf(now)}
    /\ UNCHANGED <<now, snapshots, scores, pc>>

Tick ==
    /\ now < MaxTime
    /\ now' = now + 1
    /\ UNCHANGED <<snapshots, reports, pc>>

Next ==
    \/ \E r \in Requests :
          \/ \E answers \in BOOLEAN : BeginMeasure(r, answers)
          \/ SaveSnapshot(r) \/ LoseSnapshot(r)
    \/ \E item \in Score : ReportScore(item)
    \/ ReportCitations
    \/ Tick

Spec == Init /\ [][Next]_vars

-----------------------------------------------------------------------------
(* At any hour, the history shows for each of its days the last            *)
(* measurement of the whole day: the query, which goes back by hours,      *)
(* never cuts into the first of the days, which are counted by date.       *)
ResponsesComplete ==
    \A d \in ShownDays :
        LET stored == {t \in snapshots : DateOf(t) = d} IN
            History(d) = IF stored = {} THEN None ELSE Max(stored)

(* At any hour, the scores and citation rates of the last days are shown,  *)
(* each once and in order, though snapshots lie between the scores; the    *)
(* geo_file_score shown beside the newest score is not older than          *)
(* another one of them.                                                    *)
ScoresComplete ==
    LET recent(days) == {d \in days : d + ScoreDays >= DateOf(now)}
        shows(history, days) ==
            /\ ToSet(history) = recent(days)
            /\ \A i, j \in DOMAIN history : i < j => history[i] < history[j]
    IN
    /\ shows(LoadScoreHistory(ScoreDays), Scored)
    /\ shows(LoadCitationHistory(ScoreDays), citations)
    /\ \A d \in recent(Scored) :
          /\ d <= LatestScore
          /\ scores[d].geo => GeoScore # None /\ d <= GeoScore /\ GeoScore <= LatestScore

(* All three graphs are complete at every hour. *)
HistoryComplete == ResponsesComplete /\ ScoresComplete

(* monitoring.py:275: a snapshot of the last 24 hours is found in the      *)
(* cache.                                                                  *)
RecentSnapshotFound ==
    (\E t \in snapshots : t + Day >= now) => LatestSnapshot # None
=============================================================================
