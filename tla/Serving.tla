-------------------------------- MODULE Serving --------------------------------
(***************************************************************************)
(* One task of the service while it serves: requests that share its        *)
(* database pool (app/db/session.py), the four threads of the chat proxy   *)
(* (app/api/v1/sites.py) and the latency window of MetricsMiddleware       *)
(* (app/middleware/metrics.py), and the health probe that decides whether  *)
(* the task lives (app/api/v1/health.py).                                  *)
(*                                                                         *)
(*   plain   wait -> auth -> work -> answer     (work -> wait -> reload)   *)
(*   chat    wait -> auth -> queue -> call -> answer                       *)
(*   health  wait -> work -> answer                                        *)
(*                                                                         *)
(* and then, as the middleware is the outermost, answer -> record ->       *)
(* [flush ->] done.  A request takes a connection with its first statement *)
(* and has it until it commits or ends, whatever else it waits for.  An    *)
(* exception that no handler expects leaves through "raise" and passes the *)
(* middleware by.                                                          *)
(***************************************************************************)
EXTENDS Naturals, Sequences, FiniteSets

CONSTANTS
    Requests,
    PoolSize,    \* connections of the pool: 5 and 10 of overflow
    Threads,     \* threads of the chat proxy (4)
    Window,      \* latencies the window holds (10000)
    P            \* the percentile that the alarm is set on (99)

ASSUME ServingAssumption ==
    /\ PoolSize \in Nat \ {0} /\ Threads \in Nat \ {0} /\ Window \in Nat \ {0}
    /\ P \in 1..100

VARIABLES
    db,        \* does the database answer?
    conn,      \* requests that have a connection of the pool
    pc, job,   \* where request r is; its kind, and where it goes with a connection
    window,    \* the latencies not flushed yet: whose, and was it too slow?
    due,       \* are 30 s gone since the last flush?
    recorded,  \* history: the requests whose latency was taken down
    batch,     \* batch[r]: the snapshot that request r flushes
    reported,  \* whose latencies CloudWatch has got
    gone       \* whose latencies fell out of the window, or were refused there

vars == <<db, conn, pc, job, window, due, recorded, batch, reported, gone>>
metrics == <<window, due, recorded, batch, reported, gone>>

Kinds == {"plain", "chat", "health"}
Latency == [of : Requests, slow : BOOLEAN]
Idle == [kind |-> "none", then |-> "none"]

Ids(lats) == {lats[i].of : i \in DOMAIN lats}
OnTheWay == UNION {Ids(batch[r]) : r \in Requests}
HasEnded(r) == pc[r] \in {"record", "flush", "done"}

TypeOK ==
    /\ db \in BOOLEAN /\ due \in BOOLEAN
    /\ conn \subseteq Requests /\ Cardinality(conn) <= PoolSize
    /\ pc \in [Requests -> {"new", "wait", "auth", "work", "reload", "queue", "call",
                            "answer", "raise", "record", "flush", "done"}]
    /\ job \in [Requests -> [kind : Kinds, then : {"auth", "work", "reload"}] \cup {Idle}]
    /\ Len(window) <= Window
    /\ \A r \in Requests : batch[r] # <<>> => pc[r] = "flush"
    /\ \A r \in Requests : r \in conn => ~HasEnded(r)
    /\ recorded \subseteq Requests /\ reported \subseteq Requests /\ gone \subseteq Requests

Init ==
    /\ db = TRUE
    /\ conn = {}
    /\ pc = [r \in Requests |-> "new"]
    /\ job = [r \in Requests |-> Idle]
    /\ window = <<>>
    /\ due = FALSE
    /\ batch = [r \in Requests |-> <<>>]
    /\ recorded = {} /\ reported = {} /\ gone = {}

-----------------------------------------------------------------------------
(* Database connections. *)
Goto(r, at) == pc' = [pc EXCEPT ![r] = at]

(* Mutant: every service has a session of its own. *)
GoOnAnew(r, at) ==
    /\ Goto(r, "wait")
    /\ job' = [job EXCEPT ![r].then = at]

(* The request goes on with the database: with the connection it has, all  *)
(* its services being given the one session, else with a new one.          *)
GoOn(r, at) ==
    IF r \in conn THEN Goto(r, at) /\ UNCHANGED job
    ELSE Goto(r, "wait") /\ job' = [job EXCEPT ![r].then = at]

(* A statement raises.  The health probe makes a 503 of it, everything     *)
(* else lets it pass.                                                      *)
Break(r) == Goto(r, IF job[r].kind = "health" THEN "answer" ELSE "raise")

Arrive(r, kind) ==
    /\ pc[r] = "new"
    /\ Goto(r, "wait")
    /\ job' = [job EXCEPT ![r] = [kind |-> kind, then |-> IF kind = "health" THEN "work" ELSE "auth"]]
    /\ UNCHANGED <<db, conn, metrics>>

(* No token, or one that does not decode: 401 without a statement. *)
ArriveWithoutToken(r) ==
    /\ pc[r] = "new"
    /\ Goto(r, "answer")
    /\ job' = [job EXCEPT ![r] = [kind |-> "plain", then |-> "auth"]]
    /\ UNCHANGED <<db, conn, metrics>>

(* A connection is free, and is tried out first (pool_pre_ping). *)
Connect(r) ==
    /\ pc[r] = "wait" /\ Cardinality(conn) < PoolSize
    /\ IF db
       THEN conn' = conn \cup {r} /\ Goto(r, job[r].then)
       ELSE Break(r) /\ UNCHANGED conn
    /\ UNCHANGED <<db, job, metrics>>

(* No connection for 30 s. *)
PoolTimeout(r) ==
    /\ pc[r] = "wait" /\ Cardinality(conn) >= PoolSize
    /\ Break(r)
    /\ UNCHANGED <<db, conn, job, metrics>>

StatementFails(r) ==
    /\ pc[r] \in {"auth", "work", "reload"} /\ ~db
    /\ Break(r)
    /\ UNCHANGED <<db, conn, job, metrics>>

(* require_authenticated has read the user: 401, 403, or the handler, that *)
(* of the chat not asking the database any more.                           *)
Authenticate(r) ==
    /\ pc[r] = "auth" /\ db
    /\ \/ Goto(r, "answer") /\ UNCHANGED job
       \/ job[r].kind = "plain" /\ GoOn(r, "work")
       \/ job[r].kind = "chat" /\ Goto(r, "queue") /\ UNCHANGED job
    /\ UNCHANGED <<db, conn, metrics>>

(* The handler has read what it needs. *)
Read(r) ==
    /\ pc[r] \in {"work", "reload"} /\ db /\ job[r].kind = "plain"
    /\ Goto(r, "answer")
    /\ UNCHANGED <<db, conn, job, metrics>>

(* Or it has written and commits, which gives the connection back; some    *)
(* handlers then load again what they return.                              *)
Commit(r) ==
    /\ pc[r] = "work" /\ db /\ job[r].kind = "plain"
    /\ conn' = conn \ {r}
    /\ \/ Goto(r, "answer") /\ UNCHANGED job
       \/ Goto(r, "wait") /\ job' = [job EXCEPT ![r].then = "reload"]
    /\ UNCHANGED <<db, metrics>>

(* SELECT 1 of the health probe. *)
Probe(r) ==
    /\ pc[r] = "work" /\ db /\ job[r].kind = "health"
    /\ conn' = conn \ {r}
    /\ Goto(r, "answer")
    /\ UNCHANGED <<db, job, metrics>>

(* A thread of the pool takes the next chat turn ... *)
StartCall(r) ==
    /\ pc[r] = "queue" /\ Cardinality({s \in Requests : pc[s] = "call"}) < Threads
    /\ Goto(r, "call")
    /\ UNCHANGED <<db, conn, job, metrics>>

(* ... and the agent answers, or fails: 503.  What is no object, or has    *)
(* not the fields of an answer, raises: it is taken apart outside the try. *)
EndCall(r) ==
    /\ pc[r] = "call"
    /\ Goto(r, "answer") \/ Goto(r, "raise")
    /\ UNCHANGED <<db, conn, job, metrics>>

(* Mutant: the session is left open when the handler has raised. *)
CloseAnswered(r) ==
    /\ pc[r] \in {"answer", "raise"}
    /\ conn' = IF pc[r] = "answer" THEN conn \ {r} ELSE conn
    /\ Goto(r, IF pc[r] = "answer" THEN "record" ELSE "done")
    /\ job' = [job EXCEPT ![r] = Idle]
    /\ UNCHANGED <<db, metrics>>

(* The session of the request is closed. *)
Close(r) ==
    /\ pc[r] \in {"answer", "raise"}
    /\ conn' = conn \ {r}
    /\ Goto(r, IF pc[r] = "answer" THEN "record" ELSE "done")
    /\ job' = [job EXCEPT ![r] = Idle]
    /\ UNCHANGED <<db, metrics>>

DatabaseStopsOrReturns == db' = ~db /\ UNCHANGED <<conn, pc, job, metrics>>

-----------------------------------------------------------------------------
(* Metrics.  Mutant: the snapshot is the window itself, empty once that is *)
(* cleared.                                                                *)
TakeBatchAliased(r, lats) ==
    /\ batch' = [batch EXCEPT ![r] = <<>>]
    /\ window' = <<>>

TakeBatch(r, lats) ==
    /\ batch' = [batch EXCEPT ![r] = lats]
    /\ window' = <<>>

(* The latency is appended, dropping the oldest of a full window; whoever  *)
(* finds the interval over takes the window, under the same lock.          *)
Record(r, slow) ==
    LET lats == Append(window, [of |-> r, slow |-> slow])
        kept == IF Len(lats) > Window THEN Tail(lats) ELSE lats
    IN
    /\ pc[r] = "record"
    /\ gone' = gone \cup (Ids(lats) \ Ids(kept))
    /\ recorded' = recorded \cup {r}
    /\ due' = FALSE
    /\ IF due
       THEN TakeBatch(r, kept) /\ Goto(r, "flush")
       ELSE window' = kept /\ Goto(r, "done") /\ UNCHANGED batch
    /\ UNCHANGED <<db, conn, job, reported>>

(* A thread sends the numbers.  What CloudWatch refuses is not sent again. *)
Flush(r) ==
    /\ pc[r] = "flush"
    /\ \/ reported' = reported \cup Ids(batch[r]) /\ UNCHANGED gone
       \/ gone' = gone \cup Ids(batch[r]) /\ UNCHANGED reported
    /\ batch' = [batch EXCEPT ![r] = <<>>]
    /\ Goto(r, "done")
    /\ UNCHANGED <<db, conn, job, window, due, recorded>>

IntervalPasses ==
    /\ ~due
    /\ due' = TRUE
    /\ UNCHANGED <<db, conn, pc, job, window, recorded, batch, reported, gone>>

(* Mutant: rounded up, as if the index began at 1. *)
PercentileSlowUp(lats) ==
    LET fast == Cardinality({i \in DOMAIN lats : ~lats[i].slow})
        idx == (Len(lats) * P) \div 100
    IN idx >= fast

(* _percentile: is the latency at sorted[max(0, n * p / 100 - 1)] a slow   *)
(* one?                                                                    *)
PercentileSlow(lats) ==
    LET fast == Cardinality({i \in DOMAIN lats : ~lats[i].slow})
        n == (Len(lats) * P) \div 100
        idx == IF n = 0 THEN 0 ELSE n - 1
    IN idx >= fast

-----------------------------------------------------------------------------
Advance(r) ==
    \/ Connect(r) \/ Authenticate(r) \/ Read(r) \/ Commit(r) \/ Probe(r) \/ StatementFails(r)
    \/ StartCall(r) \/ EndCall(r) \/ Close(r)
    \/ (\E slow \in BOOLEAN : Record(r, slow)) \/ Flush(r)

Next ==
    \/ \E r \in Requests :
          \/ \E kind \in Kinds : Arrive(r, kind)
          \/ ArriveWithoutToken(r)
          \/ PoolTimeout(r)
          \/ Advance(r)
    \/ DatabaseStopsOrReturns
    \/ IntervalPasses

Spec == Init /\ [][Next]_vars

(* The event loop and the threads run, the agent's client has its          *)
(* timeouts, and pool and executor do not leave a waiter waiting for ever  *)
(* while they have something free.  PoolTimeout is left out on purpose.    *)
FairSpec == Spec /\ \A r \in Requests : WF_vars(Advance(r))

-----------------------------------------------------------------------------
(* A latency that was taken down is in exactly one place, and no other is  *)
(* in any: in the window, on its way in one batch, arrived, or lost in one *)
(* of the two ways there are (metrics.py:40-48, 63-78).                    *)
CountedOnce ==
    /\ recorded = Ids(window) \cup OnTheWay \cup reported \cup gone
    /\ \A r, s \in Requests : r # s => Ids(batch[r]) \cap Ids(batch[s]) = {}
    /\ \A r \in Requests : Ids(batch[r]) \cap (Ids(window) \cup reported \cup gone) = {}
    /\ Ids(window) \cap (reported \cup gone) = {}
    /\ reported \cap gone = {}
    /\ Cardinality(Ids(window)) = Len(window)

(* The percentile that CloudWatch gets is that of a slow request only if   *)
(* more than 100 - P percent of the batch were slow, and always if at the  *)
(* least that many and one more were.                                      *)
AlarmIsRight ==
    \A r \in Requests : pc[r] = "flush" =>
        LET slow == Cardinality({i \in DOMAIN batch[r] : batch[r][i].slow}) * 100
            tail == Len(batch[r]) * (100 - P)
        IN  /\ PercentileSlow(batch[r]) => slow > tail
            /\ slow >= tail + 100 => PercentileSlow(batch[r])

(* Every request is answered and leaves the middleware, without anybody    *)
(* being thrown out of the pool's queue: no two of them wait for each      *)
(* other's connection.                                                     *)
RequestsEnd == \A r \in Requests : (pc[r] # "new") ~> (pc[r] = "done")

-----------------------------------------------------------------------------
(* Not what the code does.  The probe answers 503, and has the task        *)
(* replaced, only for an outage of the database (health.py:31-33).         *)
HealthHonest ==
    [][\A r \in Requests : pc[r] = "wait" /\ pc'[r] = "answer" => ~db]_vars

(* Nor this.  A slow request in the batch shows in the percentile that is  *)
(* to warn of it (infra/cloudwatch-slo-alarm.sh).                          *)
TailSeen ==
    \A r \in Requests : pc[r] = "flush" /\ (\E i \in DOMAIN batch[r] : batch[r][i].slow) =>
        PercentileSlow(batch[r])
=============================================================================
