------------------------------ MODULE Serving_proofs ---------------------------
(***************************************************************************)
(* Theorems about Serving, for every set of requests, every size of the    *)
(* database pool, the chat proxy's executor and the latency window, and    *)
(* every percentile.                                                       *)
(***************************************************************************)
EXTENDS Serving, FiniteSetTheorems, TLAPS

-----------------------------------------------------------------------------
(* The inductive invariant. *)

JobRow == [kind : Kinds, then : {"auth", "work", "reload"}]

Outside == {"new", "record", "flush", "done"}

(* A request inside the application knows its kind and where it goes on.   *)
InApplication == \A r \in Requests : pc[r] \notin Outside => job[r] \in JobRow

(* Latencies of different requests, as many as requests. *)
GoodWindow(lats) ==
    /\ lats \in Seq(Latency)
    /\ \A i, j \in DOMAIN lats : lats[i].of = lats[j].of => i = j
    /\ IsFiniteSet(Ids(lats)) /\ Cardinality(Ids(lats)) = Len(lats)

(* Whose latency was recorded has left the application. *)
RecordedAtEnd ==
    \A r \in Requests :
        r \in Ids(window) \cup reported \cup gone \/ (\E s \in Requests : r \in Ids(batch[s]))
            => pc[r] \in {"flush", "done"}

Batches ==
    /\ batch \in [Requests -> Seq(Latency)]
    /\ \A r \in Requests : pc[r] = "flush" => batch[r] # <<>>

ServingInv ==
    /\ TypeOK /\ IsFiniteSet(conn) /\ InApplication
    /\ GoodWindow(window) /\ Batches /\ RecordedAtEnd /\ CountedOnce

-----------------------------------------------------------------------------
(* The percentile: arithmetic that no instance settles. *)

(* The slow and the other latencies of a batch are all of it. *)
LEMMA SlowAndFast ==
    ASSUME NEW lats \in Seq(Latency)
    PROVE  /\ Cardinality({i \in DOMAIN lats : lats[i].slow}) \in Nat
           /\ Cardinality({i \in DOMAIN lats : ~lats[i].slow}) \in Nat
           /\ Cardinality({i \in DOMAIN lats : lats[i].slow})
                + Cardinality({i \in DOMAIN lats : ~lats[i].slow}) = Len(lats)
<1> DEFINE S == {i \in DOMAIN lats : lats[i].slow}
           F == {i \in DOMAIN lats : ~lats[i].slow}
<1>1. DOMAIN lats = 1..Len(lats) /\ Len(lats) \in Nat
  OBVIOUS
<1>2. IsFiniteSet(DOMAIN lats) /\ Cardinality(DOMAIN lats) = Len(lats)
  BY <1>1, FS_Interval
<1>3. IsFiniteSet(S) /\ IsFiniteSet(F)
  <2>1. S \subseteq DOMAIN lats /\ F \subseteq DOMAIN lats
    OBVIOUS
  <2>2. QED
    BY <1>2, <2>1, FS_Subset
<1>4. S \cup F = DOMAIN lats /\ S \cap F = {}
  OBVIOUS
<1>5. Cardinality(S) \in Nat /\ Cardinality(F) \in Nat
  BY <1>3, FS_CardinalityType
<1>6. Cardinality(S \cup F) = Cardinality(S) + Cardinality(F) - Cardinality(S \cap F)
  BY <1>3, FS_Union
<1>7. Cardinality(S \cap F) = 0
  BY <1>4, FS_EmptySet
<1> HIDE DEF S, F
<1>8. Cardinality(S) + Cardinality(F) = Len(lats)
  BY <1>2, <1>4, <1>5, <1>6, <1>7
<1>9. QED
  BY <1>5, <1>8 DEF S, F

(* n latencies, of which f are fast: if the entry n * P / 100 from the     *)
(* bottom is a slow one, more than n * (100 - P) / 100 of them are, and it *)
(* is if one more than that are.                                           *)
LEMMA Percentile ==
    ASSUME NEW n \in Nat, n > 0, NEW f \in Nat, f <= n, NEW idx \in Nat,
           idx = IF (n * P) \div 100 = 0 THEN 0 ELSE ((n * P) \div 100) - 1
    PROVE  /\ idx >= f => (n - f) * 100 > n * (100 - P)
           /\ (n - f) * 100 >= n * (100 - P) + 100 => idx >= f
<1> DEFINE q == n * P
           m == q \div 100
<1>1. P \in Int /\ 1 <= P /\ P <= 100
  BY ServingAssumption
<1>2. q \in Int /\ q >= 1
  <2>1. q \in Int
    BY <1>1
  <2>2. n * P >= n * 1
    BY <1>1
  <2>3. QED
    BY <2>1, <2>2
<1>3. n * (100 - P) = n * 100 - q
  BY <1>1
<1> HIDE DEF q
<1>4. m \in Int /\ m * 100 <= q /\ q < m * 100 + 100
  BY <1>2
<1>5. idx = IF m = 0 THEN 0 ELSE m - 1
  BY DEF q
<1> HIDE DEF m
<1>6. idx >= f => (n - f) * 100 > n * 100 - q
  BY <1>2, <1>4, <1>5
<1>7. (n - f) * 100 >= n * 100 - q + 100 => idx >= f
  BY <1>2, <1>4, <1>5
<1>8. QED
  BY <1>3, <1>6, <1>7

LEMMA AlarmBounds ==
    ASSUME NEW lats \in Seq(Latency), lats # <<>>
    PROVE  LET slow == Cardinality({i \in DOMAIN lats : lats[i].slow}) * 100
               tail == Len(lats) * (100 - P)
           IN  /\ PercentileSlow(lats) => slow > tail
               /\ slow >= tail + 100 => PercentileSlow(lats)
<1> DEFINE s == Cardinality({i \in DOMAIN lats : lats[i].slow})
           f == Cardinality({i \in DOMAIN lats : ~lats[i].slow})
           n == Len(lats)
           idx == IF (n * P) \div 100 = 0 THEN 0 ELSE ((n * P) \div 100) - 1
<1>1. s \in Nat /\ f \in Nat /\ s + f = n /\ n \in Nat /\ n > 0
  <2>1. n \in Nat /\ n > 0
    OBVIOUS
  <2>2. QED
    BY <2>1, SlowAndFast
<1>2. PercentileSlow(lats) <=> idx >= f
  BY DEF PercentileSlow
<1> HIDE DEF s, f, n
<1>3. idx \in Nat
  <2>1. n * P \in Nat
    BY <1>1, ServingAssumption
  <2>2. (n * P) \div 100 \in Nat
    BY <2>1
  <2>3. QED
    BY <2>2
<1>4. /\ idx >= f => (n - f) * 100 > n * (100 - P)
      /\ (n - f) * 100 >= n * (100 - P) + 100 => idx >= f
  <2> HIDE DEF idx
  <2>1. idx = IF (n * P) \div 100 = 0 THEN 0 ELSE ((n * P) \div 100) - 1
    BY DEF idx
  <2>2. f <= n
    BY <1>1
  <2>3. QED
    BY <1>1, <1>3, <2>1, <2>2, Percentile
<1>5. s = n - f
  BY <1>1
<1> HIDE DEF idx
<1>6. /\ PercentileSlow(lats) => s * 100 > n * (100 - P)
      /\ s * 100 >= n * (100 - P) + 100 => PercentileSlow(lats)
  BY <1>2, <1>4, <1>5
<1>7. QED
  BY <1>6 DEF s, n

-----------------------------------------------------------------------------
(* The window: appending and dropping keep it good. *)

LEMMA IdsOf ==
    ASSUME NEW lats \in Seq(Latency)
    PROVE  Ids(lats) \subseteq Requests
<1>1. \A i \in DOMAIN lats : lats[i] \in Latency
  OBVIOUS
<1>2. QED
  BY <1>1 DEF Ids, Latency

LEMMA EmptyWindow ==
    GoodWindow(<<>>) /\ Ids(<<>>) = {}
<1>1. Ids(<<>>) = {}
  BY DEF Ids
<1>2. QED
  BY <1>1, FS_EmptySet DEF GoodWindow

LEMMA AppendWindow ==
    ASSUME NEW lats, GoodWindow(lats), NEW lat \in Latency, lat.of \notin Ids(lats)
    PROVE  /\ GoodWindow(Append(lats, lat))
           /\ Ids(Append(lats, lat)) = Ids(lats) \cup {lat.of}
           /\ Len(Append(lats, lat)) = Len(lats) + 1
<1> DEFINE n == Len(lats)
           new == Append(lats, lat)
<1>1. lats \in Seq(Latency) /\ n \in Nat /\ DOMAIN lats = 1..n
  BY DEF GoodWindow
<1>2. /\ new \in Seq(Latency) /\ Len(new) = n + 1 /\ DOMAIN new = 1..(n + 1)
      /\ new[n + 1] = lat /\ \A i \in 1..n : new[i] = lats[i]
  BY <1>1
<1> HIDE DEF new
<1>3. Ids(new) = Ids(lats) \cup {lat.of}
  BY <1>1, <1>2 DEF Ids
<1>4. \A i, j \in DOMAIN new : new[i].of = new[j].of => i = j
  <2>1. \A i, j \in 1..n : lats[i].of = lats[j].of => i = j
    BY <1>1 DEF GoodWindow
  <2>2. \A i \in 1..n : lats[i].of \in Ids(lats)
    BY <1>1 DEF Ids
  <2>3. \A i \in 1..n : new[i].of = lats[i].of
    BY <1>2
  <2>4. new[n + 1].of = lat.of
    BY <1>2
  <2>5. ASSUME NEW i \in 1..(n + 1), NEW j \in 1..(n + 1), new[i].of = new[j].of
        PROVE  i = j
    <3>1. CASE i \in 1..n /\ j \in 1..n
      BY <2>1, <2>3, <2>5, <3>1
    <3>2. CASE i = n + 1 /\ j \in 1..n
      BY <2>2, <2>3, <2>4, <2>5, <3>2
    <3>3. CASE i \in 1..n /\ j = n + 1
      BY <2>2, <2>3, <2>4, <2>5, <3>3
    <3>4. CASE i = n + 1 /\ j = n + 1
      BY <3>4
    <3>5. (i \in 1..n \/ i = n + 1) /\ (j \in 1..n \/ j = n + 1)
      BY <1>1
    <3>6. QED
      BY <3>1, <3>2, <3>3, <3>4, <3>5
  <2>6. QED
    BY <1>2, <2>5
<1>5. IsFiniteSet(Ids(new)) /\ Cardinality(Ids(new)) = Len(new)
  BY <1>2, <1>3, FS_AddElement DEF GoodWindow
<1>6. QED
  BY <1>2, <1>3, <1>4, <1>5 DEF GoodWindow, new

LEMMA TailWindow ==
    ASSUME NEW lats, GoodWindow(lats), lats # <<>>
    PROVE  /\ GoodWindow(Tail(lats))
           /\ Ids(Tail(lats)) = Ids(lats) \ {lats[1].of}
           /\ Len(Tail(lats)) = Len(lats) - 1
<1> DEFINE n == Len(lats)
           new == Tail(lats)
<1>1. lats \in Seq(Latency) /\ n \in Nat /\ n > 0 /\ DOMAIN lats = 1..n
  BY DEF GoodWindow
<1>2. /\ new \in Seq(Latency) /\ Len(new) = n - 1 /\ DOMAIN new = 1..(n - 1)
      /\ \A i \in 1..(n - 1) : new[i] = lats[i + 1]
  BY <1>1
<1>3. \A i, j \in 1..n : lats[i].of = lats[j].of => i = j
  BY <1>1 DEF GoodWindow
<1> HIDE DEF new, n
<1>4. Ids(new) = Ids(lats) \ {lats[1].of}
  <2>1. ASSUME NEW x \in Ids(new) PROVE x \in Ids(lats) /\ x # lats[1].of
    <3>1. PICK i \in 1..(n - 1) : x = lats[i + 1].of
      BY <1>2, <2>1 DEF Ids
    <3>2. i + 1 \in 1..n /\ 1 \in 1..n /\ i + 1 # 1
      BY <1>1
    <3>3. QED
      BY <1>1, <1>3, <3>1, <3>2 DEF Ids
  <2>2. ASSUME NEW x \in Ids(lats), x # lats[1].of PROVE x \in Ids(new)
    <3>1. PICK i \in 1..n : x = lats[i].of
      BY <1>1, <2>2 DEF Ids
    <3>2. i - 1 \in 1..(n - 1) /\ (i - 1) + 1 = i
      BY <1>1, <2>2, <3>1
    <3>3. new[i - 1] = lats[i]
      BY <1>2, <3>2
    <3>4. QED
      BY <1>2, <3>1, <3>2, <3>3 DEF Ids
  <2>3. QED
    BY <2>1, <2>2
<1>5. \A i, j \in DOMAIN new : new[i].of = new[j].of => i = j
  <2>1. ASSUME NEW i \in 1..(n - 1), NEW j \in 1..(n - 1), new[i].of = new[j].of
        PROVE  i = j
    <3>1. i + 1 \in 1..n /\ j + 1 \in 1..n
      BY <1>1
    <3>2. i + 1 = j + 1
      BY <1>2, <1>3, <2>1, <3>1
    <3>3. QED
      BY <3>2
  <2>2. QED
    BY <1>2, <2>1
<1>6. lats[1].of \in Ids(lats)
  BY <1>1 DEF Ids
<1>7. IsFiniteSet(Ids(new)) /\ Cardinality(Ids(new)) = Len(new)
  <2>1. IsFiniteSet(Ids(lats)) /\ Cardinality(Ids(lats)) = n
    BY DEF GoodWindow, n
  <2>2. /\ IsFiniteSet(Ids(lats) \ {lats[1].of})
        /\ Cardinality(Ids(lats) \ {lats[1].of}) = n - 1
    BY <1>6, <2>1, FS_RemoveElement
  <2>3. QED
    BY <1>2, <1>4, <2>2
<1>8. QED
  BY <1>2, <1>4, <1>5, <1>7 DEF GoodWindow, new, n

-----------------------------------------------------------------------------
(* What a step does. *)

(* A request goes to another place inside the application, or leaves it;   *)
(* its connection may come or go, the numbers stay.                        *)
PoolMoves(r) ==
    /\ pc[r] \notin {"record", "flush", "done"}
    /\ \E at \in {"wait", "auth", "work", "reload", "queue", "call", "answer", "raise",
                  "record", "done"}, j \in JobRow \cup {Idle} :
          /\ pc' = [pc EXCEPT ![r] = at] /\ job' = [job EXCEPT ![r] = j]
          /\ at \in {"record", "done"} => r \notin conn'
          /\ at \notin {"record", "done"} => j \in JobRow
    /\ \/ conn' \in {conn, conn \ {r}}
       \/ conn' = conn \cup {r} /\ Cardinality(conn) < PoolSize
    /\ UNCHANGED metrics
    /\ db' \in BOOLEAN

(* Nobody moves. *)
Quiet ==
    /\ UNCHANGED <<conn, pc, job, window, recorded, batch, reported, gone>>
    /\ db' \in BOOLEAN /\ due' \in BOOLEAN

LEMMA ThenRow ==
    ASSUME NEW j \in JobRow, NEW at \in {"auth", "work", "reload"}
    PROVE  [j EXCEPT !.then = at] \in JobRow
BY DEF JobRow

(* A request that goes on with the database keeps or changes where to.     *)
LEMMA GoesOn ==
    ASSUME ServingInv, NEW r \in Requests, NEW at \in {"auth", "work", "reload"},
           pc[r] \notin Outside, GoOn(r, at)
    PROVE  \E to \in {at, "wait"}, j \in JobRow :
              pc' = [pc EXCEPT ![r] = to] /\ job' = [job EXCEPT ![r] = j]
<1>1. job[r] \in JobRow /\ job \in [Requests -> JobRow \cup {Idle}]
  BY DEF ServingInv, InApplication, TypeOK, JobRow
<1>2. job = [job EXCEPT ![r] = job[r]]
  BY <1>1
<1>3. CASE r \in conn
  BY <1>1, <1>2, <1>3 DEF GoOn, Goto
<1>4. CASE r \notin conn
  <2>1. pc' = [pc EXCEPT ![r] = "wait"] /\ job' = [job EXCEPT ![r] = [job[r] EXCEPT !.then = at]]
    BY <1>1, <1>4 DEF GoOn, Goto
  <2>2. [job[r] EXCEPT !.then = at] \in JobRow
    BY <1>1, ThenRow
  <2>3. QED
    BY <2>1, <2>2
<1>5. QED
  BY <1>3, <1>4

(* A place inside the application, the job as it was. *)
LEMMA GoesTo ==
    ASSUME ServingInv, NEW r \in Requests, pc[r] \notin Outside,
           NEW at \in {"auth", "work", "reload", "queue", "call", "answer", "raise"},
           Goto(r, at), UNCHANGED <<db, job, metrics>>,
           \/ conn' \in {conn, conn \ {r}}
           \/ conn' = conn \cup {r} /\ Cardinality(conn) < PoolSize
    PROVE  PoolMoves(r)
<1>1. job[r] \in JobRow /\ job \in [Requests -> JobRow \cup {Idle}] /\ db' \in BOOLEAN
  BY DEF ServingInv, InApplication, TypeOK, JobRow
<1>2. job' = [job EXCEPT ![r] = job[r]]
  BY <1>1
<1>3. pc' = [pc EXCEPT ![r] = at]
  BY DEF Goto
<1>4. pc[r] \notin {"record", "flush", "done"}
  BY DEF Outside
<1>5. QED
  BY <1>1, <1>2, <1>3, <1>4 DEF PoolMoves

LEMMA StepKinds ==
    ASSUME ServingInv, [Next]_vars
    PROVE  \/ \E r \in Requests : PoolMoves(r)
           \/ \E r \in Requests, slow \in BOOLEAN : Record(r, slow)
           \/ \E r \in Requests : Flush(r)
           \/ Quiet
<1>1. /\ db \in BOOLEAN /\ due \in BOOLEAN
      /\ job \in [Requests -> JobRow \cup {Idle}]
      /\ \A r \in Requests : pc[r] \notin Outside => job[r] \in JobRow
  BY DEF ServingInv, InApplication, TypeOK, JobRow
<1>2. ASSUME NEW r \in Requests, NEW kind \in Kinds, Arrive(r, kind) PROVE PoolMoves(r)
  <2> DEFINE j == [kind |-> kind, then |-> IF kind = "health" THEN "work" ELSE "auth"]
  <2>1. j \in JobRow
    BY DEF JobRow
  <2>2. /\ pc' = [pc EXCEPT ![r] = "wait"] /\ job' = [job EXCEPT ![r] = j]
        /\ conn' = conn /\ UNCHANGED metrics /\ db' \in BOOLEAN
        /\ pc[r] \notin {"record", "flush", "done"}
    BY <1>1, <1>2 DEF Arrive, Goto
  <2> HIDE DEF j
  <2>3. QED
    BY <2>1, <2>2 DEF PoolMoves
<1>3. ASSUME NEW r \in Requests, ArriveWithoutToken(r) PROVE PoolMoves(r)
  <2> DEFINE j == [kind |-> "plain", then |-> "auth"]
  <2>1. j \in JobRow
    BY DEF JobRow, Kinds
  <2>2. /\ pc' = [pc EXCEPT ![r] = "answer"] /\ job' = [job EXCEPT ![r] = j]
        /\ conn' = conn /\ UNCHANGED metrics /\ db' \in BOOLEAN
        /\ pc[r] \notin {"record", "flush", "done"}
    BY <1>1, <1>3 DEF ArriveWithoutToken, Goto
  <2> HIDE DEF j
  <2>3. QED
    BY <2>1, <2>2 DEF PoolMoves
<1>4. ASSUME NEW r \in Requests, PoolTimeout(r) PROVE PoolMoves(r)
  BY <1>4, GoesTo DEF PoolTimeout, Break, Outside
<1>5. ASSUME NEW r \in Requests, Connect(r) PROVE PoolMoves(r)
  <2>1. job[r].then \in {"auth", "work", "reload"} /\ pc[r] \notin Outside
    BY <1>1, <1>5 DEF Connect, Outside, JobRow
  <2>2. CASE db
    BY <1>5, <2>1, <2>2, GoesTo DEF Connect
  <2>3. CASE ~db
    BY <1>5, <2>1, <2>3, GoesTo DEF Connect, Break
  <2>4. QED
    BY <2>2, <2>3
<1>6. ASSUME NEW r \in Requests, StatementFails(r) PROVE PoolMoves(r)
  BY <1>6, GoesTo DEF StatementFails, Break, Outside
<1>7. ASSUME NEW r \in Requests, Authenticate(r) PROVE PoolMoves(r)
  <2>1. /\ pc[r] \notin Outside /\ pc[r] \notin {"record", "flush", "done"}
        /\ UNCHANGED <<db, conn, metrics>>
    BY <1>7 DEF Authenticate, Outside
  <2>2. CASE (Goto(r, "answer") \/ Goto(r, "queue")) /\ UNCHANGED job
    BY <2>1, <2>2, GoesTo
  <2>3. CASE GoOn(r, "work")
    <3>1. \E to \in {"work", "wait"}, j \in JobRow :
             pc' = [pc EXCEPT ![r] = to] /\ job' = [job EXCEPT ![r] = j]
      BY <2>1, <2>3, GoesOn
    <3>2. QED
      BY <1>1, <2>1, <3>1 DEF PoolMoves
  <2>4. QED
    BY <1>7, <2>2, <2>3 DEF Authenticate
<1>8. ASSUME NEW r \in Requests, Read(r) PROVE PoolMoves(r)
  BY <1>8, GoesTo DEF Read, Outside
<1>9. ASSUME NEW r \in Requests, Commit(r) PROVE PoolMoves(r)
  <2>1. /\ pc[r] \notin Outside /\ pc[r] \notin {"record", "flush", "done"}
        /\ UNCHANGED <<db, metrics>> /\ conn' = conn \ {r}
    BY <1>9 DEF Commit, Outside
  <2>2. CASE Goto(r, "answer") /\ UNCHANGED job
    BY <2>1, <2>2, GoesTo
  <2>3. CASE Goto(r, "wait") /\ job' = [job EXCEPT ![r].then = "reload"]
    <3>1. job[r] \in JobRow
      BY <1>1, <2>1
    <3>2. /\ pc' = [pc EXCEPT ![r] = "wait"]
          /\ job' = [job EXCEPT ![r] = [job[r] EXCEPT !.then = "reload"]]
      BY <2>3 DEF Goto
    <3>3. [job[r] EXCEPT !.then = "reload"] \in JobRow
      BY <3>1, ThenRow
    <3>4. QED
      BY <1>1, <2>1, <3>2, <3>3 DEF PoolMoves
  <2>4. QED
    BY <1>9, <2>2, <2>3 DEF Commit
<1>10. ASSUME NEW r \in Requests, Probe(r) \/ StartCall(r) \/ EndCall(r) PROVE PoolMoves(r)
  BY <1>10, GoesTo DEF Probe, StartCall, EndCall, Outside
<1>11. ASSUME NEW r \in Requests, Close(r) PROVE PoolMoves(r)
  <2>1. /\ pc' = [pc EXCEPT ![r] = IF pc[r] = "answer" THEN "record" ELSE "done"]
        /\ job' = [job EXCEPT ![r] = Idle]
        /\ conn' = conn \ {r} /\ UNCHANGED metrics /\ db' \in BOOLEAN
        /\ pc[r] \notin {"record", "flush", "done"}
    BY <1>1, <1>11 DEF Close, Goto
  <2>2. PICK at \in {"record", "done"} : pc' = [pc EXCEPT ![r] = at]
    BY <2>1
  <2>3. QED
    BY <2>1, <2>2 DEF PoolMoves
<1>12. ASSUME DatabaseStopsOrReturns \/ IntervalPasses \/ UNCHANGED vars PROVE Quiet
  BY <1>1, <1>12 DEF DatabaseStopsOrReturns, IntervalPasses, vars, metrics, Quiet
<1>13. QED
  BY <1>2, <1>3, <1>4, <1>5, <1>6, <1>7, <1>8, <1>9, <1>10, <1>11, <1>12 DEF Next, Advance

-----------------------------------------------------------------------------
(* One lemma for each kind of step. *)

(* The pool never holds more than it has. *)
LEMMA ConnStep ==
    ASSUME IsFiniteSet(conn), conn \subseteq Requests, Cardinality(conn) <= PoolSize,
           NEW r \in Requests,
           \/ conn' \in {conn, conn \ {r}}
           \/ conn' = conn \cup {r} /\ Cardinality(conn) < PoolSize
    PROVE  IsFiniteSet(conn') /\ conn' \subseteq Requests /\ Cardinality(conn') <= PoolSize
<1>1. Cardinality(conn) \in Nat /\ PoolSize \in Nat
  BY FS_CardinalityType, ServingAssumption
<1>2. CASE conn' = conn
  BY <1>2
<1>3. CASE conn' = conn \ {r}
  <2>1. /\ IsFiniteSet(conn \ {r})
        /\ Cardinality(conn \ {r})
             = IF r \in conn THEN Cardinality(conn) - 1 ELSE Cardinality(conn)
    BY FS_RemoveElement
  <2>2. QED
    BY <1>1, <1>3, <2>1
<1>4. CASE conn' = conn \cup {r} /\ Cardinality(conn) < PoolSize
  <2>1. /\ IsFiniteSet(conn \cup {r})
        /\ Cardinality(conn \cup {r})
             = IF r \in conn THEN Cardinality(conn) ELSE Cardinality(conn) + 1
    BY FS_AddElement
  <2>2. QED
    BY <1>1, <1>4, <2>1
<1>5. QED
  BY <1>2, <1>3, <1>4

LEMMA PoolStep ==
    ASSUME ServingInv, NEW r \in Requests, PoolMoves(r)
    PROVE  ServingInv'
<1>1. PICK at \in {"wait", "auth", "work", "reload", "queue", "call", "answer", "raise",
                   "record", "done"}, j \in JobRow \cup {Idle} :
          /\ pc' = [pc EXCEPT ![r] = at] /\ job' = [job EXCEPT ![r] = j]
          /\ at \in {"record", "done"} => r \notin conn'
          /\ at \notin {"record", "done"} => j \in JobRow
  BY DEF PoolMoves
<1>2. /\ pc[r] \notin {"record", "flush", "done"} /\ db' \in BOOLEAN
      /\ window' = window /\ due' = due /\ batch' = batch
      /\ recorded' = recorded /\ reported' = reported /\ gone' = gone
      /\ conn' \subseteq conn \cup {r}
  BY DEF PoolMoves, metrics
<1>3. /\ \A q \in Requests : q # r => pc'[q] = pc[q] /\ job'[q] = job[q]
      /\ pc'[r] = at /\ job'[r] = j
      /\ job' \in [Requests -> JobRow \cup {Idle}]
  BY <1>1 DEF ServingInv, TypeOK, JobRow
<1>4. TypeOK' /\ IsFiniteSet(conn)'
  <2>1. IsFiniteSet(conn') /\ conn' \subseteq Requests /\ Cardinality(conn') <= PoolSize
    BY ConnStep DEF ServingInv, TypeOK, PoolMoves
  <2>2. pc' \in [Requests -> {"new", "wait", "auth", "work", "reload", "queue", "call",
                              "answer", "raise", "record", "flush", "done"}]
    BY <1>1 DEF ServingInv, TypeOK
  <2>3. \A q \in Requests : batch'[q] # <<>> => pc'[q] = "flush"
    BY <1>2, <1>3 DEF ServingInv, TypeOK
  <2>4. \A q \in Requests : q \in conn' => pc'[q] \notin {"record", "flush", "done"}
    <3>1. ASSUME NEW q \in Requests, q \in conn', q # r
          PROVE  pc'[q] \notin {"record", "flush", "done"}
      BY <1>2, <1>3, <3>1 DEF ServingInv, TypeOK, HasEnded
    <3>2. r \in conn' => at \notin {"record", "flush", "done"}
      BY <1>1
    <3>3. QED
      BY <1>3, <3>1, <3>2
  <2>5. QED
    BY <1>2, <1>3, <2>1, <2>2, <2>3, <2>4 DEF ServingInv, TypeOK, HasEnded, JobRow
<1>5. InApplication'
  BY <1>1, <1>3 DEF ServingInv, InApplication, Outside
<1>6. Batches'
  BY <1>1, <1>2, <1>3 DEF ServingInv, Batches
<1>7. RecordedAtEnd'
  BY <1>2, <1>3 DEF ServingInv, RecordedAtEnd
<1>8. GoodWindow(window)'
  BY <1>2 DEF ServingInv
<1>9. CountedOnce'
  BY <1>2 DEF ServingInv, CountedOnce, OnTheWay
<1>10. QED
  BY <1>4, <1>5, <1>6, <1>7, <1>8, <1>9 DEF ServingInv

(* The window after a latency came in: what it keeps and what fell out.    *)
LEMMA KeptWindow ==
    ASSUME NEW lats, GoodWindow(lats), Len(lats) <= Window,
           NEW lat \in Latency, lat.of \notin Ids(lats),
           NEW kept, kept = IF Len(Append(lats, lat)) > Window THEN Tail(Append(lats, lat))
                            ELSE Append(lats, lat)
    PROVE  /\ GoodWindow(kept) /\ kept # <<>> /\ Len(kept) <= Window
           /\ Ids(Append(lats, lat)) = Ids(lats) \cup {lat.of}
           /\ Ids(kept) \subseteq Ids(lats) \cup {lat.of}
<1> DEFINE all == Append(lats, lat)
<1>1. /\ GoodWindow(all) /\ Ids(all) = Ids(lats) \cup {lat.of}
      /\ Len(all) = Len(lats) + 1 /\ Len(lats) \in Nat
  BY AppendWindow DEF GoodWindow
<1>2. kept = IF Len(all) > Window THEN Tail(all) ELSE all
  OBVIOUS
<1> HIDE DEF all
<1>3. Window \in Nat /\ Window > 0
  BY ServingAssumption
<1>4. all # <<>> /\ all \in Seq(Latency)
  BY <1>1 DEF GoodWindow
<1>5. CASE Len(all) > Window
  <2>1. kept = Tail(all)
    BY <1>2, <1>5
  <2>2. /\ GoodWindow(kept) /\ Ids(kept) = Ids(all) \ {all[1].of}
        /\ Len(kept) = Len(all) - 1
    BY <1>1, <1>4, <2>1, TailWindow
  <2>3. Len(kept) > 0 /\ Len(kept) <= Window /\ kept # <<>>
    BY <1>1, <1>3, <1>5, <2>2
  <2>4. QED
    BY <1>1, <2>2, <2>3 DEF all
<1>6. CASE ~(Len(all) > Window)
  <2>1. kept = all
    BY <1>2, <1>6
  <2>2. Len(kept) <= Window
    BY <1>1, <1>3, <1>6, <2>1
  <2>3. QED
    BY <1>1, <1>4, <2>1, <2>2 DEF all
<1>7. QED
  BY <1>5, <1>6

LEMMA RecordStep ==
    ASSUME ServingInv, NEW r \in Requests, NEW slow \in BOOLEAN, Record(r, slow)
    PROVE  ServingInv'
<1> DEFINE lat == [of |-> r, slow |-> slow]
           lats == Append(window, lat)
           kept == IF Len(lats) > Window THEN Tail(lats) ELSE lats
           lost == Ids(lats) \ Ids(kept)
<1>1. /\ pc[r] = "record" /\ due' = FALSE /\ gone' = gone \cup lost
      /\ conn' = conn /\ job' = job /\ reported' = reported /\ db' = db
      /\ recorded' = recorded \cup {r}
      /\ due => /\ batch' = [batch EXCEPT ![r] = kept] /\ window' = <<>>
                /\ pc' = [pc EXCEPT ![r] = "flush"]
      /\ ~due => /\ batch' = batch /\ window' = kept /\ pc' = [pc EXCEPT ![r] = "done"]
  BY DEF Record, TakeBatch, Goto
<1>2. /\ r \notin Ids(window) \cup reported \cup gone
      /\ \A q \in Requests : r \notin Ids(batch[q])
  BY <1>1 DEF ServingInv, RecordedAtEnd
<1>3. lat \in Latency /\ lat.of = r
  BY DEF Latency
<1>4. /\ GoodWindow(kept) /\ kept # <<>> /\ Len(kept) <= Window
      /\ Ids(lats) = Ids(window) \cup {r}
      /\ Ids(kept) \subseteq Ids(window) \cup {r}
  <2> HIDE DEF lat
  <2>1. GoodWindow(window) /\ Len(window) <= Window
    BY DEF ServingInv, TypeOK
  <2>2. QED
    BY <1>2, <1>3, <2>1, KeptWindow
<1>5. /\ lost \subseteq Ids(window) \cup {r} /\ lost \cap Ids(kept) = {}
      /\ Ids(kept) \cup lost = Ids(window) \cup {r}
  BY <1>4
<1> HIDE DEF kept, lost, lats, lat
<1>6. /\ batch \in [Requests -> Seq(Latency)] /\ batch[r] = <<>> /\ Ids(<<>>) = {}
      /\ r \notin conn
  BY <1>1, EmptyWindow DEF ServingInv, TypeOK, Batches, HasEnded
<1>7. kept \in Seq(Latency) /\ <<>> \in Seq(Latency)
  BY <1>4 DEF GoodWindow
<1>8. PICK at \in {"flush", "done"} :
         pc' = [pc EXCEPT ![r] = at] /\ (at = "flush" <=> due)
  BY <1>1 DEF ServingInv, TypeOK
<1>9. pc'[r] = at /\ \A q \in Requests : q # r => pc'[q] = pc[q]
  BY <1>8 DEF ServingInv, TypeOK
<1>10. /\ batch' \in [Requests -> Seq(Latency)]
       /\ batch'[r] = IF due THEN kept ELSE <<>>
       /\ \A q \in Requests : q # r => batch'[q] = batch[q]
  BY <1>1, <1>6, <1>7 DEF ServingInv, TypeOK
<1>11. window' = IF due THEN <<>> ELSE kept
  BY <1>1
<1>12. lost \subseteq Requests
  <2>1. Ids(window) \subseteq Requests
    BY IdsOf DEF ServingInv, GoodWindow
  <2>2. QED
    BY <1>5, <2>1
<1>13. TypeOK'
  <2>1. Len(window') <= Window
    <3>1. Len(<<>>) = 0 /\ Window \in Nat
      BY ServingAssumption
    <3>2. QED
      BY <1>4, <1>11, <3>1
  <2>2. \A q \in Requests : batch'[q] # <<>> => pc'[q] = "flush"
    BY <1>8, <1>9, <1>10 DEF ServingInv, TypeOK
  <2>3. \A q \in Requests : q \in conn' => pc'[q] \notin {"record", "flush", "done"}
    BY <1>1, <1>6, <1>9 DEF ServingInv, TypeOK, HasEnded
  <2>4. pc' \in [Requests -> {"new", "wait", "auth", "work", "reload", "queue", "call",
                              "answer", "raise", "record", "flush", "done"}]
    BY <1>8 DEF ServingInv, TypeOK
  <2>5. QED
    BY <1>1, <1>12, <2>1, <2>2, <2>3, <2>4 DEF ServingInv, TypeOK, HasEnded
<1>14. InApplication'
  BY <1>1, <1>9 DEF ServingInv, InApplication, Outside
<1>15. Batches'
  BY <1>4, <1>8, <1>9, <1>10 DEF ServingInv, Batches
<1>16. GoodWindow(window)' /\ IsFiniteSet(conn)'
  BY <1>1, <1>4, <1>11, EmptyWindow DEF ServingInv
<1>17. Ids(window') \cup Ids(batch'[r]) = Ids(kept) /\ Ids(window') \cap Ids(batch'[r]) = {}
  BY <1>6, <1>10, <1>11
<1>18. RecordedAtEnd'
  <2>1. ASSUME NEW q \in Requests, q # r,
               \/ q \in Ids(window') \cup reported' \cup gone'
               \/ \E s \in Requests : q \in Ids(batch'[s])
        PROVE  \/ q \in Ids(window) \cup reported \cup gone
               \/ \E s \in Requests : q \in Ids(batch[s])
    BY <1>1, <1>4, <1>5, <1>10, <1>17, <2>1
  <2>2. QED
    BY <1>9, <2>1 DEF ServingInv, RecordedAtEnd
<1>19. CountedOnce'
  <2>1. /\ \A q, s \in Requests : q # s => Ids(batch[q]) \cap Ids(batch[s]) = {}
        /\ \A q \in Requests : Ids(batch[q]) \cap (Ids(window) \cup reported \cup gone) = {}
        /\ Ids(window) \cap (reported \cup gone) = {} /\ reported \cap gone = {}
    BY DEF ServingInv, CountedOnce
  <2>2. \A q \in Requests : q # r =>
           Ids(batch'[q]) = Ids(batch[q]) /\ Ids(batch'[q]) \cap (Ids(window) \cup {r}) = {}
    BY <1>2, <1>10, <2>1
  <2>3. \A q \in Requests : q # r => Ids(batch'[q]) \cap Ids(batch'[r]) = {}
    BY <1>4, <1>17, <2>2
  <2>4. \A q, s \in Requests : q # s => Ids(batch'[q]) \cap Ids(batch'[s]) = {}
    <3>1. ASSUME NEW q \in Requests, NEW s \in Requests, q # s
          PROVE  Ids(batch'[q]) \cap Ids(batch'[s]) = {}
      <4>1. CASE q # r /\ s # r
        BY <2>1, <2>2, <3>1, <4>1
      <4>2. CASE q = r
        BY <2>3, <3>1, <4>2
      <4>3. CASE s = r
        BY <2>3, <3>1, <4>3
      <4>4. QED
        BY <4>1, <4>2, <4>3
    <3>2. QED
      BY <3>1
  <2>5. (Ids(kept) \cup lost) \cap (reported \cup gone) = {}
    BY <1>2, <1>4, <1>5, <2>1
  <2>6. \A q \in Requests :
           Ids(batch'[q]) \cap (Ids(window') \cup reported' \cup gone') = {}
    <3>1. ASSUME NEW q \in Requests, q # r
          PROVE  Ids(batch'[q]) \cap (Ids(window') \cup reported' \cup gone') = {}
      BY <1>1, <1>4, <1>5, <1>17, <2>1, <2>2, <3>1
    <3>2. Ids(batch'[r]) \cap (Ids(window') \cup reported' \cup gone') = {}
      BY <1>1, <1>5, <1>17, <2>5
    <3>3. QED
      BY <3>1, <3>2
  <2>7. Ids(window') \cap (reported' \cup gone') = {} /\ reported' \cap gone' = {}
    BY <1>1, <1>2, <1>5, <1>17, <2>1, <2>5
  <2>8. Cardinality(Ids(window')) = Len(window')
    BY <1>16 DEF GoodWindow
  <2>9. recorded' = Ids(window') \cup OnTheWay' \cup reported' \cup gone'
    <3>1. recorded = Ids(window) \cup OnTheWay \cup reported \cup gone
      BY DEF ServingInv, CountedOnce
    <3>2. OnTheWay' = OnTheWay \cup Ids(batch'[r])
      BY <1>6, <1>10 DEF OnTheWay
    <3>3. Ids(window') \cup Ids(batch'[r]) \cup lost = Ids(window) \cup {r}
      BY <1>5, <1>17
    <3>4. QED
      BY <1>1, <3>1, <3>2, <3>3
  <2>10. QED
    BY <2>4, <2>6, <2>7, <2>8, <2>9 DEF CountedOnce
<1>20. QED
  BY <1>13, <1>14, <1>15, <1>16, <1>18, <1>19 DEF ServingInv

LEMMA FlushStep ==
    ASSUME ServingInv, NEW r \in Requests, Flush(r)
    PROVE  ServingInv'
<1>1. /\ pc[r] = "flush" /\ batch' = [batch EXCEPT ![r] = <<>>]
      /\ pc' = [pc EXCEPT ![r] = "done"]
      /\ conn' = conn /\ job' = job /\ window' = window /\ due' = due /\ db' = db
      /\ recorded' = recorded
      /\ \/ reported' = reported \cup Ids(batch[r]) /\ gone' = gone
         \/ gone' = gone \cup Ids(batch[r]) /\ reported' = reported
  BY DEF Flush, Goto
<1>2. /\ batch \in [Requests -> Seq(Latency)] /\ Ids(<<>>) = {} /\ <<>> \in Seq(Latency)
      /\ pc'[r] = "done" /\ \A q \in Requests : q # r => pc'[q] = pc[q]
  BY <1>1, EmptyWindow DEF ServingInv, TypeOK, Batches
<1>3. /\ batch' \in [Requests -> Seq(Latency)]
      /\ batch'[r] = <<>> /\ \A q \in Requests : q # r => batch'[q] = batch[q]
  BY <1>1, <1>2
<1>4. Ids(batch[r]) \subseteq Requests
  BY <1>2, IdsOf
<1>5. TypeOK'
  <2>1. \A q \in Requests : batch'[q] # <<>> => pc'[q] = "flush"
    BY <1>2, <1>3 DEF ServingInv, TypeOK
  <2>2. \A q \in Requests : q \in conn' => pc'[q] \notin {"record", "flush", "done"}
    BY <1>1, <1>2 DEF ServingInv, TypeOK, HasEnded
  <2>3. pc' \in [Requests -> {"new", "wait", "auth", "work", "reload", "queue", "call",
                              "answer", "raise", "record", "flush", "done"}]
    BY <1>1 DEF ServingInv, TypeOK
  <2>4. reported' \subseteq Requests /\ gone' \subseteq Requests
    BY <1>1, <1>4 DEF ServingInv, TypeOK
  <2>5. QED
    BY <1>1, <2>1, <2>2, <2>3, <2>4 DEF ServingInv, TypeOK, HasEnded
<1>6. InApplication'
  BY <1>1, <1>2 DEF ServingInv, InApplication, Outside
<1>7. Batches'
  BY <1>2, <1>3 DEF ServingInv, Batches
<1>8. GoodWindow(window)' /\ IsFiniteSet(conn)'
  BY <1>1 DEF ServingInv
<1>9. RecordedAtEnd'
  <2>1. ASSUME NEW q \in Requests,
               \/ q \in Ids(window') \cup reported' \cup gone'
               \/ \E s \in Requests : q \in Ids(batch'[s])
        PROVE  pc[q] \in {"flush", "done"}
    BY <1>1, <1>2, <1>3, <2>1 DEF ServingInv, RecordedAtEnd
  <2>2. QED
    BY <1>2, <2>1 DEF RecordedAtEnd
<1>10. CountedOnce'
  <2>1. /\ \A q, s \in Requests : q # s => Ids(batch[q]) \cap Ids(batch[s]) = {}
        /\ \A q \in Requests : Ids(batch[q]) \cap (Ids(window) \cup reported \cup gone) = {}
        /\ Ids(window) \cap (reported \cup gone) = {} /\ reported \cap gone = {}
        /\ Cardinality(Ids(window)) = Len(window)
    BY DEF ServingInv, CountedOnce
  <2>2. \A q \in Requests :
           /\ Ids(batch'[q]) \subseteq Ids(batch[q])
           /\ Ids(batch'[q]) \cap Ids(batch[r]) = {}
    BY <1>2, <1>3, <2>1
  <2>3. \A q, s \in Requests : q # s => Ids(batch'[q]) \cap Ids(batch'[s]) = {}
    BY <2>1, <2>2
  <2>4. \A q \in Requests :
           Ids(batch'[q]) \cap (Ids(window') \cup reported' \cup gone') = {}
    BY <1>1, <2>1, <2>2
  <2>5. Ids(window') \cap (reported' \cup gone') = {} /\ reported' \cap gone' = {}
    BY <1>1, <2>1
  <2>6. recorded' = Ids(window') \cup OnTheWay' \cup reported' \cup gone'
    <3>1. recorded = Ids(window) \cup OnTheWay \cup reported \cup gone
      BY DEF ServingInv, CountedOnce
    <3>2. OnTheWay = OnTheWay' \cup Ids(batch[r])
      BY <1>2, <1>3 DEF OnTheWay
    <3>3. reported' \cup gone' = reported \cup gone \cup Ids(batch[r])
      BY <1>1
    <3>4. QED
      BY <1>1, <3>1, <3>2, <3>3
  <2>7. QED
    BY <1>1, <2>1, <2>3, <2>4, <2>5, <2>6 DEF CountedOnce
<1>11. QED
  BY <1>5, <1>6, <1>7, <1>8, <1>9, <1>10 DEF ServingInv

LEMMA QuietStep ==
    ASSUME ServingInv, Quiet
    PROVE  ServingInv'
<1>1. /\ conn' = conn /\ pc' = pc /\ job' = job /\ window' = window /\ batch' = batch
      /\ recorded' = recorded /\ reported' = reported /\ gone' = gone
      /\ db' \in BOOLEAN /\ due' \in BOOLEAN
  BY DEF Quiet
<1>2. TypeOK'
  BY <1>1 DEF ServingInv, TypeOK, HasEnded
<1>3. InApplication' /\ Batches' /\ RecordedAtEnd' /\ CountedOnce'
  BY <1>1 DEF ServingInv, InApplication, Batches, RecordedAtEnd, CountedOnce, OnTheWay
<1>4. QED
  BY <1>1, <1>2, <1>3 DEF ServingInv

-----------------------------------------------------------------------------
LEMMA InitInv == Init => ServingInv
<1> SUFFICES ASSUME Init PROVE ServingInv
  OBVIOUS
<1>1. /\ IsFiniteSet(conn) /\ Cardinality(conn) = 0 /\ Len(window) = 0
      /\ GoodWindow(window) /\ Ids(<<>>) = {}
  BY FS_EmptySet, EmptyWindow DEF Init
<1>2. TypeOK
  <2>1. Cardinality(conn) <= PoolSize /\ Len(window) <= Window
    BY <1>1, ServingAssumption
  <2>2. /\ db \in BOOLEAN /\ due \in BOOLEAN /\ conn \subseteq Requests
        /\ recorded \subseteq Requests /\ reported \subseteq Requests /\ gone \subseteq Requests
        /\ \A r \in Requests : batch[r] = <<>> /\ r \notin conn
    BY DEF Init
  <2>3. pc \in [Requests -> {"new", "wait", "auth", "work", "reload", "queue", "call",
                             "answer", "raise", "record", "flush", "done"}]
    BY DEF Init
  <2>4. job \in [Requests -> [kind : Kinds, then : {"auth", "work", "reload"}] \cup {Idle}]
    BY DEF Init
  <2>5. QED
    BY <2>1, <2>2, <2>3, <2>4 DEF TypeOK
<1>3. InApplication /\ Batches /\ RecordedAtEnd
  BY <1>1 DEF Init, InApplication, Outside, Batches, RecordedAtEnd
<1>4. CountedOnce
  BY <1>1 DEF Init, CountedOnce, OnTheWay, GoodWindow
<1>5. QED
  BY <1>1, <1>2, <1>3, <1>4 DEF ServingInv

LEMMA NextInv == ServingInv /\ [Next]_vars => ServingInv'
BY StepKinds, PoolStep, RecordStep, FlushStep, QuietStep

LEMMA Invariant == Spec => []ServingInv
BY InitInv, NextInv, PTL DEF Spec

-----------------------------------------------------------------------------
(* Connections, places and numbers have their types: the pool never lends  *)
(* more connections than it has (app/db/session.py), and nobody who has    *)
(* left the application keeps one.                                         *)
THEOREM TypeCorrect == Spec => []TypeOK
<1>1. ServingInv => TypeOK
  BY DEF ServingInv
<1>2. QED
  BY <1>1, Invariant, PTL

(* Every latency that was taken down is in exactly one place, however many *)
(* requests are recorded and flushed at once (app/middleware/metrics.py):  *)
(* nothing is counted twice, and nothing disappears but what a full window *)
(* dropped or CloudWatch refused.                                          *)
THEOREM LatenciesCountedOnce == Spec => []CountedOnce
<1>1. ServingInv => CountedOnce
  BY DEF ServingInv
<1>2. QED
  BY <1>1, Invariant, PTL

(* The index that _percentile computes makes the P-th percentile of a      *)
(* batch that of a slow request only when more than 100 - P percent of the *)
(* batch were slow, and always when one more than that were: for every     *)
(* length of the batch and every P.                                        *)
THEOREM AlarmOnTime == Spec => []AlarmIsRight
<1>1. ServingInv => AlarmIsRight
  <2> SUFFICES ASSUME ServingInv, NEW r \in Requests, pc[r] = "flush"
               PROVE  LET slow == Cardinality({i \in DOMAIN batch[r] : batch[r][i].slow}) * 100
                          tail == Len(batch[r]) * (100 - P)
                      IN  /\ PercentileSlow(batch[r]) => slow > tail
                          /\ slow >= tail + 100 => PercentileSlow(batch[r])
    BY DEF AlarmIsRight
  <2>1. batch[r] \in Seq(Latency) /\ batch[r] # <<>>
    BY DEF ServingInv, Batches
  <2>2. QED
    BY <2>1, AlarmBounds
<1>2. QED
  BY <1>1, Invariant, PTL

-----------------------------------------------------------------------------
(* How large a pool makes the health probe honest. *)

(* Who waits for a connection has none. *)
WaitsWithout == \A r \in Requests : pc[r] \in {"new", "wait"} => r \notin conn

LEMMA WaitStep ==
    ASSUME ServingInv, WaitsWithout, [Next]_vars
    PROVE  WaitsWithout'
<1>1. pc \in [Requests -> {"new", "wait", "auth", "work", "reload", "queue", "call", "answer",
                           "raise", "record", "flush", "done"}]
  BY DEF ServingInv, TypeOK
<1>2. \A r \in Requests : pc[r] = "wait" => job[r].then \in {"auth", "work", "reload"}
  BY DEF ServingInv, InApplication, Outside, JobRow
<1>3. ASSUME NEW r \in Requests, NEW at, Goto(r, at), at \notin {"new", "wait"},
             conn' \subseteq conn \cup {r}
      PROVE  WaitsWithout'
  BY <1>1, <1>3 DEF Goto, WaitsWithout
<1>4. ASSUME NEW r \in Requests, Goto(r, "wait"), conn' \subseteq conn, r \notin conn'
      PROVE  WaitsWithout'
  BY <1>1, <1>4 DEF Goto, WaitsWithout
<1>5. ASSUME pc' = pc, conn' = conn PROVE WaitsWithout'
  BY <1>5 DEF WaitsWithout
<1>6. ASSUME NEW r \in Requests, NEW kind \in Kinds, Arrive(r, kind) PROVE WaitsWithout'
  BY <1>4, <1>6 DEF Arrive, WaitsWithout
<1>7. ASSUME NEW r \in Requests, ArriveWithoutToken(r) PROVE WaitsWithout'
  BY <1>3, <1>7 DEF ArriveWithoutToken
<1>8. ASSUME NEW r \in Requests, Connect(r) PROVE WaitsWithout'
  <2>1. CASE db
    BY <1>2, <1>3, <1>8, <2>1 DEF Connect
  <2>2. CASE ~db
    BY <1>3, <1>8, <2>2 DEF Connect, Break
  <2>3. QED
    BY <2>1, <2>2
<1>9. ASSUME NEW r \in Requests, PoolTimeout(r) \/ StatementFails(r) PROVE WaitsWithout'
  BY <1>3, <1>9 DEF PoolTimeout, StatementFails, Break
<1>10. ASSUME NEW r \in Requests, Authenticate(r) PROVE WaitsWithout'
  <2>1. conn' = conn
    BY <1>10 DEF Authenticate
  <2>2. CASE Goto(r, "answer") \/ Goto(r, "queue")
    BY <1>3, <2>1, <2>2
  <2>3. CASE GoOn(r, "work")
    BY <1>3, <1>4, <2>1, <2>3 DEF GoOn
  <2>4. QED
    BY <1>10, <2>2, <2>3 DEF Authenticate
<1>11. ASSUME NEW r \in Requests, Commit(r) PROVE WaitsWithout'
  <2>1. conn' = conn \ {r} /\ (Goto(r, "answer") \/ Goto(r, "wait"))
    BY <1>11 DEF Commit
  <2>2. QED
    BY <1>3, <1>4, <2>1
<1>12. ASSUME NEW r \in Requests, Read(r) \/ Probe(r) \/ StartCall(r) \/ EndCall(r)
       PROVE  WaitsWithout'
  BY <1>3, <1>12 DEF Read, Probe, StartCall, EndCall
<1>13. ASSUME NEW r \in Requests, Close(r) PROVE WaitsWithout'
  BY <1>3, <1>13 DEF Close
<1>14. ASSUME NEW r \in Requests, NEW slow \in BOOLEAN, Record(r, slow) PROVE WaitsWithout'
  <2>1. conn' = conn /\ (Goto(r, "flush") \/ Goto(r, "done"))
    BY <1>14 DEF Record
  <2>2. QED
    BY <1>3, <2>1
<1>15. ASSUME NEW r \in Requests, Flush(r) PROVE WaitsWithout'
  BY <1>3, <1>15 DEF Flush
<1>16. ASSUME DatabaseStopsOrReturns \/ IntervalPasses \/ UNCHANGED vars PROVE WaitsWithout'
  BY <1>5, <1>16 DEF DatabaseStopsOrReturns, IntervalPasses, vars
<1>17. QED
  BY <1>6, <1>7, <1>8, <1>9, <1>10, <1>11, <1>12, <1>13, <1>14, <1>15, <1>16 DEF Next, Advance

LEMMA ConnectionLeft ==
    ASSUME ServingInv, WaitsWithout, NEW r \in Requests, pc[r] = "wait",
           IsFiniteSet(Requests), Cardinality(Requests) <= PoolSize
    PROVE  Cardinality(conn) < PoolSize
<1>1. conn \subseteq Requests \ {r}
  BY DEF ServingInv, TypeOK, WaitsWithout
<1>2. /\ IsFiniteSet(Requests \ {r})
      /\ Cardinality(Requests \ {r}) = Cardinality(Requests) - 1
  BY FS_RemoveElement
<1>3. Cardinality(conn) <= Cardinality(Requests \ {r})
  BY <1>1, <1>2, FS_Subset
<1>4. Cardinality(conn) \in Nat /\ Cardinality(Requests) \in Nat /\ PoolSize \in Nat
  BY FS_CardinalityType, ServingAssumption DEF ServingInv
<1>5. QED
  BY <1>2, <1>3, <1>4

(* health.py:31-33 holds as long as no more requests run than the pool has *)
(* connections: then the probe reports an outage only when there is one.   *)
(* One request more, and the probe may find the pool empty.                *)
THEOREM ProbeHonest ==
    ASSUME IsFiniteSet(Requests), Cardinality(Requests) <= PoolSize
    PROVE  Spec => HealthHonest
<1> DEFINE Honest == \A r \in Requests : pc[r] = "wait" /\ pc'[r] = "answer" => ~db
<1>1. ServingInv /\ WaitsWithout /\ [Next]_vars => [Honest]_vars
  <2> SUFFICES ASSUME ServingInv, WaitsWithout, Next, NEW r \in Requests,
                      pc[r] = "wait", pc'[r] = "answer", db
               PROVE  FALSE
    OBVIOUS
  <2>1. pc \in [Requests -> {"new", "wait", "auth", "work", "reload", "queue", "call",
                             "answer", "raise", "record", "flush", "done"}]
    BY DEF ServingInv, TypeOK
  <2>2. job[r].then # "answer"
    BY DEF ServingInv, InApplication, Outside, JobRow
  <2>3. ~PoolTimeout(r)
    <3>1. Cardinality(conn) < PoolSize /\ Cardinality(conn) \in Nat /\ PoolSize \in Nat
      BY ConnectionLeft, FS_CardinalityType, ServingAssumption DEF ServingInv
    <3>2. ~(Cardinality(conn) >= PoolSize)
      BY <3>1
    <3>3. QED
      BY <3>2 DEF PoolTimeout
  <2>4. ~Connect(r)
    BY <2>1, <2>2 DEF Connect, Goto
  <2>5. ASSUME NEW q \in Requests, NEW at, Goto(q, at), q = r => pc[r] # "wait" PROVE FALSE
    BY <2>1, <2>5 DEF Goto
  <2>6. pc' # pc
    OBVIOUS
  <2>7. QED
    BY <2>1, <2>3, <2>4, <2>5, <2>6 DEF Next, Advance, Arrive, ArriveWithoutToken, PoolTimeout,
       Connect, Authenticate, GoOn, Read, Commit, Probe, StatementFails, StartCall, EndCall,
       Close, Record, Flush, Break, DatabaseStopsOrReturns, IntervalPasses
<1>2. Init => WaitsWithout
  BY DEF Init, WaitsWithout
<1>3. QED
  BY <1>1, <1>2, Invariant, WaitStep, PTL DEF Spec, HealthHonest
=============================================================================
