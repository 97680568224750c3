---------------------------- MODULE Billing_proofs ----------------------------
(***************************************************************************)
(* Theorems about Billing, for every set of users, orders, requests and    *)
(* plans, every price list, every answer the gateway gives to a repeat and *)
(* every combination of faults.                                            *)
(***************************************************************************)
EXTENDS Billing, SequenceTheorems, TLAPS

(* A payment row is as create_checkout or the commit of a confirm left it. *)
RowOK(o) ==
    \/ payment[o] = NoPayment
    \/ /\ payment[o].status \in {"requested", "approved"}
       /\ payment[o].user \in Users
       /\ Purchasable(payment[o].plan)
       /\ payment[o].amount = Price[payment[o].plan]

(* What a request that is past the payment lock has checked still holds,   *)
(* what is on the wire is about an order of that amount, and an "ok" it    *)
(* got or is about to get is about money the gateway holds.                *)
RequestOK(r) ==
    LET o == req[r].order IN
        /\ pc[r] \in {"subscription", "toss", "commit"} =>
              /\ payment[o].status = "requested"
              /\ payment[o].user = req[r].user
              /\ payment[o].amount = req[r].amount
        /\ call[r] \in {"sent", "ok"} =>
              payment[o].status # "absent" /\ payment[o].amount = req[r].amount
        /\ (call[r] = "ok" \/ pc[r] = "commit") => captured[o] = req[r].amount

IInv ==
    /\ TypeOK
    /\ \A o \in Orders : RowOK(o)
    /\ \A r \in Requests : RequestOK(r)
    /\ RowsExclusive
    /\ ApprovedIsPaid
    /\ AuditTrail
    /\ PlanIsEarned

-----------------------------------------------------------------------------
LEMMA InitIInv == Init => IInv
<1> SUFFICES ASSUME Init PROVE IInv
  OBVIOUS
<1> USE BillingAssumption DEF Init
<1>1. TypeOK
  BY DEF TypeOK, NoPayment, PaymentRow, PC, NoCall
<1>2. \A o \in Orders : RowOK(o)
  BY DEF RowOK
<1>3. \A r \in Requests : RequestOK(r)
  BY DEF RequestOK
<1>4. RowsExclusive
  BY DEF RowsExclusive, HoldsPayment, HoldsSubscription
<1>5. ApprovedIsPaid
  BY DEF ApprovedIsPaid, NoPayment
<1>6. AuditTrail
  BY DEF AuditTrail, NoPayment
<1>7. PlanIsEarned
  BY DEF PlanIsEarned
<1>8. QED
  BY <1>1, <1>2, <1>3, <1>4, <1>5, <1>6, <1>7 DEF IInv

-----------------------------------------------------------------------------
(* One lemma per part of the invariant; each starts from all of it. *)
LEMMA TypeStep == IInv /\ [Next]_vars => TypeOK'
<1> SUFFICES ASSUME IInv, [Next]_vars PROVE TypeOK'
  OBVIOUS
<1> USE BillingAssumption DEF TypeOK, PC, database
<1>0. TypeOK
  BY DEF IInv
<1>1. ASSUME NEW u \in Users, NEW p \in Plans, NEW o \in Orders, Checkout(u, p, o)
      PROVE  TypeOK'
  <2>1. Price[p] \in Nat \ {0}
    BY <1>1 DEF Checkout, Purchasable
  <2>2. [status |-> "requested", user |-> u, plan |-> p, amount |-> Price[p]] \in PaymentRow
    BY <2>1 DEF PaymentRow
  <2>3. payment' \in [Orders -> PaymentRow \cup {NoPayment}]
    BY <1>0, <1>1, <2>2 DEF Checkout
  <2>4. QED
    BY <1>0, <1>1, <2>3 DEF Checkout
<1>2. ASSUME NEW u \in Users, NEW p \in Plans, UpgradePlan(u, p)
      PROVE  TypeOK'
  BY <1>0, <1>2 DEF UpgradePlan
<1>3. ASSUME NEW r \in Requests, NEW u \in Users, NEW o \in Orders,
             NEW amount \in Amounts, BeginConfirm(r, u, o, amount)
      PROVE  TypeOK'
  <2>1. amount \in Nat
    BY DEF Amounts
  <2>2. QED
    BY <1>0, <1>3, <2>1 DEF BeginConfirm, ConfirmCall, NoCall
<1>4. ASSUME NEW r \in Requests,
             \/ LockPayment(r) \/ RejectPayment(r) \/ LockSubscription(r)
             \/ RejectSubscription(r) \/ Approval(r) \/ Refusal(r)
             \/ GatewayTimeout(r) \/ CommitFails(r) \/ Crash(r) \/ LoseCall(r)
      PROVE  TypeOK'
  BY <1>0, <1>4 DEF LockPayment, RejectPayment, LockSubscription, RejectSubscription,
     Approval, Refusal, GatewayTimeout, CommitFails, Crash, LoseCall
<1>5. ASSUME NEW r \in Requests, Commit(r)
      PROVE  TypeOK'
  <2>1. req[r].order \in Orders /\ req[r].user \in Users
    BY <1>0, <1>5 DEF Commit, ConfirmCall
  <2>2. payment[req[r].order].plan \in Plans
    <3>1. RequestOK(r) /\ RowOK(req[r].order)
      BY <2>1 DEF IInv
    <3>2. payment[req[r].order].status = "requested"
      BY <3>1, <1>5 DEF RequestOK, Commit
    <3>3. QED
      BY <3>1, <3>2 DEF RowOK, Purchasable, NoPayment
  <2>3. payment' \in [Orders -> PaymentRow \cup {NoPayment}]
    <3> DEFINE row == payment[req[r].order]
    <3>0. row # NoPayment
      <4>1. RequestOK(r)
        BY DEF IInv
      <4>2. row.status = "requested"
        BY <4>1, <1>5 DEF RequestOK, Commit
      <4>3. QED
        BY <4>2 DEF NoPayment
    <3>1. row \in PaymentRow
      BY <1>0, <2>1, <3>0
    <3>2. [row EXCEPT !.status = "approved"] \in PaymentRow
      BY <3>1 DEF PaymentRow
    <3>3. payment' = [payment EXCEPT ![req[r].order] = [row EXCEPT !.status = "approved"]]
      BY <1>5 DEF Commit
    <3>4. QED
      BY <1>0, <3>2, <3>3
  <2>4. events' \in [Orders -> Seq({"checkout_requested", "payment_confirmed"})]
    BY <1>0, <1>5, <2>1 DEF Commit
  <2>5. QED
    BY <1>0, <1>5, <2>1, <2>2, <2>3, <2>4 DEF Commit
<1>6. ASSUME NEW r \in Requests, Toss(r)
      PROVE  TypeOK'
  <2>1. req[r].amount \in Nat
    BY <1>0, <1>6 DEF Toss, TossCapture, TossDecline, TossRepeat, ConfirmCall
  <2>2. UNCHANGED <<payment, events, subscription, granted, pc, req>>
    BY <1>6 DEF Toss, TossCapture, TossDecline, TossRepeat
  <2>3. call[r] = "sent" /\ captured' \in [Orders -> Nat]
    BY <1>0, <1>6, <2>1 DEF Toss, TossCapture, TossDecline, TossRepeat
  <2>4. \E answer \in {"ok", "refused"} : call' = [call EXCEPT ![r] = answer]
    BY <1>6 DEF Toss, TossCapture, TossDecline, TossRepeat
  <2>5. QED
    BY <1>0, <2>2, <2>3, <2>4
<1>7. CASE UNCHANGED vars
  BY <1>0, <1>7 DEF vars
<1>8. QED
  BY <1>1, <1>2, <1>3, <1>4, <1>5, <1>6, <1>7 DEF Next, Serve

-----------------------------------------------------------------------------
(* What a commit finds and writes: an order still requested, the caller's  *)
(* own, paid in full; only its status changes.                             *)
LEMMA CommitFacts ==
    ASSUME IInv, NEW r \in Requests, Commit(r)
    PROVE  LET o == req[r].order IN
             /\ o \in Orders /\ req[r].user \in Users
             /\ payment[o].status = "requested"
             /\ payment[o].user = req[r].user
             /\ Purchasable(payment[o].plan)
             /\ payment[o].amount = Price[payment[o].plan]
             /\ captured[o] = payment[o].amount
             /\ payment'[o].status = "approved"
             /\ payment'[o].user = payment[o].user
             /\ payment'[o].plan = payment[o].plan
             /\ payment'[o].amount = payment[o].amount
             /\ \A x \in Orders : x # o => payment'[x] = payment[x]
<1> DEFINE o == req[r].order
<1>1. TypeOK /\ RequestOK(r) /\ pc[r] = "commit"
  BY DEF IInv, Commit
<1>2. o \in Orders /\ req[r].user \in Users
  BY <1>1 DEF TypeOK, ConfirmCall
<1>3. RowOK(o) /\ payment[o] \in PaymentRow
  <2>1. RowOK(o)
    BY <1>2 DEF IInv
  <2>2. payment[o] # NoPayment
    BY <1>1 DEF RequestOK, NoPayment
  <2>3. QED
    BY <1>1, <1>2, <2>1, <2>2 DEF TypeOK
<1>4. payment[o].status = "requested" /\ payment[o].user = req[r].user
      /\ captured[o] = payment[o].amount
  BY <1>1 DEF RequestOK
<1>5. Purchasable(payment[o].plan) /\ payment[o].amount = Price[payment[o].plan]
  BY <1>3, <1>4 DEF RowOK, NoPayment
<1>6. payment' = [payment EXCEPT ![o] = [payment[o] EXCEPT !.status = "approved"]]
  BY DEF Commit
<1>7. payment'[o] = [payment[o] EXCEPT !.status = "approved"]
      /\ \A x \in Orders : x # o => payment'[x] = payment[x]
  BY <1>1, <1>2, <1>6 DEF TypeOK
<1>8. QED
  BY <1>2, <1>3, <1>4, <1>5, <1>7 DEF PaymentRow

LEMMA CheckoutFacts ==
    ASSUME IInv, NEW u \in Users, NEW p \in Plans, NEW o \in Orders, Checkout(u, p, o)
    PROVE  /\ payment[o] = NoPayment /\ captured[o] = 0 /\ events[o] = <<>>
           /\ Purchasable(p)
           /\ payment'[o] = [status |-> "requested", user |-> u, plan |-> p,
                             amount |-> Price[p]]
           /\ payment'[o].status = "requested"
           /\ \A x \in Orders : x # o => payment'[x] = payment[x]
<1>1. TypeOK /\ RowOK(o) /\ payment[o].status = "absent"
  BY DEF IInv, Checkout
<1>2. payment[o] = NoPayment
  BY <1>1 DEF RowOK
<1>3. captured[o] = 0 /\ events[o] = <<>>
  BY <1>1, <1>2 DEF IInv, ApprovedIsPaid, AuditTrail, NoPayment
<1>4. QED
  BY <1>1, <1>2, <1>3 DEF Checkout, TypeOK

(* The steps that write neither payment rows nor events nor plans. *)
Quiet(r) ==
    \/ LockPayment(r) \/ RejectPayment(r) \/ LockSubscription(r)
    \/ RejectSubscription(r) \/ Approval(r) \/ Refusal(r) \/ GatewayTimeout(r)
    \/ CommitFails(r) \/ Crash(r) \/ Toss(r) \/ LoseCall(r)
    \/ \E u \in Users, o \in Orders, amount \in Amounts : BeginConfirm(r, u, o, amount)

LEMMA QuietFacts ==
    ASSUME NEW r \in Requests, Quiet(r)
    PROVE  UNCHANGED database /\ UNCHANGED granted
BY DEF Quiet, LockPayment, RejectPayment, LockSubscription, RejectSubscription,
   Approval, Refusal, GatewayTimeout, CommitFails, Crash, LoseCall, Toss,
   TossCapture, TossDecline, TossRepeat, BeginConfirm, database

LEMMA NextCases ==
    ASSUME [Next]_vars
    PROVE  \/ \E u \in Users, p \in Plans, o \in Orders : Checkout(u, p, o)
           \/ \E u \in Users, p \in Plans : UpgradePlan(u, p)
           \/ \E r \in Requests : Commit(r)
           \/ \E r \in Requests : Quiet(r)
           \/ UNCHANGED vars
BY DEF Next, Serve, Quiet

-----------------------------------------------------------------------------
LEMMA RowStep == IInv /\ [Next]_vars => \A o \in Orders : RowOK(o)'
<1> SUFFICES ASSUME IInv, [Next]_vars, NEW x \in Orders PROVE RowOK(x)'
  OBVIOUS
<1>0. RowOK(x)
  BY DEF IInv
<1>1. ASSUME NEW u \in Users, NEW p \in Plans, NEW o \in Orders, Checkout(u, p, o)
      PROVE  RowOK(x)'
  <2>1. CASE x # o
    BY <1>0, <1>1, <2>1, CheckoutFacts DEF RowOK, Purchasable
  <2>2. CASE x = o
    <3>1. Purchasable(p) /\ payment'[o] = [status |-> "requested", user |-> u,
                                           plan |-> p, amount |-> Price[p]]
      BY <1>1, CheckoutFacts
    <3>2. QED
      BY <2>2, <3>1 DEF RowOK, Purchasable
  <2>3. QED
    BY <2>1, <2>2
<1>2. ASSUME NEW r \in Requests, Commit(r)
      PROVE  RowOK(x)'
  BY <1>0, <1>2, CommitFacts DEF RowOK, Purchasable
<1>3. CASE UNCHANGED payment
  BY <1>0, <1>3 DEF RowOK, Purchasable
<1>4. QED
  BY <1>1, <1>2, <1>3, NextCases, QuietFacts DEF UpgradePlan, database, vars

(* Money that was taken stays taken, in the same amount. *)
LEMMA CapturedStep ==
    IInv /\ [Next]_vars => \A o \in Orders : captured[o] # 0 => captured'[o] = captured[o]
<1> SUFFICES ASSUME IInv, [Next]_vars, NEW x \in Orders, captured[x] # 0
             PROVE  captured'[x] = captured[x]
  OBVIOUS
<1>1. ASSUME NEW r \in Requests, TossCapture(r)
      PROVE  captured'[x] = captured[x]
  BY <1>1 DEF TossCapture, IInv, TypeOK
<1>2. CASE UNCHANGED captured
  BY <1>2
<1>3. QED
  BY <1>1, <1>2 DEF Next, Serve, Toss, Checkout, UpgradePlan, BeginConfirm,
     LockPayment, RejectPayment, LockSubscription, RejectSubscription, Approval,
     Refusal, GatewayTimeout, Commit, CommitFails, Crash, LoseCall, TossDecline,
     TossRepeat, vars

LEMMA PaidStep == IInv /\ [Next]_vars => ApprovedIsPaid'
<1> SUFFICES ASSUME IInv, [Next]_vars, NEW x \in Orders
             PROVE  /\ payment'[x].status = "approved" =>
                          captured'[x] = Price[payment'[x].plan]
                    /\ captured'[x] # 0 => captured'[x] = payment'[x].amount
  BY DEF ApprovedIsPaid
<1>0. /\ payment[x].status = "approved" => captured[x] = Price[payment[x].plan]
      /\ captured[x] # 0 => captured[x] = payment[x].amount
      /\ RowOK(x)
  BY DEF IInv, ApprovedIsPaid
<1>1. ASSUME NEW u \in Users, NEW p \in Plans, NEW o \in Orders, Checkout(u, p, o)
      PROVE  /\ payment'[x].status = "approved" => captured'[x] = Price[payment'[x].plan]
             /\ captured'[x] # 0 => captured'[x] = payment'[x].amount
  <2>1. captured' = captured
    BY <1>1 DEF Checkout
  <2>2. CASE x = o
    <3>1. captured[o] = 0 /\ payment'[o].status = "requested"
      BY <1>1, CheckoutFacts
    <3>2. QED
      BY <2>1, <2>2, <3>1
  <2>3. CASE x # o
    BY <1>0, <1>1, <2>1, <2>3, CheckoutFacts
  <2>4. QED
    BY <2>2, <2>3
<1>2. ASSUME NEW r \in Requests, Commit(r)
      PROVE  /\ payment'[x].status = "approved" => captured'[x] = Price[payment'[x].plan]
             /\ captured'[x] # 0 => captured'[x] = payment'[x].amount
  <2>1. captured' = captured
    BY <1>2 DEF Commit
  <2>2. QED
    BY <1>0, <1>2, <2>1, CommitFacts
<1>3. ASSUME NEW r \in Requests, TossCapture(r)
      PROVE  /\ payment'[x].status = "approved" => captured'[x] = Price[payment'[x].plan]
             /\ captured'[x] # 0 => captured'[x] = payment'[x].amount
  <2>1. payment' = payment /\ RequestOK(r) /\ call[r] = "sent" /\ captured \in [Orders -> Nat]
    BY <1>3 DEF TossCapture, database, IInv, TypeOK
  <2>2. CASE x = req[r].order
    <3>1. captured'[x] = payment[x].amount /\ payment[x].status # "absent"
      BY <1>3, <2>1, <2>2 DEF RequestOK, TossCapture
    <3>2. payment[x].amount = Price[payment[x].plan]
      BY <1>0, <3>1 DEF RowOK, NoPayment
    <3>3. QED
      BY <2>1, <3>1, <3>2
  <2>3. CASE x # req[r].order
    BY <1>0, <1>3, <2>1, <2>3 DEF TossCapture
  <2>4. QED
    BY <2>2, <2>3
<1>4. CASE UNCHANGED <<payment, captured>>
  BY <1>0, <1>4
<1>5. QED
  BY <1>1, <1>2, <1>3, <1>4 DEF Next, Serve, Toss, UpgradePlan, BeginConfirm,
     LockPayment, RejectPayment, LockSubscription, RejectSubscription, Approval,
     Refusal, GatewayTimeout, CommitFails, Crash, LoseCall, TossDecline,
     TossRepeat, vars, database

(* Appending to the empty and to a one-element history. *)
LEMMA AppendFirst == ASSUME NEW a PROVE Append(<<>>, a) = <<a>>
OBVIOUS

LEMMA AppendSecond ==
    ASSUME NEW a, NEW b
    PROVE  Append(<<a>>, b) = <<a, b>>
<1> DEFINE S == {a, b}
           s == Append(<<a>>, b)
           t == <<a, b>>
<1>1. <<a>> \in Seq(S)
  OBVIOUS
<1>2. s \in Seq(S) /\ Len(s) = 2 /\ s[1] = a /\ s[2] = b
  BY <1>1
<1>3. t \in Seq(S) /\ Len(t) = 2 /\ t[1] = a /\ t[2] = b
  OBVIOUS
<1> HIDE DEF s, t
<1>4. \A i \in 1 .. Len(s) : s[i] = t[i]
  <2>1. \A i \in 1 .. 2 : i = 1 \/ i = 2
    OBVIOUS
  <2>2. QED
    BY <1>2, <1>3, <2>1
<1>5. s = t
  BY <1>2, <1>3, <1>4, SeqEqual
<1>6. QED
  BY <1>5 DEF s, t

LEMMA AuditStep == IInv /\ [Next]_vars => AuditTrail'
<1> SUFFICES ASSUME IInv, [Next]_vars PROVE AuditTrail'
  OBVIOUS
<1>0. AuditTrail /\ TypeOK
  BY DEF IInv
<1>1. ASSUME NEW u \in Users, NEW p \in Plans, NEW o \in Orders, Checkout(u, p, o)
      PROVE  AuditTrail'
  <2>1. events'[o] = <<"checkout_requested">> /\ payment'[o].status = "requested"
    <3>1. events'[o] = Append(events[o], "checkout_requested")
      BY <1>0, <1>1 DEF Checkout, TypeOK
    <3>2. events[o] = <<>> /\ payment'[o].status = "requested"
      BY <1>1, CheckoutFacts
    <3>3. QED
      BY <3>1, <3>2, AppendFirst
  <2>2. \A x \in Orders : x # o => events'[x] = events[x] /\ payment'[x] = payment[x]
    BY <1>0, <1>1, CheckoutFacts DEF Checkout, TypeOK
  <2>3. QED
    BY <1>0, <2>1, <2>2 DEF AuditTrail
<1>2. ASSUME NEW r \in Requests, Commit(r)
      PROVE  AuditTrail'
  <2> DEFINE o == req[r].order
  <2>1. o \in Orders /\ payment'[o].status = "approved" /\ payment[o].status = "requested"
    BY <1>2, CommitFacts
  <2>2. events[o] = <<"checkout_requested">>
    BY <1>0, <2>1 DEF AuditTrail
  <2>3. events'[o] = <<"checkout_requested", "payment_confirmed">>
    <3>1. events'[o] = Append(events[o], "payment_confirmed")
      BY <1>0, <1>2, <2>1 DEF Commit, TypeOK
    <3>2. QED
      BY <2>2, <3>1, AppendSecond
  <2>4. \A x \in Orders : x # o => events'[x] = events[x] /\ payment'[x] = payment[x]
    BY <1>0, <1>2, CommitFacts DEF Commit, TypeOK
  <2>5. QED
    BY <1>0, <2>1, <2>3, <2>4 DEF AuditTrail
<1>3. CASE UNCHANGED <<payment, events>>
  BY <1>0, <1>3 DEF AuditTrail
<1>4. QED
  BY <1>1, <1>2, <1>3, NextCases, QuietFacts DEF UpgradePlan, database, vars

LEMMA EarnedStep == IInv /\ [Next]_vars => PlanIsEarned'
<1> SUFFICES ASSUME IInv, [Next]_vars, NEW v \in Users
             PROVE  \/ subscription'[v] \in {FreePlan, NoPlan} \cup granted'[v]
                    \/ \E o \in Orders : /\ payment'[o].status = "approved"
                                         /\ payment'[o].user = v
                                         /\ payment'[o].plan = subscription'[v]
  BY DEF PlanIsEarned
<1> DEFINE Earned ==
             \/ subscription[v] \in {FreePlan, NoPlan} \cup granted[v]
             \/ \E o \in Orders : /\ payment[o].status = "approved"
                                  /\ payment[o].user = v
                                  /\ payment[o].plan = subscription[v]
<1>0. TypeOK /\ Earned
  BY DEF IInv, PlanIsEarned
<1>1. ASSUME NEW u \in Users, NEW p \in Plans, NEW o \in Orders, Checkout(u, p, o)
      PROVE  Earned'
  <2>1. \A x \in Orders : payment[x].status = "approved" => payment'[x] = payment[x]
    <3>1. payment[o].status = "absent"
      BY <1>1 DEF Checkout
    <3>2. QED
      BY <1>1, <3>1, CheckoutFacts
  <2>2. UNCHANGED <<subscription, granted>>
    BY <1>1 DEF Checkout
  <2>3. QED
    BY <1>0, <2>1, <2>2
<1>2. ASSUME NEW u \in Users, NEW p \in Plans, UpgradePlan(u, p)
      PROVE  Earned'
  <2>1. payment' = payment
    BY <1>2 DEF UpgradePlan
  <2>2. CASE v = u
    <3>1. subscription'[v] = p /\ p \in granted'[v]
      BY <1>0, <1>2, <2>2 DEF UpgradePlan, TypeOK
    <3>2. QED
      BY <3>1
  <2>3. CASE v # u
    <3>1. subscription'[v] = subscription[v] /\ granted'[v] = granted[v]
      BY <1>0, <1>2, <2>3 DEF UpgradePlan, TypeOK
    <3>2. QED
      BY <1>0, <2>1, <3>1
  <2>4. QED
    BY <2>2, <2>3
<1>3. ASSUME NEW r \in Requests, Commit(r)
      PROVE  Earned'
  <2> DEFINE o == req[r].order
  <2>1. /\ o \in Orders /\ payment[o].user = req[r].user
        /\ payment[o].status = "requested" /\ payment'[o].status = "approved"
        /\ payment'[o].user = payment[o].user /\ payment'[o].plan = payment[o].plan
        /\ \A x \in Orders : x # o => payment'[x] = payment[x]
    BY <1>3, CommitFacts
  <2>2. subscription' = [subscription EXCEPT ![req[r].user] = payment[o].plan]
        /\ granted' = granted
    BY <1>3 DEF Commit
  <2>3. CASE v = req[r].user
    <3>1. subscription'[v] = payment'[o].plan
      BY <1>0, <2>1, <2>2, <2>3 DEF TypeOK
    <3>2. QED
      BY <2>1, <2>3, <3>1
  <2>4. CASE v # req[r].user
    <3>1. subscription'[v] = subscription[v]
      BY <1>0, <2>2, <2>4 DEF TypeOK
    <3>2. \A x \in Orders : payment[x].status = "approved" => payment'[x] = payment[x]
      BY <2>1
    <3>3. QED
      BY <1>0, <2>2, <3>1, <3>2
  <2>5. QED
    BY <2>3, <2>4
<1>4. CASE UNCHANGED <<payment, subscription, granted>>
  BY <1>0, <1>4
<1>5. QED
  BY <1>1, <1>2, <1>3, <1>4, NextCases, QuietFacts DEF database, vars

-----------------------------------------------------------------------------
(* A step moves one request, and a row lock goes to it only when free. *)
LEMMA LockStep ==
    ASSUME TypeOK, [Next]_vars
    PROVE  \/ UNCHANGED <<pc, req>>
           \/ \E r \in Requests :
                /\ \A s \in Requests : s # r => pc'[s] = pc[s] /\ req'[s] = req[s]
                /\ \A o \in Orders : HoldsPayment(r, o)' => HoldsPayment(r, o) \/ PaymentFree(o)
                /\ \A u \in Users :
                     HoldsSubscription(r, u)' => HoldsSubscription(r, u) \/ SubscriptionFree(u)
<1> DEFINE Moves(r) ==
             /\ \A s \in Requests : s # r => pc'[s] = pc[s] /\ req'[s] = req[s]
             /\ \A o \in Orders : HoldsPayment(r, o)' => HoldsPayment(r, o) \/ PaymentFree(o)
             /\ \A u \in Users :
                  HoldsSubscription(r, u)' => HoldsSubscription(r, u) \/ SubscriptionFree(u)
<1> USE DEF TypeOK, HoldsPayment, HoldsSubscription
<1>1. ASSUME NEW r \in Requests, LockPayment(r)
      PROVE  Moves(r)
  BY <1>1 DEF LockPayment
<1>2. ASSUME NEW r \in Requests, LockSubscription(r)
      PROVE  Moves(r)
  BY <1>2 DEF LockSubscription
<1>3. ASSUME NEW r \in Requests, Approval(r)
      PROVE  Moves(r)
  BY <1>3 DEF Approval
<1>4. ASSUME NEW r \in Requests,
             \/ RejectPayment(r) \/ RejectSubscription(r) \/ Refusal(r)
             \/ GatewayTimeout(r) \/ Commit(r) \/ CommitFails(r) \/ Crash(r)
      PROVE  Moves(r)
  BY <1>4 DEF RejectPayment, RejectSubscription, Refusal, GatewayTimeout, Commit,
     CommitFails, Crash
<1>5. ASSUME NEW r \in Requests, NEW u \in Users, NEW o \in Orders,
             NEW amount \in Amounts, BeginConfirm(r, u, o, amount)
      PROVE  Moves(r)
  BY <1>5 DEF BeginConfirm
<1>6. ASSUME NEW r \in Requests, Toss(r) \/ LoseCall(r)
      PROVE  UNCHANGED <<pc, req>>
  BY <1>6 DEF Toss, TossCapture, TossDecline, TossRepeat, LoseCall
<1>7. ASSUME UNCHANGED vars
      PROVE  UNCHANGED <<pc, req>>
  BY <1>7 DEF vars
<1>8. ASSUME NEW u \in Users, NEW p \in Plans,
             UpgradePlan(u, p) \/ \E o \in Orders : Checkout(u, p, o)
      PROVE  UNCHANGED <<pc, req>>
  BY <1>8 DEF Checkout, UpgradePlan
<1> HIDE DEF Moves, TypeOK, HoldsPayment, HoldsSubscription
<1>9. ASSUME NEW r \in Requests, Serve(r) \/ Crash(r)
      PROVE  Moves(r)
  BY <1>1, <1>2, <1>3, <1>4, <1>9 DEF Serve
<1>10. UNCHANGED <<pc, req>> \/ \E r \in Requests : Moves(r)
  BY <1>5, <1>6, <1>7, <1>8, <1>9 DEF Next
<1>11. QED
  BY <1>10 DEF Moves

LEMMA ExclusiveStep == IInv /\ [Next]_vars => RowsExclusive'
<1> SUFFICES ASSUME IInv, [Next]_vars, NEW s \in Requests, NEW t \in Requests, s # t
             PROVE  /\ \A o \in Orders : ~(HoldsPayment(s, o)' /\ HoldsPayment(t, o)')
                    /\ \A u \in Users : ~(HoldsSubscription(s, u)' /\ HoldsSubscription(t, u)')
  BY DEF RowsExclusive
<1>1. TypeOK /\ RowsExclusive
  BY DEF IInv
<1>2. CASE UNCHANGED <<pc, req>>
  BY <1>1, <1>2 DEF RowsExclusive, HoldsPayment, HoldsSubscription
<1>3. ASSUME NEW r \in Requests,
             \A q \in Requests : q # r => pc'[q] = pc[q] /\ req'[q] = req[q],
             \A o \in Orders : HoldsPayment(r, o)' => HoldsPayment(r, o) \/ PaymentFree(o),
             \A u \in Users :
               HoldsSubscription(r, u)' => HoldsSubscription(r, u) \/ SubscriptionFree(u)
      PROVE  /\ \A o \in Orders : ~(HoldsPayment(s, o)' /\ HoldsPayment(t, o)')
             /\ \A u \in Users : ~(HoldsSubscription(s, u)' /\ HoldsSubscription(t, u)')
  <2>1. \A q \in Requests : q # r =>
          /\ \A o \in Orders : HoldsPayment(q, o)' <=> HoldsPayment(q, o)
          /\ \A u \in Users : HoldsSubscription(q, u)' <=> HoldsSubscription(q, u)
    BY <1>3 DEF HoldsPayment, HoldsSubscription
  <2>2. \A o \in Orders : ~(HoldsPayment(s, o)' /\ HoldsPayment(t, o)')
    BY <1>1, <1>3, <2>1 DEF RowsExclusive, PaymentFree
  <2>3. \A u \in Users : ~(HoldsSubscription(s, u)' /\ HoldsSubscription(t, u)')
    BY <1>1, <1>3, <2>1 DEF RowsExclusive, SubscriptionFree
  <2>4. QED
    BY <2>2, <2>3
<1>4. QED
  BY <1>1, <1>2, <1>3, LockStep

-----------------------------------------------------------------------------
LEMMA RequestStep == IInv /\ [Next]_vars => \A r \in Requests : RequestOK(r)'
<1> SUFFICES ASSUME IInv, [Next]_vars, NEW s \in Requests PROVE RequestOK(s)'
  OBVIOUS
<1>0. TypeOK /\ RequestOK(s)
  BY DEF IInv
<1>1. ASSUME NEW u \in Users, NEW p \in Plans, NEW o \in Orders, Checkout(u, p, o)
      PROVE  RequestOK(s)'
  <2>1. payment[o].status = "absent" /\ UNCHANGED <<pc, req, call, captured>>
    BY <1>1 DEF Checkout
  <2>2. \A x \in Orders : x # o => payment'[x] = payment[x]
    BY <1>1, CheckoutFacts
  <2>3. CASE req[s].order = o
    BY <1>0, <2>1, <2>3 DEF RequestOK
  <2>4. CASE req[s].order # o
    <3>1. CASE pc[s] = "idle" /\ call[s] = "none"
      BY <2>1, <3>1 DEF RequestOK
    <3>2. CASE pc[s] # "idle" \/ call[s] # "none"
      <4>1. req[s].order \in Orders
        BY <1>0, <3>2 DEF TypeOK, ConfirmCall
      <4>2. QED
        BY <1>0, <2>1, <2>2, <2>4, <4>1 DEF RequestOK
    <3>3. QED
      BY <3>1, <3>2
  <2>5. QED
    BY <2>3, <2>4
<1>2. ASSUME NEW r \in Requests, Commit(r)
      PROVE  RequestOK(s)'
  <2> DEFINE o == req[r].order
  <2>1. /\ o \in Orders /\ payment[o].status = "requested" /\ payment'[o].status = "approved"
        /\ payment'[o].user = payment[o].user /\ payment'[o].amount = payment[o].amount
        /\ \A x \in Orders : x # o => payment'[x] = payment[x]
    BY <1>2, CommitFacts
  <2>2. /\ UNCHANGED <<req, call, captured>> /\ pc[r] = "commit"
        /\ pc'[r] = "idle" /\ (s # r => pc'[s] = pc[s])
    BY <1>0, <1>2 DEF Commit, TypeOK
  <2>3. s # r /\ req[s].order = o => pc[s] \notin {"subscription", "toss", "commit"}
    BY <2>1, <2>2 DEF IInv, RowsExclusive, HoldsPayment
  <2>4. CASE req[s].order = o
    BY <1>0, <2>1, <2>2, <2>3, <2>4 DEF RequestOK
  <2>5. CASE req[s].order # o
    <3>1. CASE pc[s] = "idle" /\ call[s] = "none"
      BY <2>2, <3>1 DEF RequestOK
    <3>2. CASE pc[s] # "idle" \/ call[s] # "none"
      <4>1. req[s].order \in Orders
        BY <1>0, <3>2 DEF TypeOK, ConfirmCall
      <4>2. QED
        BY <1>0, <2>1, <2>2, <2>5, <4>1 DEF RequestOK
    <3>3. QED
      BY <3>1, <3>2
  <2>6. QED
    BY <2>4, <2>5
<1>3. ASSUME NEW r \in Requests, TossCapture(r)
      PROVE  RequestOK(s)'
  <2> DEFINE o == req[r].order
  <2>1. /\ UNCHANGED <<payment, pc, req>> /\ call[r] = "sent" /\ captured[o] = 0
        /\ call'[r] = "ok" /\ (s # r => call'[s] = call[s])
    BY <1>0, <1>3 DEF TossCapture, TypeOK, database
  <2>2. RequestOK(r) /\ o \in Orders /\ RowOK(o)
    <3>1. o \in Orders
      BY <1>0, <2>1 DEF TypeOK, ConfirmCall
    <3>2. QED
      BY <3>1 DEF IInv
  <2>3. captured'[o] = req[r].amount /\ \A x \in Orders : x # o => captured'[x] = captured[x]
    BY <1>0, <1>3, <2>2 DEF TossCapture, TypeOK
  <2>4. payment[o].status # "absent" /\ payment[o].amount = req[r].amount
    BY <2>1, <2>2 DEF RequestOK
  <2>5. CASE s = r
    BY <1>0, <2>1, <2>3, <2>4, <2>5 DEF RequestOK
  <2>6. CASE s # r /\ req[s].order = o
    <3>1. call[s] = "ok" \/ pc[s] = "commit" => req[s].amount = payment[o].amount
      BY <1>0, <2>6 DEF RequestOK
    <3>2. QED
      BY <1>0, <2>1, <2>3, <2>4, <2>6, <3>1 DEF RequestOK
  <2>7. CASE s # r /\ req[s].order # o
    <3>1. CASE pc[s] = "idle" /\ call[s] = "none"
      BY <2>1, <2>7, <3>1 DEF RequestOK
    <3>2. CASE pc[s] # "idle" \/ call[s] # "none"
      <4>1. req[s].order \in Orders
        BY <1>0, <3>2 DEF TypeOK, ConfirmCall
      <4>2. QED
        BY <1>0, <2>1, <2>3, <2>7, <4>1 DEF RequestOK
    <3>3. QED
      BY <3>1, <3>2
  <2>8. QED
    BY <2>5, <2>6, <2>7
<1>4. ASSUME NEW r \in Requests, NEW answer \in RepeatAnswers, TossRepeat(r, answer)
      PROVE  RequestOK(s)'
  <2>1. /\ UNCHANGED <<payment, pc, req, captured>> /\ call[r] = "sent"
        /\ captured[req[r].order] # 0 /\ (s # r => call'[s] = call[s])
    BY <1>0, <1>4 DEF TossRepeat, TypeOK, database
  <2>2. RequestOK(r) /\ req[r].order \in Orders
    BY <1>0, <2>1 DEF IInv, TypeOK, ConfirmCall
  <2>3. captured[req[r].order] = req[r].amount
    BY <2>1, <2>2 DEF RequestOK, IInv, ApprovedIsPaid
  <2>4. CASE s = r
    BY <1>0, <2>1, <2>3, <2>4 DEF RequestOK
  <2>5. CASE s # r
    BY <1>0, <2>1, <2>5 DEF RequestOK
  <2>6. QED
    BY <2>4, <2>5
<1>5. ASSUME NEW r \in Requests, NEW u \in Users, NEW o \in Orders,
             NEW amount \in Amounts, BeginConfirm(r, u, o, amount)
      PROVE  RequestOK(s)'
  <2>1. CASE s = r
    BY <1>0, <1>5, <2>1 DEF BeginConfirm, RequestOK, TypeOK
  <2>2. CASE s # r
    BY <1>0, <1>5, <2>2 DEF BeginConfirm, RequestOK, TypeOK, database
  <2>3. QED
    BY <2>1, <2>2
<1>6. ASSUME NEW r \in Requests, LockPayment(r) \/ LockSubscription(r) \/ Approval(r)
      PROVE  RequestOK(s)'
  <2>1. CASE LockPayment(r)
    <3>1. req[r].order \in Orders
      BY <1>0, <2>1 DEF LockPayment, TypeOK, ConfirmCall
    <3>2. payment[req[r].order].status \in {"absent", "requested", "approved"}
      BY <1>0, <3>1 DEF TypeOK, PaymentRow, NoPayment
    <3>3. payment[req[r].order].status = "requested"
      BY <2>1, <3>2 DEF LockPayment, Confirmable
    <3>4. QED
      BY <1>0, <2>1, <3>3 DEF LockPayment, Confirmable, RequestOK, TypeOK, database
  <2>2. CASE LockSubscription(r)
    BY <1>0, <2>2 DEF LockSubscription, RequestOK, TypeOK, database
  <2>3. CASE Approval(r)
    BY <1>0, <2>3 DEF Approval, RequestOK, TypeOK, database
  <2>4. QED
    BY <1>6, <2>1, <2>2, <2>3
<1>7. ASSUME NEW r \in Requests,
             \/ RejectPayment(r) \/ RejectSubscription(r) \/ Refusal(r) \/ TossDecline(r)
             \/ GatewayTimeout(r) \/ CommitFails(r) \/ Crash(r) \/ LoseCall(r)
      PROVE  RequestOK(s)'
  BY <1>0, <1>7 DEF RejectPayment, RejectSubscription, Refusal, TossDecline, GatewayTimeout,
     CommitFails, Crash, LoseCall, RequestOK, TypeOK, database
<1>8. CASE UNCHANGED <<payment, pc, req, call, captured>>
  BY <1>0, <1>8 DEF RequestOK
<1>9. QED
  BY <1>1, <1>2, <1>3, <1>4, <1>5, <1>6, <1>7, <1>8
     DEF Next, Serve, Toss, UpgradePlan, vars

-----------------------------------------------------------------------------
LEMMA Inductive == IInv /\ [Next]_vars => IInv'
<1> SUFFICES ASSUME IInv, [Next]_vars PROVE IInv'
  OBVIOUS
<1>1. TypeOK' /\ RowsExclusive' /\ ApprovedIsPaid' /\ AuditTrail' /\ PlanIsEarned'
  BY TypeStep, ExclusiveStep, PaidStep, AuditStep, EarnedStep
<1>2. (\A o \in Orders : RowOK(o))' /\ (\A r \in Requests : RequestOK(r))'
  BY RowStep, RequestStep
<1>3. QED
  BY <1>1, <1>2 DEF IInv

LEMMA Invariance == Spec => []IInv
<1>1. QED
  BY InitIInv, Inductive, PTL DEF Spec

(* Rows, requests and the gateway's ledger keep the types TypeOK gives.    *)
THEOREM TypeCorrect == Spec => []TypeOK
<1>1. IInv => TypeOK
  BY DEF IInv
<1>2. QED
  BY <1>1, Invariance, PTL

(* An approved payment is one the gateway took the plan's price for, and   *)
(* no order is ever charged another amount than its own, however requests  *)
(* overlap, time out, fail to commit or are repeated.                      *)
THEOREM ApprovedPaid == Spec => []ApprovedIsPaid
<1>1. IInv => ApprovedIsPaid
  BY DEF IInv
<1>2. QED
  BY <1>1, Invariance, PTL

(* Every order has exactly the billing events its status calls for: at     *)
(* most one payment_confirmed, written with the approval.                  *)
THEOREM Audited == Spec => []AuditTrail
<1>1. IInv => AuditTrail
  BY DEF IInv
<1>2. QED
  BY <1>1, Invariance, PTL

(* Paid plans come from an approved payment of the same user, or from the  *)
(* development upgrade.                                                    *)
THEOREM PlansEarned == Spec => []PlanIsEarned
<1>1. IInv => PlanIsEarned
  BY DEF IInv
<1>2. QED
  BY <1>1, Invariance, PTL

(* No two confirms are inside the same payment or subscription row.        *)
THEOREM LocksExclusive == Spec => []RowsExclusive
<1>1. IInv => RowsExclusive
  BY DEF IInv
<1>2. QED
  BY <1>1, Invariance, PTL

(* The plan of a user stands still while a confirm holds its row, so the   *)
(* 30 s gateway call races with no other plan change.                      *)
THEOREM PlanStable == Spec => SubscriptionStable
<1> DEFINE Stable ==
      \A r \in Requests :
        LET u == req[r].user IN
          (HoldsSubscription(r, u) /\ pc'[r] # "idle") => subscription'[u] = subscription[u]
<1>1. ASSUME IInv, [Next]_vars PROVE Stable
  <2> SUFFICES ASSUME NEW r \in Requests, HoldsSubscription(r, req[r].user), pc'[r] # "idle"
               PROVE  subscription'[req[r].user] = subscription[req[r].user]
    OBVIOUS
  <2> DEFINE u == req[r].user
  <2>1. TypeOK /\ RowsExclusive
    BY <1>1 DEF IInv
  <2>2. u \in Users
    BY <2>1 DEF HoldsSubscription, TypeOK, ConfirmCall
  <2>3. ASSUME NEW s \in Requests, Commit(s)
        PROVE  subscription'[u] = subscription[u]
    <3>1. s # r
      BY <2>1, <2>3 DEF Commit, TypeOK
    <3>2. req[s].user # u
      BY <2>1, <2>2, <2>3, <3>1 DEF Commit, RowsExclusive, HoldsSubscription
    <3>3. QED
      BY <2>1, <2>2, <2>3, <3>2 DEF Commit, TypeOK
  <2>4. ASSUME NEW v \in Users, NEW p \in Plans, UpgradePlan(v, p)
        PROVE  subscription'[u] = subscription[u]
    <3>1. v # u
      BY <2>4 DEF UpgradePlan, SubscriptionFree
    <3>2. QED
      BY <2>1, <2>2, <2>4, <3>1 DEF UpgradePlan, TypeOK
  <2>5. CASE UNCHANGED subscription
    BY <2>5
  <2>6. QED
    BY <1>1, <2>3, <2>4, <2>5, NextCases, QuietFacts DEF Checkout, database, vars
<1>2. QED
  BY <1>1, Invariance, PTL DEF SubscriptionStable, Spec

-----------------------------------------------------------------------------
(* Refinement of PaidPlans: a checkout opens, a capture pays, a commit     *)
(* settles, a development upgrade grants, and every other step stutters.   *)

LEMMA CheckoutOpens ==
    ASSUME IInv, NEW u \in Users, NEW p \in Plans, NEW o \in Orders, Checkout(u, p, o)
    PROVE  Abstract!Open(o, u, p)
<1>1. /\ payment[o] = NoPayment /\ captured[o] = 0 /\ Purchasable(p)
      /\ payment'[o] = [status |-> "requested", user |-> u, plan |-> p, amount |-> Price[p]]
      /\ \A x \in Orders : x # o => payment'[x] = payment[x]
  BY CheckoutFacts
<1>2. UNCHANGED <<subscription, captured>>
  BY DEF Checkout
<1>3. payment[o].status = "absent" /\ payment'[o].status = "requested"
      /\ payment'[o].user = u /\ payment'[o].plan = p
  BY <1>1 DEF NoPayment
<1>4. Ledger[o] = "absent" /\ Ledger' = [Ledger EXCEPT ![o] = "open"]
  BY <1>1, <1>2, <1>3 DEF Ledger
<1>5. Buyer' = [Buyer EXCEPT ![o] = u]
  BY <1>1, <1>3 DEF Buyer
<1>6. Item' = [Item EXCEPT ![o] = p]
  BY <1>1, <1>3 DEF Item
<1>7. QED
  BY <1>1, <1>2, <1>4, <1>5, <1>6 DEF Abstract!Open, Purchasable

LEMMA CapturePays ==
    ASSUME IInv, NEW r \in Requests, TossCapture(r)
    PROVE  \E o \in Orders : Abstract!Pay(o)
<1> DEFINE o == req[r].order
<1>1. TypeOK /\ RequestOK(r) /\ call[r] = "sent" /\ captured[o] = 0
  BY DEF IInv, TossCapture
<1>2. o \in Orders
  BY <1>1 DEF TypeOK, ConfirmCall
<1>3. RowOK(o) /\ payment[o].status # "absent" /\ payment[o].amount = req[r].amount
  BY <1>1, <1>2 DEF IInv, RequestOK
<1>4. Price[payment[o].plan] > 0 /\ payment[o].amount = Price[payment[o].plan]
      /\ payment[o].status \in {"requested", "approved"}
  BY <1>3 DEF RowOK, Purchasable, NoPayment
<1>5. payment[o].status = "requested"
  BY <1>1, <1>2, <1>4 DEF IInv, ApprovedIsPaid
<1>6. UNCHANGED <<payment, subscription>>
      /\ captured'[o] # 0 /\ \A x \in Orders : x # o => captured'[x] = captured[x]
  BY <1>1, <1>2, <1>3, <1>4 DEF TossCapture, TypeOK, database
<1>7. Ledger[o] = "open" /\ Ledger' = [Ledger EXCEPT ![o] = "paid"]
  BY <1>1, <1>2, <1>5, <1>6 DEF Ledger
<1>8. Buyer' = Buyer /\ Item' = Item
  BY <1>6 DEF Buyer, Item
<1>9. QED
  BY <1>2, <1>6, <1>7, <1>8 DEF Abstract!Pay

LEMMA CommitSettles ==
    ASSUME IInv, NEW r \in Requests, Commit(r)
    PROVE  \E o \in Orders : Abstract!Settle(o)
<1> DEFINE o == req[r].order
<1>1. /\ o \in Orders /\ payment[o].status = "requested" /\ payment'[o].status = "approved"
      /\ payment[o].user = req[r].user /\ Purchasable(payment[o].plan)
      /\ payment[o].amount = Price[payment[o].plan] /\ captured[o] = payment[o].amount
      /\ payment'[o].user = payment[o].user /\ payment'[o].plan = payment[o].plan
      /\ \A x \in Orders : x # o => payment'[x] = payment[x]
  BY CommitFacts
<1>2. captured' = captured
      /\ subscription' = [subscription EXCEPT ![req[r].user] = payment[o].plan]
  BY DEF Commit
<1>3. captured[o] # 0
  BY <1>1 DEF Purchasable
<1>4. Ledger[o] = "paid"
  BY <1>1, <1>3 DEF Ledger
<1>5. Ledger' = [Ledger EXCEPT ![o] = "settled"]
  BY <1>1, <1>2 DEF Ledger
<1>6. Buyer' = Buyer
  BY <1>1 DEF Buyer
<1>7. Item' = Item
  BY <1>1 DEF Item
<1>8. Buyer[o] = req[r].user /\ Item[o] = payment[o].plan
  BY <1>1 DEF Buyer, Item
<1>9. QED
  BY <1>1, <1>2, <1>4, <1>5, <1>6, <1>7, <1>8 DEF Abstract!Settle

LEMMA UpgradeGrants ==
    ASSUME IInv, NEW u \in Users, NEW p \in Plans, UpgradePlan(u, p)
    PROVE  Abstract!Grant(u, p)
BY DEF UpgradePlan, HasSubscription, Abstract!Grant, Ledger, Buyer, Item

LEMMA OthersStutter ==
    ASSUME IInv, [Next]_vars,
           ~ \E u \in Users, p \in Plans, o \in Orders : Checkout(u, p, o),
           ~ \E u \in Users, p \in Plans : UpgradePlan(u, p),
           ~ \E r \in Requests : Commit(r) \/ TossCapture(r)
    PROVE  UNCHANGED <<Ledger, Buyer, Item, subscription>>
<1>1. UNCHANGED <<payment, subscription, captured>>
  BY DEF Next, Serve, Toss, BeginConfirm, LockPayment, RejectPayment, LockSubscription,
     RejectSubscription, Approval, Refusal, GatewayTimeout, CommitFails, Crash, LoseCall,
     TossDecline, TossRepeat, vars, database
<1>2. QED
  BY <1>1 DEF Ledger, Buyer, Item

(* Billing implements PaidPlans: an order is paid and settled at most once *)
(* each, in that order, and its plan is granted in the settling step.      *)
THEOREM Refinement == Spec => ImplementsPaidPlans
<1>1. Init => Abstract!Init
  BY DEF Init, Abstract!Init, Ledger, Buyer, Item, NoPayment
<1>2. IInv /\ [Next]_vars => [Abstract!Next]_(Abstract!avars)
  <2> SUFFICES ASSUME IInv, [Next]_vars PROVE [Abstract!Next]_(Abstract!avars)
    OBVIOUS
  <2>1. CASE \E u \in Users, p \in Plans, o \in Orders : Checkout(u, p, o)
    BY <2>1, CheckoutOpens DEF Abstract!Next
  <2>2. CASE \E u \in Users, p \in Plans : UpgradePlan(u, p)
    BY <2>2, UpgradeGrants DEF Abstract!Next
  <2>3. CASE \E r \in Requests : Commit(r) \/ TossCapture(r)
    BY <2>3, CommitSettles, CapturePays DEF Abstract!Next
  <2>4. CASE UNCHANGED <<Ledger, Buyer, Item, subscription>>
    BY <2>4 DEF Abstract!avars
  <2>5. QED
    BY <2>1, <2>2, <2>3, <2>4, OthersStutter
<1>3. QED
  BY <1>1, <1>2, Invariance, PTL DEF ImplementsPaidPlans, Abstract!Spec, Spec

-----------------------------------------------------------------------------
(* Without faults: no call times out, no commit fails, no task dies.       *)

(* Request r brings the money of order o home.                             *)
Carries(r, o) ==
    HoldsPayment(r, o) /\ (pc[r] = "commit" \/ (pc[r] = "toss" /\ call[r] = "ok"))

Settles(o) == captured[o] # 0 => payment[o].status = "approved" \/ \E r \in Requests : Carries(r, o)

SafeInv ==
    /\ \A r \in Requests : call[r] # "none" => pc[r] = "toss"
    /\ \A o \in Orders : Settles(o)

LEMMA SafeStep ==
    ASSUME Faults = {}, IInv, SafeInv, [Next]_vars
    PROVE  SafeInv'
<1>0. TypeOK
  BY DEF IInv
<1>1. ASSUME NEW r \in Requests, GatewayTimeout(r) \/ CommitFails(r) \/ Crash(r) \/ LoseCall(r)
      PROVE  FALSE
  BY <1>1 DEF SafeInv, GatewayTimeout, CommitFails, Crash, LoseCall
<1>2. ASSUME NEW s \in Requests, call'[s] # "none" PROVE pc'[s] = "toss"
  <2>1. CASE UNCHANGED <<pc, call>>
    BY <1>2, <2>1 DEF SafeInv
  <2>2. ASSUME NEW r \in Requests,
               LockPayment(r) \/ RejectPayment(r) \/ RejectSubscription(r) \/ Commit(r)
        PROVE  pc'[s] = "toss"
    BY <1>0, <1>2, <2>2
       DEF TypeOK, SafeInv, LockPayment, RejectPayment, RejectSubscription, Commit
  <2>3. ASSUME NEW r \in Requests, LockSubscription(r) \/ Approval(r) \/ Refusal(r)
        PROVE  pc'[s] = "toss"
    BY <1>0, <1>2, <2>3 DEF TypeOK, SafeInv, LockSubscription, Approval, Refusal
  <2>4. ASSUME NEW r \in Requests, Toss(r) PROVE pc'[s] = "toss"
    BY <1>0, <1>2, <2>4 DEF TypeOK, SafeInv, Toss, TossCapture, TossDecline, TossRepeat
  <2>5. ASSUME NEW r \in Requests, NEW u \in Users, NEW o \in Orders, NEW amount \in Amounts,
               BeginConfirm(r, u, o, amount)
        PROVE  pc'[s] = "toss"
    BY <1>0, <1>2, <2>5 DEF TypeOK, SafeInv, BeginConfirm
  <2>6. QED
    BY <1>1, <2>1, <2>2, <2>3, <2>4, <2>5 DEF Next, Serve, Checkout, UpgradePlan, vars
<1>3. ASSUME NEW o \in Orders PROVE Settles(o)'
  <2>1. Settles(o)
    BY DEF SafeInv
  <2>2. ASSUME NEW u \in Users, NEW p \in Plans, NEW x \in Orders, Checkout(u, p, x)
        PROVE  Settles(o)'
    <3>1. UNCHANGED <<pc, req, call, captured>>
      BY <2>2 DEF Checkout
    <3>2. payment[o].status = "approved" => payment'[o].status = "approved"
      <4>1. payment[x].status = "absent"
        BY <2>2 DEF Checkout
      <4>2. o # x => payment'[o] = payment[o]
        BY <2>2, CheckoutFacts
      <4>3. QED
        BY <4>1, <4>2
    <3>3. QED
      BY <2>1, <3>1, <3>2 DEF Settles, Carries, HoldsPayment
  <2>3. ASSUME NEW r \in Requests, Commit(r) PROVE Settles(o)'
    <3>1. /\ \A s \in Requests \ {r} : pc'[s] = pc[s]
          /\ UNCHANGED <<req, call, captured>> /\ req[r].order \in Orders
      BY <1>0, <2>3, CommitFacts DEF Commit, TypeOK
    <3>2. payment[o].status = "approved" \/ req[r].order = o => payment'[o].status = "approved"
      BY <2>3, CommitFacts
    <3>3. QED
      BY <2>1, <3>1, <3>2 DEF Settles, Carries, HoldsPayment
  <2>4. ASSUME NEW r \in Requests, TossCapture(r) PROVE Settles(o)'
    <3>1. pc[r] = "toss" /\ call' = [call EXCEPT ![r] = "ok"] /\ UNCHANGED <<payment, pc, req>>
      BY <2>4 DEF SafeInv, TossCapture, database
    <3>2. CASE req[r].order = o
      BY <1>0, <3>1, <3>2 DEF TypeOK, Settles, Carries, HoldsPayment
    <3>3. CASE req[r].order # o
      <4>1. captured'[o] = captured[o]
        BY <1>0, <2>4, <3>3 DEF TypeOK, TossCapture
      <4>2. \A s \in Requests : Carries(s, o) => Carries(s, o)'
        BY <1>0, <3>1 DEF TypeOK, Carries, HoldsPayment
      <4>3. QED
        BY <2>1, <3>1, <4>1, <4>2 DEF Settles
    <3>4. QED
      BY <3>2, <3>3
  <2>5. ASSUME NEW r \in Requests, UNCHANGED <<payment, captured>>,
               \A s \in Requests : Carries(s, o) => Carries(s, o)'
        PROVE  Settles(o)'
    BY <2>1, <2>5 DEF Settles
  <2>6. ASSUME NEW r \in Requests,
               LockPayment(r) \/ RejectPayment(r) \/ LockSubscription(r) \/ RejectSubscription(r)
        PROVE  Settles(o)'
    <3>1. \A s \in Requests : Carries(s, o) => Carries(s, o)'
      BY <1>0, <2>6 DEF TypeOK, Carries, HoldsPayment, LockPayment, RejectPayment,
         LockSubscription, RejectSubscription
    <3>2. QED
      BY <2>5, <2>6, <3>1 DEF LockPayment, RejectPayment, LockSubscription, RejectSubscription,
         database
  <2>7. ASSUME NEW r \in Requests,
               \/ Approval(r) \/ Refusal(r) \/ TossDecline(r)
               \/ \E answer \in RepeatAnswers : TossRepeat(r, answer)
        PROVE  Settles(o)'
    <3>1. \A s \in Requests : Carries(s, o) => Carries(s, o)'
      BY <1>0, <2>7 DEF TypeOK, Carries, HoldsPayment, Approval, Refusal, TossDecline, TossRepeat
    <3>2. QED
      BY <2>5, <2>7, <3>1 DEF Approval, Refusal, TossDecline, TossRepeat, database
  <2>8. ASSUME NEW r \in Requests, NEW u \in Users, NEW x \in Orders, NEW amount \in Amounts,
               BeginConfirm(r, u, x, amount)
        PROVE  Settles(o)'
    <3>1. \A s \in Requests : Carries(s, o) => Carries(s, o)'
      BY <1>0, <2>8 DEF TypeOK, Carries, HoldsPayment, BeginConfirm
    <3>2. QED
      BY <2>5, <2>8, <3>1 DEF BeginConfirm, database
  <2>9. CASE UNCHANGED <<payment, pc, req, call, captured>>
    BY <2>1, <2>9 DEF Settles, Carries, HoldsPayment
  <2>10. QED
    BY <1>1, <2>2, <2>3, <2>4, <2>6, <2>7, <2>8, <2>9 DEF Next, Serve, Toss, UpgradePlan, vars
<1>4. QED
  BY <1>2, <1>3 DEF SafeInv

(* The comment of billing_service.py:176-177 is right about a world in     *)
(* which nothing breaks: money taken is approved, or a confirm that holds  *)
(* the order is about to.  Any one of the three faults refutes it.         *)
THEOREM PaidIsUpgraded ==
    ASSUME Faults = {}
    PROVE  Spec => []NoPaidButNotUpgraded
<1>1. Init => SafeInv
  BY DEF Init, SafeInv, Settles
<1>2. SafeInv => NoPaidButNotUpgraded
  BY DEF SafeInv, Settles, Carries, NoPaidButNotUpgraded
<1>3. IInv /\ SafeInv /\ [Next]_vars => SafeInv'
  BY SafeStep
<1>4. QED
  BY <1>1, <1>2, <1>3, Invariance, PTL DEF Spec
=============================================================================
