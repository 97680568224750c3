------------------------------- MODULE Billing -------------------------------
(***************************************************************************)
(* Checkout and payment confirmation: app/services/billing_service.py, the *)
(* plan change of app/services/subscription_service.py, and the payment    *)
(* gateway (Toss Payments, external) they talk to.                         *)
(*                                                                         *)
(* A confirm request is one database transaction:                          *)
(*                                                                         *)
(*   idle -> payment -> subscription -> toss -> commit -> idle             *)
(*                                                                         *)
(* "payment" and "subscription" wait for the row lock of that name         *)
(* (SELECT ... FOR UPDATE), "toss" waits for the gateway, "commit" has its *)
(* 200 answer and writes.  A row lock is held from the step that takes it  *)
(* to the end of the transaction, so who holds it is read off pc.  Every   *)
(* exit but Commit rolls back: it frees the locks and writes nothing.      *)
(*                                                                         *)
(* Users are live, verified accounts (require_email_verified ran).  Plan   *)
(* rows never change: no code writes them.                                 *)
(***************************************************************************)
EXTENDS Integers, Sequences

CONSTANTS
    Users, Orders, Requests,   \* accounts, payment_requests rows, HTTP calls
    Plans,                     \* plan codes
    FreePlan,                  \* FREE_PLAN_CODE
    ActivePlans,               \* plans with is_active
    Price,                     \* Price[p]: price_monthly
    NoPlan,                    \* a user without an ACTIVE subscription row
    None,                      \* column value of a row not inserted yet
    RepeatAnswers,             \* answers the gateway may give when the order
                               \* it is asked to confirm is already captured
    Faults                     \* which of {"timeout", "commit", "crash"} occur

ASSUME BillingAssumption ==
    /\ FreePlan \in Plans
    /\ ActivePlans \subseteq Plans
    /\ Price \in [Plans -> Nat]
    /\ NoPlan \notin Plans
    /\ None \notin Users \cup Plans \cup Orders
    /\ RepeatAnswers \subseteq {"ok", "refused"}
    /\ Faults \subseteq {"timeout", "commit", "crash"}

VARIABLES
    payment,       \* payment[o]: the payment_requests row with orderId o
    events,        \* events[o]: event_type of the billing_events rows of o
    subscription,  \* subscription[u]: plan of the ACTIVE subscription of u
    granted,       \* plans a user got from the development upgrade endpoint
    pc,            \* pc[r]: where confirm request r is
    req,           \* req[r]: caller and payload of confirm request r
    call,          \* call[r]: the HTTP exchange of r with the gateway
    captured       \* captured[o]: amount the gateway took for o, 0 if none

vars == <<payment, events, subscription, granted, pc, req, call, captured>>
database == <<payment, events, subscription>>

Amounts == {Price[p] : p \in Plans} \ {0}

NoPayment == [status |-> "absent", user |-> None, plan |-> None, amount |-> 0]
PaymentRow == [status : {"requested", "approved"}, user : Users,
               plan : Plans, amount : Nat \ {0}]
NoCall == [user |-> None, order |-> None, amount |-> 0]
ConfirmCall == [user : Users, order : Orders, amount : Nat]
PC == {"idle", "payment", "subscription", "toss", "commit"}

TypeOK ==
    /\ payment \in [Orders -> PaymentRow \cup {NoPayment}]
    /\ events \in [Orders -> Seq({"checkout_requested", "payment_confirmed"})]
    /\ subscription \in [Users -> Plans \cup {NoPlan}]
    /\ granted \in [Users -> SUBSET Plans]
    /\ pc \in [Requests -> PC]
    /\ req \in [Requests -> ConfirmCall \cup {NoCall}]
    /\ call \in [Requests -> {"none", "sent", "ok", "refused"}]
    /\ \A r \in Requests :
          req[r] = NoCall => pc[r] = "idle" /\ call[r] = "none"
    /\ captured \in [Orders -> Nat]

Init ==
    /\ payment = [o \in Orders |-> NoPayment]
    /\ events = [o \in Orders |-> <<>>]
    /\ subscription \in [Users -> {FreePlan, NoPlan}]
    /\ granted = [u \in Users |-> {}]
    /\ pc = [r \in Requests |-> "idle"]
    /\ req = [r \in Requests |-> NoCall]
    /\ call = [r \in Requests |-> "none"]
    /\ captured = [o \in Orders |-> 0]

-----------------------------------------------------------------------------
(* Row locks: a transaction past a lock's step holds the row. *)

HoldsPayment(r, o) ==
    pc[r] \in {"subscription", "toss", "commit"} /\ req[r].order = o
HoldsSubscription(r, u) ==
    pc[r] \in {"toss", "commit"} /\ req[r].user = u

(* Mutant: a SELECT that lost its FOR UPDATE. *)
Unlocked(row) == TRUE

PaymentFree(o) == \A r \in Requests : ~HoldsPayment(r, o)
SubscriptionFree(u) == \A r \in Requests : ~HoldsSubscription(r, u)

(* Mutant: no FREE plan check. *)
PurchasableFree(p) == p \in ActivePlans

Purchasable(p) == p \in ActivePlans /\ p # FreePlan /\ Price[p] > 0

-----------------------------------------------------------------------------
(* create_checkout: one transaction that inserts the payment request, its  *)
(* order id and a billing event, or nothing.                               *)
Checkout(u, p, o) ==
    /\ Purchasable(p)
    /\ payment[o].status = "absent"
    /\ payment' = [payment EXCEPT ![o] =
                     [status |-> "requested", user |-> u, plan |-> p, amount |-> Price[p]]]
    /\ events' = [events EXCEPT ![o] = Append(@, "checkout_requested")]
    /\ UNCHANGED <<subscription, granted, pc, req, call, captured>>

(* POST /billing/confirm arrives with an order id and an amount the client *)
(* chose, and asks for the payment row lock.  A request identity is used   *)
(* again only once nothing of its former exchange is left on the wire.     *)
BeginConfirm(r, u, o, amount) ==
    /\ pc[r] = "idle" /\ call[r] = "none"
    /\ req' = [req EXCEPT ![r] = [user |-> u, order |-> o, amount |-> amount]]
    /\ pc' = [pc EXCEPT ![r] = "payment"]
    /\ UNCHANGED <<database, granted, call, captured>>

(* Mutants: confirm_payment without one of its checks. *)
ConfirmableAgain(r) ==
    LET row == payment[req[r].order] IN
        row.status # "absent" /\ row.user = req[r].user /\ row.amount = req[r].amount
ConfirmableAnyAmount(r) ==
    LET row == payment[req[r].order] IN
        row.status = "requested" /\ row.user = req[r].user

(* What confirm_payment requires of the locked payment row. *)
Confirmable(r) ==
    LET row == payment[req[r].order] IN
        /\ row.status # "absent"
        /\ row.user = req[r].user
        /\ row.status # "approved"
        /\ row.amount = req[r].amount

LockPayment(r) ==
    /\ pc[r] = "payment"
    /\ PaymentFree(req[r].order)
    /\ Confirmable(r)
    /\ pc' = [pc EXCEPT ![r] = "subscription"]
    /\ UNCHANGED <<database, granted, req, call, captured>>

RejectPayment(r) ==
    /\ pc[r] = "payment"
    /\ PaymentFree(req[r].order)
    /\ ~Confirmable(r)
    /\ pc' = [pc EXCEPT ![r] = "idle"]
    /\ UNCHANGED <<database, granted, req, call, captured>>

HasSubscription(u) == subscription[u] # NoPlan

(* The subscription row is locked and found, and the gateway is called. *)
LockSubscription(r) ==
    /\ pc[r] = "subscription"
    /\ SubscriptionFree(req[r].user)
    /\ HasSubscription(req[r].user)
    /\ pc' = [pc EXCEPT ![r] = "toss"]
    /\ call' = [call EXCEPT ![r] = "sent"]
    /\ UNCHANGED <<database, granted, req, captured>>

(* SUBSCRIPTION_NOT_FOUND, before the gateway hears of the payment. *)
RejectSubscription(r) ==
    /\ pc[r] = "subscription"
    /\ SubscriptionFree(req[r].user)
    /\ ~HasSubscription(req[r].user)
    /\ pc' = [pc EXCEPT ![r] = "idle"]
    /\ UNCHANGED <<database, granted, req, call, captured>>

Approval(r) ==
    /\ pc[r] = "toss" /\ call[r] = "ok"
    /\ pc' = [pc EXCEPT ![r] = "commit"]
    /\ call' = [call EXCEPT ![r] = "none"]
    /\ UNCHANGED <<database, granted, req, captured>>

(* Any other status: PAYMENT_CONFIRM_FAILED, nothing is written. *)
Refusal(r) ==
    /\ pc[r] = "toss" /\ call[r] = "refused"
    /\ pc' = [pc EXCEPT ![r] = "idle"]
    /\ call' = [call EXCEPT ![r] = "none"]
    /\ UNCHANGED <<database, granted, req, captured>>

(* Mutant: no timeout on the gateway call. *)
NoTimeout(r) == FALSE

(* httpx.RequestError: the 30 s timeout or a broken connection.  What was  *)
(* sent may still reach the gateway.                                       *)
GatewayTimeout(r) ==
    /\ "timeout" \in Faults
    /\ pc[r] = "toss"
    /\ pc' = [pc EXCEPT ![r] = "idle"]
    /\ UNCHANGED <<database, granted, req, call, captured>>

(* Mutant: the payment request is not saved with the rest. *)
CommitUnapproved(r) ==
    /\ pc[r] = "commit"
    /\ subscription' = [subscription EXCEPT ![req[r].user] = payment[req[r].order].plan]
    /\ events' = [events EXCEPT ![req[r].order] = Append(@, "payment_confirmed")]
    /\ pc' = [pc EXCEPT ![r] = "idle"]
    /\ UNCHANGED <<payment, granted, req, call, captured>>

(* PaymentRequestRepository.confirm, change_plan and the payment_confirmed *)
(* event, committed together.                                              *)
Commit(r) ==
    LET o == req[r].order IN
        /\ pc[r] = "commit"
        /\ payment' = [payment EXCEPT ![o].status = "approved"]
        /\ subscription' = [subscription EXCEPT ![req[r].user] = payment[o].plan]
        /\ events' = [events EXCEPT ![o] = Append(@, "payment_confirmed")]
        /\ pc' = [pc EXCEPT ![r] = "idle"]
        /\ UNCHANGED <<granted, req, call, captured>>

(* A flush or the commit raises: rollback, and the error is re-raised. *)
CommitFails(r) ==
    /\ "commit" \in Faults
    /\ pc[r] = "commit"
    /\ pc' = [pc EXCEPT ![r] = "idle"]
    /\ UNCHANGED <<database, granted, req, call, captured>>

(* The task serving r dies; PostgreSQL rolls its transaction back. *)
Crash(r) ==
    /\ "crash" \in Faults
    /\ pc[r] # "idle"
    /\ pc' = [pc EXCEPT ![r] = "idle"]
    /\ UNCHANGED <<database, granted, req, call, captured>>

(* upgrade_plan, behind POST /dev/subscriptions/upgrade: it takes only the *)
(* subscription row and accepts a strictly dearer active plan.             *)
UpgradePlan(u, p) ==
    /\ SubscriptionFree(u)
    /\ HasSubscription(u)
    /\ p \in ActivePlans
    /\ p # FreePlan
    /\ Price[p] > Price[subscription[u]]
    /\ subscription' = [subscription EXCEPT ![u] = p]
    /\ granted' = [granted EXCEPT ![u] = @ \cup {p}]
    /\ UNCHANGED <<payment, events, pc, req, call, captured>>

-----------------------------------------------------------------------------
(* The gateway, external.  It takes the money of an order at most once.    *)

TossCapture(r) ==
    LET o == req[r].order IN
        /\ call[r] = "sent" /\ captured[o] = 0
        /\ captured' = [captured EXCEPT ![o] = req[r].amount]
        /\ call' = [call EXCEPT ![r] = "ok"]
        /\ UNCHANGED <<database, granted, pc, req>>

TossDecline(r) ==
    /\ call[r] = "sent" /\ captured[req[r].order] = 0
    /\ call' = [call EXCEPT ![r] = "refused"]
    /\ UNCHANGED <<database, granted, pc, req, captured>>

TossRepeat(r, answer) ==
    /\ call[r] = "sent" /\ captured[req[r].order] # 0
    /\ call' = [call EXCEPT ![r] = answer]
    /\ UNCHANGED <<database, granted, pc, req, captured>>

(* A request or an answer that gets lost, or an answer nobody awaits. *)
LoseCall(r) ==
    /\ call[r] # "none"
    /\ pc[r] = "toss" => "timeout" \in Faults
    /\ call' = [call EXCEPT ![r] = "none"]
    /\ UNCHANGED <<database, granted, pc, req, captured>>

-----------------------------------------------------------------------------
(* The steps a request takes by itself, once nothing else holds it up. *)
Serve(r) ==
    \/ LockPayment(r) \/ RejectPayment(r)
    \/ LockSubscription(r) \/ RejectSubscription(r)
    \/ Approval(r) \/ Refusal(r) \/ GatewayTimeout(r)
    \/ Commit(r) \/ CommitFails(r)

Toss(r) ==
    \/ TossCapture(r) \/ TossDecline(r)
    \/ \E answer \in RepeatAnswers : TossRepeat(r, answer)

Next ==
    \/ \E u \in Users, p \in Plans :
          \/ \E o \in Orders : Checkout(u, p, o)
          \/ UpgradePlan(u, p)
    \/ \E r \in Requests :
          \/ \E u \in Users, o \in Orders, amount \in Amounts : BeginConfirm(r, u, o, amount)
          \/ Serve(r) \/ Crash(r) \/ Toss(r) \/ LoseCall(r)

Spec == Init /\ [][Next]_vars

(* PostgreSQL grants a row lock in arrival order, so a waiter that keeps   *)
(* finding its row free again gets it (SF); the event loop runs every      *)
(* ready handler, and the HTTP client raises once its 30 s are over (WF).  *)
Fairness ==
    \A r \in Requests :
        /\ WF_vars(Serve(r))
        /\ SF_vars(LockPayment(r) \/ RejectPayment(r))
        /\ SF_vars(LockSubscription(r) \/ RejectSubscription(r))

FairSpec == Spec /\ Fairness

-----------------------------------------------------------------------------
(* A plan is only ever paid for: an approved payment is one whose price    *)
(* the gateway took, an answer in hand is about money taken, and every     *)
(* charge is made in the amount of the order (the amount check before the  *)
(* gateway is called, and the lock that keeps the row as it was checked).  *)
ApprovedIsPaid ==
    \A o \in Orders :
        /\ payment[o].status = "approved" => captured[o] = Price[payment[o].plan]
        /\ captured[o] # 0 => captured[o] = payment[o].amount

(* The audit trail tells each order's story exactly once: no event without *)
(* its row, and one payment_confirmed per approval even when two confirms  *)
(* of one order overlap or a timed-out one is retried.                     *)
AuditTrail ==
    \A o \in Orders :
        events[o] = CASE payment[o].status = "absent" -> <<>>
                      [] payment[o].status = "requested" -> <<"checkout_requested">>
                      [] payment[o].status = "approved" ->
                            <<"checkout_requested", "payment_confirmed">>

(* Nobody is on a paid plan that neither an approved payment of theirs nor *)
(* the development upgrade gave them.                                      *)
PlanIsEarned ==
    \A u \in Users :
        \/ subscription[u] \in {FreePlan, NoPlan} \cup granted[u]
        \/ \E o \in Orders : /\ payment[o].status = "approved"
                             /\ payment[o].user = u
                             /\ payment[o].plan = subscription[u]

(* Transactions that are inside the rows they write exclude each other,    *)
(* although both locks are taken one after the other.                      *)
RowsExclusive ==
    \A r, s \in Requests : r # s =>
        /\ \A o \in Orders : ~(HoldsPayment(r, o) /\ HoldsPayment(s, o))
        /\ \A u \in Users : ~(HoldsSubscription(r, u) /\ HoldsSubscription(s, u))

(* The comment of billing_service.py:176-177: the subscription is checked  *)
(* before the gateway is called so that "paid but not upgraded" does not   *)
(* arise.  Money taken is money approved, or a request is about to.        *)
NoPaidButNotUpgraded ==
    \A o \in Orders : captured[o] # 0 =>
        \/ payment[o].status = "approved"
        \/ \E r \in Requests : HoldsPayment(r, o) /\ pc[r] \in {"toss", "commit"}

(* The subscription of a user is not written while a confirm has it        *)
(* locked, except by that confirm's own commit: what it read before the    *)
(* 30 s gateway call is still what it overwrites after it.                 *)
SubscriptionStable ==
    [][\A r \in Requests :
         LET u == req[r].user IN
           (HoldsSubscription(r, u) /\ pc'[r] # "idle")
              => subscription'[u] = subscription[u]]_vars

(* Doc 4.7 step 5 calls the effect of a confirm an upgrade. *)
NeverDowngraded ==
    [][\A u \in Users : (HasSubscription(u) /\ subscription'[u] # subscription[u])
         => Price[subscription'[u]] >= Price[subscription[u]]]_vars

(* Doc 4.7 step 3: a repeated confirm of an approved order is answered     *)
(* with the order as it stands, so nobody who may confirm an order is      *)
(* turned away because it already is.                                      *)
RepeatConfirmAnswered ==
    [][\A r \in Requests :
         LET row == payment[req[r].order] IN
           (pc[r] = "payment" /\ RejectPayment(r) /\ row.user = req[r].user)
              => row.amount # req[r].amount]_vars

(* Every confirm is answered: neither lock waits nor a silent gateway hold *)
(* a request for ever.                                                     *)
ConfirmAnswered == \A r \in Requests : (pc[r] # "idle") ~> (pc[r] = "idle")

-----------------------------------------------------------------------------
(* The abstract specification: see PaidPlans. *)
Ledger == [o \in Orders |->
             CASE payment[o].status = "approved" -> "settled"
               [] payment[o].status = "absent" -> "absent"
               [] OTHER -> IF captured[o] = 0 THEN "open" ELSE "paid"]
Buyer == [o \in Orders |-> payment[o].user]
Item == [o \in Orders |-> payment[o].plan]

Abstract == INSTANCE PaidPlans WITH
                    ledger <- Ledger, buyer <- Buyer,
                                    item <- Item, plan <- subscription
ImplementsPaidPlans == Abstract!Spec
=============================================================================
