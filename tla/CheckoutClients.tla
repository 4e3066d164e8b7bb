--------------------------- MODULE CheckoutClients ---------------------------
(***************************************************************************)
(* Who pays through the protected checkout resource: HABA's order route,   *)
(* with its x402 client; the scenarios of the x402 console; the scenarios  *)
(* of the WEA console; and the two pages that run those scenarios and show *)
(* what came of them.  The gateway and the WEA are modelled as far as a    *)
(* client can tell; PaymentOrders has their insides.                       *)
(***************************************************************************)
EXTENDS Naturals, FiniteSets, Sequences

CONSTANTS
    Calls,      \* bound: calls of any kind; a call builds at most one transaction
    Cart,       \* the idempotency key HABA's callers share
    NoCall,
    MaxOpen,    \* bound: calls under way at a time
    MaxFaults   \* bound: answers that are errors, or are lost

ASSUME ClientsAssumption ==
    /\ Cart \notin Calls
    /\ NoCall \notin Calls \cup {Cart}
    /\ {MaxOpen, MaxFaults} \subseteq Nat

VARIABLES
    orders,     \* status of the order of each idempotency key
    receipts,   \* the transaction each order was confirmed with
    late,       \* the orders whose expires_at has passed
    proofs,     \* payment_proofs, by transaction
    executed,   \* transactions the cluster executed
    loose,      \* transactions that may still be executed
    calls,      \* the calls
    pages,      \* the two consoles
    faults

gatewayVars == <<orders, receipts, late, proofs>>
weaVars == <<executed, loose>>
vars == <<gatewayVars, weaVars, calls, pages, faults>>

Attacks == {"replay", "expired", "tamper-resource", "tamper-network", "malformed"}
Scenarios == [x402 |-> {"normal"} \cup Attacks, wea |-> {"trigger-payment", "direct-verify"}]
Kinds == {"haba", "normal", "trigger-payment", "direct-verify"} \cup Attacks
Pays == {"haba", "normal", "trigger-payment"}

(* The key a route makes for itself, and the id of the order it gets. *)
Keys == (Calls \cup {Cart}) \X {"key", "id"}
NoKey == <<NoCall, "key">>

(* What the gateway answers, with the status a client looks at. *)
Status == [none |-> 0, paid |-> 200, X_PAYMENT_INVALID |-> 402, REQUIREMENTS_MISMATCH |-> 402,
           ORDER_ALREADY_CONSUMED |-> 409, EXPIRED |-> 410, REPLAY |-> 409,
           PROOF_INVALID |-> 402, VERIFY_FAILED |-> 402, unsettled |-> 502, conflict |-> 409,
           unchallenged |-> 500, unbuilt |-> 503, invalid |-> 200, unauthorized |-> 401,
           bad_request |-> 400, lost |-> 500]
Replies == DOMAIN Status

(* An X-PAYMENT header: whose transaction, for which nonce, and whether    *)
(* it still decodes and names the resource and the network asked for.      *)
Headers == [tx : Calls \cup {NoCall}, nonce : Keys \cup {NoKey},
            form : BOOLEAN, resource : BOOLEAN, network : BOOLEAN]
NoHeader == [tx |-> NoCall, nonce |-> NoKey, form |-> FALSE, resource |-> FALSE, network |-> FALSE]

(* Where a call is, what it was answered, and whether the fetch of the     *)
(* client that made it has thrown meanwhile.                               *)
Idle == [kind |-> "haba", key |-> NoKey, header |-> NoHeader, at |-> "none", reply |-> "none",
         gone |-> FALSE]
NoResult == [shown |-> FALSE, ok |-> FALSE, steps |-> FALSE]
NewPage == [running |-> FALSE, call |-> NoCall, result |-> NoResult,
            header |-> NoHeader, idem |-> NoKey]

ClientsInit ==
    /\ orders = [k \in Keys |-> "absent"]
    /\ receipts = [k \in Keys |-> NoCall]
    /\ late = {}
    /\ proofs = [c \in Calls |-> "none"]
    /\ executed = {}
    /\ loose = {}
    /\ calls = [c \in Calls |-> Idle]
    /\ pages = [p \in DOMAIN Scenarios |-> NewPage]
    /\ faults = 0

Fault == faults < MaxFaults /\ faults' = faults + 1

(* The call goes on to where at, or ends with a reply. *)
Goto(c, at) == calls' = [calls EXCEPT ![c].at = at]
Reply(c, r) == calls' = [calls EXCEPT ![c].at = "answered", ![c].reply = r]

------------------------------------------------------------------------------
(* Calls begin.                                                            *)

Unused ==
    IF Cardinality({c \in Calls : calls[c].at \notin {"none", "answered", "done"}}) < MaxOpen
    THEN {c \in Calls : calls[c].at = "none"} ELSE {}

(* Where a route begins: with a challenge, with a header it already has,   *)
(* or at the WEA.                                                          *)
Begins(s) ==
    CASE s \in {"replay", "malformed"} -> "ready"
      [] s = "direct-verify" -> "verifying"
      [] OTHER -> "asking"

(* POST /api/checkout/order: the key is the caller's or a fresh one; a     *)
(* cart with no valid line is refused before anything is asked.            *)
PlaceOrder ==
    /\ Unused # {}
    /\ LET c == CHOOSE u \in Unused : TRUE
           Placed(k) == [Idle EXCEPT !.key = k, !.at = "asking"]
       IN  calls' \in {[calls EXCEPT ![c] = Placed(<<Cart, "key">>)],
                       [calls EXCEPT ![c] = Placed(<<c, "key">>)],
                       [calls EXCEPT ![c] = [Idle EXCEPT !.at = "answered",
                                                         !.reply = "bad_request"]]}
    /\ UNCHANGED <<gatewayVars, weaVars, pages, faults>>

(* The panel of a result that has no steps throws, and the page with it. *)
Down(p) == pages[p].result.shown /\ ~pages[p].result.steps

(* All buttons of a page are disabled while one of its scenarios runs. *)
Disabled(p) == pages[p].running

(* The x402 console's button for the replay also waits for a header. *)
CanRun(p, s) ==
    /\ ~Disabled(p)
    /\ ~Down(p)
    /\ s = "replay" => pages[p].header # NoHeader

(* A click on a scenario's button; the replay takes the header and the     *)
(* order id the page remembers.                                            *)
RunScenario(p, s) ==
    /\ s \in Scenarios[p]
    /\ CanRun(p, s)
    /\ Unused # {}
    /\ LET c == CHOOSE u \in Unused : TRUE
       IN  /\ calls' = [calls EXCEPT ![c] =
                  [Idle EXCEPT !.kind = s, !.at = Begins(s),
                               !.key = IF s = "replay" THEN pages[p].idem ELSE <<c, "key">>,
                               !.header = IF s = "replay" THEN pages[p].header ELSE NoHeader]]
           /\ pages' = [pages EXCEPT ![p].running = TRUE, ![p].call = c,
                                     ![p].result = NoResult]
    /\ UNCHANGED <<gatewayVars, weaVars, faults>>

------------------------------------------------------------------------------
(* The loop every client walks: challenge, build, retry.                   *)

(* The gateway makes or fetches the order of the key. *)
Opened(k) == [orders EXCEPT ![k] = IF @ = "absent" THEN "created" ELSE @]

(* Step 1: anything but a 402 ends the call, although the order may exist. *)
Ask(c) ==
    /\ calls[c].at = "asking"
    /\ \/ /\ orders' = Opened(calls[c].key)
          /\ Goto(c, "building")
          /\ UNCHANGED faults
       \/ /\ orders' \in {orders, Opened(calls[c].key)}
          /\ \E r \in {"unchallenged", "lost"} : Reply(c, r)
          /\ Fault
    /\ UNCHANGED <<receipts, late, proofs, weaVars, pages>>

(* What the route does to the header it was built. *)
Tamper(s, h) ==
    CASE s = "tamper-resource" -> [h EXCEPT !.resource = FALSE]
      [] s = "tamper-network"  -> [h EXCEPT !.network = FALSE]
      [] OTHER -> h

(* Step 2: the demo wallet signs a new transaction with the order's nonce. *)
Build(c) ==
    LET built == [tx |-> c, nonce |-> calls[c].key,
                  form |-> TRUE, resource |-> TRUE, network |-> TRUE]
    IN  /\ calls[c].at = "building"
        /\ \/ /\ calls' = [calls EXCEPT
                     ![c].header = Tamper(calls[c].kind, built),
                     ![c].at = IF calls[c].kind = "expired" THEN "sleeping" ELSE "ready"]
              /\ UNCHANGED faults
           \/ (\E r \in {"unbuilt", "lost"} : Reply(c, r)) /\ Fault
        /\ UNCHANGED <<gatewayVars, weaVars, pages>>

(* An order of two seconds has expired when the sleep of three ends. *)
Sleep(c) ==
    /\ calls[c].at = "sleeping"
    /\ Goto(c, "ready")
    /\ late' = late \cup {calls[c].key}
    /\ UNCHANGED <<orders, receipts, proofs, weaVars, pages, faults>>

(* expires_at of an order passes. *)
Deadline(k) ==
    /\ orders[k] = "created"
    /\ k \notin late
    /\ late' = late \cup {k}
    /\ UNCHANGED <<orders, receipts, proofs, weaVars, calls, pages, faults>>

(* assert_payload_matches_requirements *)
Matches(h) == h.resource /\ h.network

(* Fault: an order that is already paid is not refused. *)
VerdictReused(k, h) ==
    IF ~h.form THEN "X_PAYMENT_INVALID"
    ELSE IF ~Matches(h) THEN "REQUIREMENTS_MISMATCH"
    ELSE IF k \in late THEN "EXPIRED"
    ELSE IF proofs[h.tx] # "none" THEN "REPLAY"
    ELSE IF h.nonce # k THEN "PROOF_INVALID" ELSE "paid"

(* Fault: only the resource of a header is compared. *)
VerdictAnyNetwork(k, h) ==
    IF ~h.form THEN "X_PAYMENT_INVALID"
    ELSE IF ~h.resource THEN "REQUIREMENTS_MISMATCH"
    ELSE IF Opened(k)[k] # "created" THEN "ORDER_ALREADY_CONSUMED"
    ELSE IF k \in late THEN "EXPIRED"
    ELSE IF proofs[h.tx] # "none" THEN "REPLAY"
    ELSE IF h.nonce # k THEN "PROOF_INVALID" ELSE "paid"

(* The checks of the protected resource, in their order. *)
Verdict(k, h) ==
    IF ~h.form THEN "X_PAYMENT_INVALID"
    ELSE IF ~Matches(h) THEN "REQUIREMENTS_MISMATCH"
    ELSE IF Opened(k)[k] # "created" THEN "ORDER_ALREADY_CONSUMED"
    ELSE IF k \in late THEN "EXPIRED"
    ELSE IF proofs[h.tx] # "none" THEN "REPLAY"
    ELSE IF h.nonce # k THEN "PROOF_INVALID" ELSE "paid"

(* Fault: the gateway goes on without the proof's row. *)
SubmitUnrecorded(c) ==
    LET k == calls[c].key
        v == Verdict(k, calls[c].header)
    IN  /\ calls[c].at = "ready"
        /\ orders' = [Opened(k) EXCEPT ![k] = IF v = "EXPIRED" THEN "expired" ELSE @]
        /\ IF v = "paid" THEN Goto(c, "verifying") ELSE Reply(c, v)
        /\ UNCHANGED <<proofs, receipts, late, weaVars, pages, faults>>

(* Step 3, up to the proof's row in the database. *)
Submit(c) ==
    LET k == calls[c].key
        h == calls[c].header
        v == Verdict(k, h)
    IN  /\ calls[c].at = "ready"
        /\ orders' = [Opened(k) EXCEPT ![k] = IF v = "EXPIRED" THEN "expired" ELSE @]
        /\ proofs' = CASE v = "paid" -> [proofs EXCEPT ![h.tx] = "verified"]
                       [] v = "PROOF_INVALID" -> [proofs EXCEPT ![h.tx] = "rejected"]
                       [] OTHER -> proofs
        /\ IF v = "paid" THEN Goto(c, "verifying") ELSE Reply(c, v)
        /\ UNCHANGED <<receipts, late, weaVars, pages, faults>>

(* The request with the header never reaches the gateway. *)
SubmitLost(c) ==
    /\ calls[c].at = "ready"
    /\ Reply(c, "lost")
    /\ Fault
    /\ UNCHANGED <<gatewayVars, weaVars, pages>>

(* The connection of the last request breaks under its client, and the     *)
(* gateway goes on without it.                                             *)
LoseAnswer(c) ==
    /\ calls[c].at \in {"ready", "verifying", "settling", "settled", "answered"}
    /\ ~calls[c].gone
    /\ calls' = [calls EXCEPT ![c].gone = TRUE]
    /\ Fault
    /\ UNCHANGED <<gatewayVars, weaVars, pages>>

------------------------------------------------------------------------------
(* The WEA, the cluster, and the end of the request.                       *)

(* Only the gateway sends X-Internal-Auth; the route of direct-verify does *)
(* not, and the middleware of /facilitator/* answers it.                   *)
Authorized(c) == calls[c].kind # "direct-verify"

(* A good payload is valid unless the WEA or the gateway behind it fails.  *)
Verify(c) ==
    /\ calls[c].at = "verifying"
    /\ \/ ~Authorized(c) /\ Reply(c, "unauthorized") /\ UNCHANGED faults
       \/ Authorized(c) /\ Goto(c, "settling") /\ UNCHANGED faults
       \/ /\ Authorized(c)
          /\ \E r \in {"VERIFY_FAILED", "unsettled"} : Reply(c, r)
          /\ Fault
    /\ UNCHANGED <<gatewayVars, weaVars, pages>>

(* Executed and reported; or refused, given up on or not heard of, with    *)
(* the transaction out or not.                                             *)
Settle(c) ==
    /\ calls[c].at = "settling"
    /\ \/ /\ executed' = executed \cup {calls[c].header.tx}
          /\ Goto(c, "settled")
          /\ UNCHANGED <<loose, faults>>
       \/ /\ loose' \in {loose, loose \cup {calls[c].header.tx}}
          /\ Reply(c, "unsettled") /\ Fault
          /\ UNCHANGED executed
    /\ UNCHANGED <<gatewayVars, pages>>

Land(tx) ==
    /\ tx \in loose
    /\ loose' = loose \ {tx}
    /\ executed' = executed \cup {tx}
    /\ UNCHANGED <<gatewayVars, calls, pages, faults>>

(* Fault: the order is confirmed whatever its status has become. *)
FinishBlind(c) ==
    LET k == calls[c].key
    IN  /\ calls[c].at = "settled"
        /\ orders' = [orders EXCEPT ![k] = "confirmed"]
        /\ receipts' = [receipts EXCEPT ![k] = calls[c].header.tx]
        /\ Reply(c, "paid")
        /\ UNCHANGED <<late, proofs, weaVars, pages, faults>>

(* created -> pending -> broadcasting -> confirmed in one transaction. *)
Finish(c) ==
    LET k == calls[c].key
    IN  /\ calls[c].at = "settled"
        /\ IF orders[k] = "created"
           THEN /\ orders' = [orders EXCEPT ![k] = "confirmed"]
                /\ receipts' = [receipts EXCEPT ![k] = calls[c].header.tx]
                /\ Reply(c, "paid")
           ELSE Reply(c, "conflict") /\ UNCHANGED <<orders, receipts>>
        /\ UNCHANGED <<late, proofs, weaVars, pages, faults>>

------------------------------------------------------------------------------
(* The answers reach the clients.                                          *)

(* Fault: everything but a 5xx counts as paid. *)
NormalOkUnless5xx(r) == Status[r] < 500

(* The routes' idea of success, on the status alone but for expired. *)
NormalOk(r) == Status[r] = 200

ReplayOk(r) == Status[r] = 409

ExpiredOk(r) == Status[r] = 410 /\ r = "EXPIRED"

TamperResourceOk(r) == Status[r] = 402

(* Fault: any refusal will do. *)
TamperNetworkOkUnlessPaid(r) == Status[r] >= 400

TamperNetworkOk(r) == Status[r] = 402

MalformedOk(r) == Status[r] = 402

TriggerPaymentOk(r) == Status[r] = 200

DirectVerifyOk(r) == Status[r] = 200 /\ r = "invalid"

(* x402Fetch returns only on a 200; the route answers its errors with 502. *)
HabaOk(r) == Status[r] = 200

(* What the client of a call hears of it. *)
Heard(c) == IF calls[c].gone THEN "lost" ELSE calls[c].reply

Ok(c) ==
    LET r == Heard(c)
    IN  CASE calls[c].kind = "haba" -> HabaOk(r)
          [] calls[c].kind = "normal" -> NormalOk(r)
          [] calls[c].kind = "replay" -> ReplayOk(r)
          [] calls[c].kind = "expired" -> ExpiredOk(r)
          [] calls[c].kind = "tamper-resource" -> TamperResourceOk(r)
          [] calls[c].kind = "tamper-network" -> TamperNetworkOk(r)
          [] calls[c].kind = "malformed" -> MalformedOk(r)
          [] calls[c].kind = "trigger-payment" -> TriggerPaymentOk(r)
          [] calls[c].kind = "direct-verify" -> DirectVerifyOk(r)

(* A route that gives up early may answer without the list of its steps;   *)
(* when it throws, the page supplies an empty one.                         *)
HasSteps(c) ==
    Heard(c) \in {"unchallenged", "unbuilt"} =>
        calls[c].kind \in {"normal", "expired"}

(* What x402Fetch throws; a fetch that throws itself carries no code of    *)
(* X402ProtocolError.                                                      *)
HabaError(r) ==
    CASE r = "lost" -> "no code"
      [] r = "unchallenged" -> "BAD_RESPONSE"
      [] r = "unbuilt" -> "BUILD_FAILED"
      [] Status[r] >= 500 /\ r \notin {"unchallenged", "lost", "unbuilt"} -> "GATEWAY_ERROR"
      [] OTHER -> "RETRY_REJECTED"

Delivered(c) == [calls EXCEPT ![c].at = IF @ = "answered" THEN "done" ELSE @]

(* HABA's answer is final: nobody here retries. *)
OrderAnswered(c) ==
    /\ calls[c].kind = "haba"
    /\ calls[c].at = "answered"
    /\ calls' = Delivered(c)
    /\ UNCHANGED <<gatewayVars, weaVars, pages, faults>>

(* The rest of runScenario.  A normal payment that worked leaves its       *)
(* header and its order id for the replay.                                 *)
ScenarioAnswered(p) ==
    LET c == pages[p].call
        Shown == [pages[p] EXCEPT !.running = FALSE,
                                  !.result = [shown |-> TRUE, ok |-> Ok(c), steps |-> HasSteps(c)]]
    IN  /\ pages[p].running
        /\ calls[c].at = "answered" \/ calls[c].gone
        /\ calls' = Delivered(c)
        /\ pages' = [pages EXCEPT ![p] =
               IF calls[c].kind = "normal" /\ Ok(c)
               THEN [Shown EXCEPT !.header = calls[c].header, !.idem = <<calls[c].key[1], "id">>]
               ELSE Shown]
        /\ UNCHANGED <<gatewayVars, weaVars, faults>>

(* The connection breaks: the page's catch shows an error, and the call    *)
(* goes on with nobody to answer to.                                       *)
ConnectionLost(p) ==
    /\ pages[p].running
    /\ pages' = [pages EXCEPT ![p].running = FALSE, ![p].call = NoCall,
                              ![p].result = [shown |-> TRUE, ok |-> FALSE, steps |-> TRUE]]
    /\ Fault
    /\ UNCHANGED <<gatewayVars, weaVars, calls>>

Reload(p) ==
    /\ Down(p)
    /\ pages' = [pages EXCEPT ![p] = NewPage]
    /\ UNCHANGED <<gatewayVars, weaVars, calls, faults>>

------------------------------------------------------------------------------
Page(p) ==
    \/ \E s \in Scenarios[p] : RunScenario(p, s)
    \/ ScenarioAnswered(p) \/ ConnectionLost(p) \/ Reload(p)

Client(c) == Ask(c) \/ Build(c) \/ Sleep(c) \/ Submit(c) \/ SubmitLost(c)
Services(c) == Verify(c) \/ Settle(c) \/ Finish(c)

ClientsNext ==
    \/ PlaceOrder
    \/ \E p \in DOMAIN Scenarios : Page(p)
    \/ \E c \in Calls : Client(c) \/ Services(c) \/ LoseAnswer(c) \/ OrderAnswered(c) \/ Land(c)
    \/ \E k \in Keys : Deadline(k)

(* Routes run, and the services answer or are given up on; nobody has to   *)
(* start anything, and the cluster owes a loose transaction nothing.       *)
ClientsFairness ==
    /\ \A c \in Calls : WF_vars(Client(c)) /\ WF_vars(Services(c))
    /\ \A p \in DOMAIN Scenarios : WF_vars(ScenarioAnswered(p))

ClientsSpec == ClientsInit /\ [][ClientsNext]_vars /\ ClientsFairness

------------------------------------------------------------------------------
ClientsTypeOK ==
    /\ orders \in [Keys -> {"absent", "created", "expired", "confirmed"}]
    /\ receipts \in [Keys -> Calls \cup {NoCall}]
    /\ late \subseteq Keys
    /\ proofs \in [Calls -> {"none", "verified", "rejected"}]
    /\ executed \subseteq Calls /\ loose \subseteq Calls
    /\ \A c \in Calls :
        /\ calls[c].kind \in Kinds
        /\ calls[c].at \notin {"none", "answered", "done"} => calls[c].key \in Keys
        /\ calls[c].header \in Headers /\ calls[c].reply \in Replies /\ calls[c].gone \in BOOLEAN
        /\ calls[c].at \in {"none", "asking", "building", "sleeping", "ready", "verifying",
                            "settling", "settled", "answered", "done"}
    /\ faults \in 0..MaxFaults

(* The client of a call has its answer, or will have none. *)
Ended(c) == calls[c].at \in {"answered", "done"} \/ calls[c].gone

(* A call that reports success has paid for its order, the order kept that *)
(* transaction, and no other call of the key reports success: one receipt  *)
(* for one order, whoever shares the key.                                  *)
SuccessIsPaid ==
    \A c \in Calls :
        Ended(c) /\ calls[c].kind \in Pays /\ Ok(c) =>
            /\ orders[calls[c].key] = "confirmed"
            /\ receipts[calls[c].key] = c
            /\ c \in executed

(* Money moves only in runs that are meant to pay.  A client that hears    *)
(* any refusal by a check of the gateway has not been charged: with money  *)
(* out it hears that it paid, that settling failed or came too late, or    *)
(* nothing at all; and HABA's error then says neither that there was no    *)
(* challenge nor that the payload could not be built.                      *)
ChargedOnlyBy ==
    \A c \in executed \cup loose :
        /\ calls[c].kind \in Pays
        /\ Ended(c) => Heard(c) \in {"paid", "conflict", "unsettled", "lost"}
        /\ Ended(c) /\ ~Ok(c) =>
              HabaError(Heard(c)) \in {"GATEWAY_ERROR", "RETRY_REJECTED", "no code"}

(* What each scenario says a green result shows. *)
Expected(s) ==
    CASE s = "replay" -> {"REPLAY", "ORDER_ALREADY_CONSUMED"}
      [] s = "expired" -> {"EXPIRED"}
      [] s \in {"tamper-resource", "tamper-network"} -> {"REQUIREMENTS_MISMATCH"}
      [] s = "malformed" -> {"X_PAYMENT_INVALID"}
      [] s = "direct-verify" -> {"invalid"}
      [] OTHER -> {"paid"}

(* What the panel of a result says. *)
ResultPill(p) ==
    CASE ~pages[p].result.shown -> "none"
      [] pages[p].result.shown /\ pages[p].result.ok -> "Success"
      [] OTHER -> "Failed"

(* A green result on a console is the refusal, or the payment, the         *)
(* scenario is about, although the routes look at the status alone; that   *)
(* of direct-verify, which no handler ever sees, is never green.           *)
GreenMeansExpected ==
    \A p \in DOMAIN Scenarios :
        ResultPill(p) = "Success" =>
            /\ Heard(pages[p].call) \in Expected(calls[pages[p].call].kind)
            /\ calls[pages[p].call].kind # "direct-verify"

(* The card of an order on the x402 console: its colour and its timeline.  *)
Tone(k) ==
    CASE orders[k] = "confirmed" -> "emerald"
      [] orders[k] = "expired" -> "rose"
      [] OTHER -> "amber"

Proofs(k, v) == {c \in Calls : proofs[c] = v /\ calls[c].key = k}

Timeline(k) ==
    {"challenge issued"}
    \cup (IF Proofs(k, "verified") # {} THEN {"proof verified"} ELSE {})
    \cup (IF Proofs(k, "rejected") # {} THEN {"proof rejected"} ELSE {})
    \cup (IF receipts[k] # NoCall THEN {"settled"} ELSE {})
    \cup (IF Proofs(k, "verified") \cup Proofs(k, "rejected") = {} THEN {"waiting"} ELSE {})

(* The cards show where the money is: one that shows a settlement shows    *)
(* the proof it rests on, no wait, and the colour of a confirmed order;    *)
(* and the order a transaction was sent or executed for shows a verified   *)
(* proof, whatever its client was told and whatever became of the order.   *)
CardsShowTheMoney ==
    /\ \A k \in Keys : "settled" \in Timeline(k) =>
          /\ "proof verified" \in Timeline(k)
          /\ "waiting" \notin Timeline(k)
          /\ Tone(k) = "emerald"
    /\ \A c \in executed \cup loose : "proof verified" \in Timeline(calls[c].key)

(* A confirmed order with no call past its checks and no transaction of it *)
(* still out is never charged again.                                       *)
NoChargeAfterSettled ==
    [][\A k \in Keys :
          /\ orders[k] = "confirmed"
          /\ \A c \in Calls : calls[c].key = k =>
                c \notin loose /\ calls[c].at \notin {"verifying", "settling"}
          => \A c \in Calls : calls[c].key = k =>
                /\ c \in executed' => c \in executed
                /\ calls'[c].at \notin {"verifying", "settling"}]_vars

(* The gateway its clients see keeps the promises of PaymentLifecycle.     *)
(* A transaction is named by its call and the order it carries.            *)
Tx(c) == <<c, calls[c].key>>
NoTx == <<NoCall, NoKey>>

Stage(k) ==
    CASE orders[k] = "absent" -> "absent"
      [] orders[k] = "confirmed" -> "settled"
      [] orders[k] = "expired" -> "closed"
      [] orders[k] = "created" ->
            IF \E c \in Calls : proofs[c] = "verified" /\ calls[c].key = k
            THEN "taken" ELSE "open"

Lifecycle == INSTANCE PaymentLifecycle WITH
    Orders <- Keys,
    TopUps <- {},
    Txs <- Calls \X Keys,
    PaysFor <- [tx \in Calls \X Keys |-> tx[2]],
    stage <- [k \in Keys |-> Stage(k)],
    receipt <- [k \in Keys |-> IF receipts[k] = NoCall THEN NoTx ELSE Tx(receipts[k])],
    landed <- {Tx(c) : c \in executed},
    credit <- [k \in Keys |-> 0]

ImplementsLifecycle == Lifecycle!LifecycleSpec
==============================================================================
