------------------------------ MODULE HabaTopup ------------------------------
(***************************************************************************)
(* HABA's automatic top-up: the dashboard page, which polls the balance,   *)
(* fires a top-up when it sees it low and shows what came of it; the route *)
(* behind it, which buys an order, signs and submits a payment and credits *)
(* the ledger itself when a step fails; and the agent runs that use the    *)
(* tokens.  The gateway is the abstract PaymentLifecycle it implements;    *)
(* its confirmer and the route credit the same ledger.                     *)
(***************************************************************************)
EXTENDS PaymentLifecycle, Sequences, FiniteSets

CONSTANTS
    Tabs,          \* open dashboards
    NoBalance,     \* what a page shows before its first poll
    NoOrder,
    TokenLimit,    \* TOKEN_LIMIT, AUTO_TOPUP_THRESHOLD and TOPUP_TOKENS are
    TopupTokens,   \* kept in proportion: 10, 8/10 and 1
    Opening,       \* the balance before anything happens
    AgentCost,     \* what one agent run costs
    Ticks,         \* bound: polls of one page that are under way at a time
    MaxRuns,       \* bound: agent runs
    MaxFaults      \* bound: requests of a page that are lost

ASSUME HabaAssumption ==
    /\ TopUps = Orders /\ IsFiniteSet(Tabs)
    /\ {TokenLimit, TopupTokens, Opening, AgentCost, MaxRuns, MaxFaults} \subseteq Nat
    /\ NoBalance \notin Nat
    /\ NoOrder \notin Orders
    /\ "topup" \notin Ticks

VARIABLES
    ui,        \* what React keeps of each page
    fetches,   \* balance requests of each page
    agent,     \* the agent run of each page
    route,     \* the top-up requests, one order each
    ledger,    \* the merchant's balance
    entries,   \* credit entries, by order
    posting,   \* calls of /internal/credit, by caller and order
    runs, faults

bookVars == <<ledger, entries, posting>>
vars == <<lifecycleVars, bookVars, ui, fetches, agent, route, runs, faults>>

Callers == {"route", "confirmer"}
Slots == Ticks \cup {"topup"}
Balances == Nat \cup {NoBalance}

NewPage == [balance |-> NoBalance, err |-> FALSE, running |-> FALSE, mode |-> "none",
            steps |-> "pending", fired |-> FALSE, call |-> NoOrder]
NoFetch == [at |-> "none", value |-> NoBalance]
NoRun   == [at |-> "none", after |-> NoBalance]
NoCall  == [at |-> "none", ok |-> FALSE, mode |-> "direct", steps |-> "done"]
Forgotten == [NoCall EXCEPT !.at = "gone"]

TopupInit ==
    /\ LifecycleInit
    /\ ui = [t \in Tabs |-> NewPage]
    /\ fetches = [t \in Tabs |-> [s \in Slots |-> NoFetch]]
    /\ agent = [t \in Tabs |-> NoRun]
    /\ route = [o \in Orders |-> NoCall]
    /\ ledger = Opening
    /\ entries = [o \in Orders |-> 0]
    /\ posting = [w \in Callers |-> [o \in Orders |-> "none"]]
    /\ runs = 0
    /\ faults = 0

------------------------------------------------------------------------------
(* The page.  Every change of its state is a render, after which the two   *)
(* effects run if what they depend on has changed.                         *)

(* usedPct(balance) >= AUTO_TOPUP_THRESHOLD *)
Low(b) == 10 * (TokenLimit - b) >= 8 * TokenLimit

(* Fault: the effect does not ask whether the gate is shut. *)
ChecksUngated(old, new) ==
    /\ new.balance # old.balance \/ new.running # old.running
    /\ new.balance # NoBalance
    /\ Low(new.balance)

Checks(old, new) ==
    /\ new.balance # old.balance \/ new.running # old.running
    /\ new.balance # NoBalance
    /\ ~new.running
    /\ ~new.fired
    /\ Low(new.balance)

(* Fault: no reset after a top-up that fell back to a direct credit. *)
ResetsAfterX402(old, new) ==
    /\ new.running # old.running \/ new.mode # old.mode
    /\ ~new.running
    /\ new.mode = "x402"

Resets(old, new) ==
    /\ new.running # old.running \/ new.mode # old.mode
    /\ ~new.running
    /\ new.mode # "none"

(* triggerTopup up to its await; the request reaches the route unless the  *)
(* orders of the instance are used up, then it can only fail.              *)
TriggerTopup(t, page, calls) ==
    LET Fresh == {o \in Orders : calls[o].at = "none"}
        Asking(o) == [page EXCEPT !.running = TRUE, !.mode = "none", !.steps = "active",
                                  !.call = o]
    IN  IF Fresh = {}
        THEN ui' = [ui EXCEPT ![t] = Asking(NoOrder)] /\ route' = calls
        ELSE LET o == CHOOSE f \in Fresh : TRUE
             IN  /\ ui' = [ui EXCEPT ![t] = Asking(o)]
                 /\ route' = [calls EXCEPT ![o].at = "received"]

Render(t, new, calls) ==
    LET page == [new EXCEPT !.fired = /\ ~Resets(ui[t], new)
                                      /\ new.fired \/ Checks(ui[t], new)]
    IN  IF Checks(ui[t], new)
        THEN TriggerTopup(t, page, calls)
        ELSE ui' = [ui EXCEPT ![t] = page] /\ route' = calls

Fetch(t, s) == fetches' = [fetches EXCEPT ![t][s].at = "sent"]

(* Fault: one failed poll ends the polling. *)
TickUntilError(t) ==
    /\ ~ui[t].err
    /\ \E s \in Ticks : fetches[t][s].at = "none" /\ Fetch(t, s)
    /\ UNCHANGED <<lifecycleVars, bookVars, ui, agent, route, runs, faults>>

(* setInterval(fetchBalance, POLL_INTERVAL_MS) *)
Tick(t) ==
    /\ \E s \in Ticks : fetches[t][s].at = "none" /\ Fetch(t, s)
    /\ UNCHANGED <<lifecycleVars, bookVars, ui, agent, route, runs, faults>>

(* GET /api/enterprise/balance, answered by the token API *)
Balance(t, s) ==
    /\ fetches[t][s].at = "sent"
    /\ \/ /\ fetches' = [fetches EXCEPT ![t][s] = [at |-> "answered", value |-> ledger]]
          /\ UNCHANGED faults
       \/ /\ faults < MaxFaults
          /\ faults' = faults + 1
          /\ fetches' = [fetches EXCEPT ![t][s].at = "failed"]
    /\ UNCHANGED <<lifecycleVars, bookVars, ui, agent, route, runs>>

(* The rest of fetchBalance, and of the function that awaited it. *)
ReceiveBalance(t, s) ==
    LET f == fetches[t][s]
        page == IF f.at = "answered"
                THEN [ui[t] EXCEPT !.balance = f.value, !.err = FALSE]
                ELSE [ui[t] EXCEPT !.err = TRUE]
    IN  /\ f.at \in {"answered", "failed"}
        /\ fetches' = [fetches EXCEPT ![t][s] = NoFetch]
        /\ Render(t, IF s = "topup" THEN [page EXCEPT !.running = FALSE] ELSE page, route)
    /\ UNCHANGED <<lifecycleVars, bookVars, agent, runs, faults>>

TopupAnswered(t) ==
    LET r == route[ui[t].call]
        page == [ui[t] EXCEPT !.steps = r.steps]
        Delivered == [route EXCEPT ![ui[t].call] = Forgotten]
    IN  /\ ui[t].running
        /\ ui[t].mode = "none"
        /\ ui[t].call # NoOrder
        /\ r.at = "answered"
        /\ IF r.ok
           THEN /\ Render(t, [page EXCEPT !.mode = r.mode], Delivered)
                /\ Fetch(t, "topup")
           ELSE /\ Render(t, [page EXCEPT !.running = FALSE], Delivered)
                /\ UNCHANGED fetches
    /\ UNCHANGED <<lifecycleVars, bookVars, agent, runs, faults>>

(* The request throws, whatever became of it on the server. *)
TopupThrows(t) ==
    /\ ui[t].running
    /\ ui[t].mode = "none"
    /\ Render(t, [ui[t] EXCEPT !.steps = "error", !.running = FALSE], route)
    /\ IF ui[t].call = NoOrder
       THEN UNCHANGED faults
       ELSE faults < MaxFaults /\ faults' = faults + 1
    /\ UNCHANGED <<lifecycleVars, bookVars, fetches, agent, runs>>

(* What the banner above the agent card says. *)
Banner(t) ==
    IF ui[t].running THEN "in progress"
    ELSE IF ui[t].mode = "none" THEN "hidden" ELSE ui[t].mode

(* The three steps of a top-up, as one. *)
Stepper(t) == ui[t].steps

(* The card of the token balance: a dash until there is one. *)
BalanceCard(t) == IF ui[t].balance = NoBalance THEN <<>> ELSE <<ui[t].balance>>

------------------------------------------------------------------------------
(* The agent: its buttons are disabled while it runs.                      *)

(* The buttons of the tasks, and Run. *)
AgentButtons(t) == agent[t].at = "none"

RunAgent(t) ==
    /\ AgentButtons(t)
    /\ runs < MaxRuns
    /\ runs' = runs + 1
    /\ agent' = [agent EXCEPT ![t].at = "sent"]
    /\ UNCHANGED <<lifecycleVars, bookVars, ui, fetches, route, faults>>

(* POST /v1/messages through the run-agent route: debited and answered     *)
(* with the balance left, debited and the answer lost on its way to the    *)
(* page, or refused.  Of all but the first the page shows an error.        *)
AgentServed(t) ==
    /\ agent[t].at = "sent"
    /\ \/ /\ ledger >= AgentCost
          /\ ledger' = ledger - AgentCost
          /\ \/ agent' = [agent EXCEPT ![t] = [at |-> "typing", after |-> ledger - AgentCost]]
             \/ agent' = [agent EXCEPT ![t] = NoRun]
       \/ /\ agent' = [agent EXCEPT ![t] = NoRun]
          /\ UNCHANGED ledger
    /\ UNCHANGED <<lifecycleVars, entries, posting, ui, fetches, route, runs, faults>>

(* After the typewriter: the balance of the answer, which the token API    *)
(* never leaves out, replaces what is shown, however old it has become.    *)
AgentTyped(t) ==
    /\ agent[t].at = "typing"
    /\ Render(t, [ui[t] EXCEPT !.balance = agent[t].after], route)
    /\ agent' = [agent EXCEPT ![t] = NoRun]
    /\ UNCHANGED <<lifecycleVars, bookVars, fetches, runs, faults>>

------------------------------------------------------------------------------
(* POST /api/enterprise/topup.  A request is named by its order; its       *)
(* idempotency key is the time, so that no two requests share one.         *)

(* The steps of a request are kept as one: an error if one of them is. *)
Worst(a, b) == IF "error" \in {a, b} THEN "error" ELSE "done"

Step(o, at, s) ==
    route' = [route EXCEPT ![o].at = at, ![o].steps = Worst(@, s)]

(* Answers nobody waits for are forgotten. *)
Answer(o, ok, mode, s) ==
    route' = [route EXCEPT ![o] =
        IF \E t \in Tabs : ui[t].call = o /\ ui[t].running /\ ui[t].mode = "none"
        THEN [at |-> "answered", ok |-> ok, mode |-> mode, steps |-> Worst(@.steps, s)]
        ELSE Forgotten]

(* Step 1.  The order may exist although the answer says it does not. *)
CreateOrder(o) ==
    /\ route[o].at = "received"
    /\ \/ Open(o) /\ Step(o, "created", "done")
       \/ Open(o) /\ Answer(o, FALSE, "direct", "error")
       \/ UNCHANGED lifecycleVars /\ Answer(o, FALSE, "direct", "error")
    /\ UNCHANGED <<bookVars, ui, fetches, agent, runs, faults>>

(* _demoCredit up to its await: the call to /internal/credit *)
FallBack(o, s) ==
    /\ Step(o, "fallback", s)
    /\ posting' = [posting EXCEPT !["route"][o] = "called"]
    /\ UNCHANGED <<ledger, entries>>

(* Step 2.  No wallet (503) counts as done; any failure falls back. *)
Sign(o) ==
    /\ route[o].at = "created"
    /\ \/ Step(o, "signed", "done") /\ UNCHANGED bookVars
       \/ FallBack(o, "done")
       \/ FallBack(o, "error")
    /\ UNCHANGED <<lifecycleVars, ui, fetches, agent, runs, faults>>

(* Fault: the status of the gateway's answer is not looked at. *)
SubmitUnchecked(o) ==
    /\ route[o].at = "signed"
    /\ Take(o) \/ UNCHANGED lifecycleVars
    /\ Answer(o, TRUE, "x402", "done")
    /\ UNCHANGED <<bookVars, ui, fetches, agent, runs, faults>>

(* Step 3.  The gateway takes the payment and says so; takes it, and its   *)
(* answer is an error or is lost; refuses it.                              *)
SubmitProof(o) ==
    /\ route[o].at = "signed"
    /\ \/ Take(o) /\ Answer(o, TRUE, "x402", "done") /\ UNCHANGED bookVars
       \/ Take(o) /\ FallBack(o, "error")
       \/ Close(o) /\ FallBack(o, "error")
       \/ UNCHANGED lifecycleVars /\ FallBack(o, "error")
    /\ UNCHANGED <<ui, fetches, agent, runs, faults>>

(* The rest of _demoCredit: the credit is answered, refused, or its answer *)
(* is lost while the call goes on.                                         *)
DemoCreditAnswered(o) ==
    /\ route[o].at = "fallback"
    /\ \/ posting["route"][o] = "done" /\ Answer(o, TRUE, "direct", "done")
       \/ Answer(o, FALSE, "direct", "error")
    /\ UNCHANGED <<lifecycleVars, bookVars, ui, fetches, agent, runs, faults>>

------------------------------------------------------------------------------
(* LedgerService.credit, by its callers: the idempotency SELECT and the    *)
(* INSERT, with nothing between them that keeps another caller out.        *)

(* Fault: the route refers to its idempotency key, the confirmer to the    *)
(* order.                                                                  *)
CreditSelectByKey(w, o) ==
    /\ posting[w][o] = "called"
    /\ posting' = [posting EXCEPT ![w][o] = "selected"]
    /\ UNCHANGED <<lifecycleVars, ledger, entries, ui, fetches, agent, route, runs, faults>>

CreditSelect(w, o) ==
    /\ posting[w][o] = "called"
    /\ posting' = [posting EXCEPT ![w][o] = IF entries[o] > 0 THEN "done" ELSE "selected"]
    /\ UNCHANGED <<lifecycleVars, ledger, entries, ui, fetches, agent, route, runs, faults>>

CreditInsert(w, o) ==
    /\ posting[w][o] = "selected"
    /\ posting' = [posting EXCEPT ![w][o] = "done"]
    /\ entries' = [entries EXCEPT ![o] = @ + 1]
    /\ ledger' = ledger + TopupTokens
    /\ UNCHANGED <<lifecycleVars, ui, fetches, agent, route, runs, faults>>

(* The gateway's confirmer credits a settled order; a failure is final. *)
ConfirmerCredits(o) ==
    /\ posting["confirmer"][o] = "none"
    /\ Credit(o)
    /\ posting' = [posting EXCEPT !["confirmer"][o] = "called"]
    /\ UNCHANGED <<ledger, entries, ui, fetches, agent, route, runs, faults>>

CreditFails(w, o) ==
    /\ posting[w][o] \in {"called", "selected"}
    /\ posting' = [posting EXCEPT ![w][o] = IF w = "route" THEN "failed" ELSE "done"]
    /\ UNCHANGED <<lifecycleVars, ledger, entries, ui, fetches, agent, route, runs, faults>>

Gateway ==
    /\ \/ \E tx \in Txs : tx \notin landed /\ stage[PaysFor[tx]] = "taken" /\ Execute(tx)
       \/ \E o \in Orders : \/ stage[o] = "taken" /\ Close(o)
       \/ \E o \in Orders, tx \in Txs : Settle(o, tx)
    /\ UNCHANGED <<bookVars, ui, fetches, agent, route, runs, faults>>

------------------------------------------------------------------------------
Page(t) ==
    \/ Tick(t) \/ TopupAnswered(t) \/ TopupThrows(t)
    \/ \E s \in Slots : Balance(t, s) \/ ReceiveBalance(t, s)
    \/ RunAgent(t) \/ AgentServed(t) \/ AgentTyped(t)

Route(o) ==
    \/ CreateOrder(o) \/ Sign(o) \/ SubmitProof(o) \/ DemoCreditAnswered(o)

Ledger(w, o) == CreditSelect(w, o) \/ CreditInsert(w, o) \/ CreditFails(w, o)

TopupNext ==
    \/ \E t \in Tabs : Page(t)
    \/ \E o \in Orders : Route(o) \/ ConfirmerCredits(o)
    \/ \E w \in Callers, o \in Orders : Ledger(w, o)
    \/ Gateway

(* The browser's timers and callbacks run, the services answer; nobody     *)
(* has to run an agent, and the gateway and the cluster owe nothing.       *)
TopupFairness ==
    /\ \A t \in Tabs :
        /\ WF_vars(Tick(t)) /\ WF_vars(TopupAnswered(t))
        /\ WF_vars(TopupThrows(t) /\ ui[t].call = NoOrder)
        /\ WF_vars(AgentServed(t)) /\ WF_vars(AgentTyped(t))
        /\ \A s \in Slots : WF_vars(Balance(t, s)) /\ WF_vars(ReceiveBalance(t, s))
    /\ \A o \in Orders : WF_vars(Route(o))
    /\ \A w \in Callers, o \in Orders : WF_vars(Ledger(w, o))

TopupSpec == TopupInit /\ [][TopupNext]_vars /\ TopupFairness

------------------------------------------------------------------------------
TopupTypeOK ==
    /\ ui \in [Tabs -> [balance : Balances, err : BOOLEAN, running : BOOLEAN,
                        mode : {"none", "x402", "direct"},
                        steps : {"pending", "active", "done", "error"},
                        fired : BOOLEAN, call : Orders \cup {NoOrder}]]
    /\ fetches \in [Tabs -> [Slots -> [at : {"none", "sent", "answered", "failed"},
                                       value : Balances]]]
    /\ agent \in [Tabs -> [at : {"none", "sent", "typing"},
                           after : Balances]]
    /\ \A o \in Orders : route[o].at \in {"none", "received", "created", "signed",
                                          "fallback", "answered", "gone"}
    /\ ledger \in Nat
    /\ entries \in [Orders -> Nat]
    /\ posting \in [Callers -> [Orders -> {"none", "called", "selected", "done", "failed"}]]

(* A banner that says complete speaks of the order it was shown for: the   *)
(* gateway has taken the payment (x402), or the ledger has the credit      *)
(* (direct).                                                               *)
BannerTellsTheTruth ==
    \A t \in Tabs :
        /\ Banner(t) = "x402" => stage[ui[t].call] \notin {"absent", "open"}
        /\ Banner(t) = "direct" => entries[ui[t].call] > 0

(* The gate of a page that is not topping up is shut only by a top-up that *)
(* failed: a success reopens it, a failure never does.                     *)
ShutGateMeansFailure ==
    \A t \in Tabs :
        ui[t].fired /\ ~ui[t].running =>
            ui[t].mode = "none" /\ Stepper(t) = "error"

(* Top-up requests are at most as many as there are pages, however the     *)
(* polls, the refresh and the agent's answers cross; only a page that gave *)
(* up on its request (reloaded, connection lost) leaves one behind.        *)
TopupsTakeTurns ==
    Cardinality({o \in Orders : route[o].at \notin {"none", "answered", "gone"}})
        <= Cardinality(Tabs) + faults

(* An order that was credited, with no call left between its SELECT and    *)
(* its INSERT, is never credited again, although the route and the         *)
(* confirmer may both try.                                                 *)
CreditSettled ==
    [][\A o \in Orders :
          entries[o] > 0 /\ (\A w \in Callers : posting[w][o] # "selected")
          => entries'[o] = entries[o] /\ (\A w \in Callers : posting'[w][o] # "selected")]_vars

(* When the ledger comes to rest every page shows its balance, although    *)
(* answers arrive out of order and some are lost.                          *)
DashboardCatchesUp == \A t \in Tabs : <>[](BalanceCard(t) = <<ledger>>)

(* AUTO_TOPUP_THRESHOLD, "fire when 80 % of limit is used": a top-up is    *)
(* started only when that much is used.                                    *)
FiresOnlyWhenLow ==
    [][\A o \in Orders : route[o].at = "none" /\ route'[o].at = "received" => Low(ledger)]_vars
==============================================================================
