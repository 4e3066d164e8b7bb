------------------------------- MODULE Metering -------------------------------
(***************************************************************************)
(* A metered AI call: the SDK sends POST /v1/messages, and sends it again  *)
(* when an attempt fails or is not answered; HABA's advisor and its agent  *)
(* send it once.  The token API serves every attempt as a call of its own  *)
(* -- limits, balance check, provider, debit, audit row -- whether or not  *)
(* its client still waits.  The ledger is the indivisible one TokenLedger  *)
(* implements.                                                             *)
(***************************************************************************)
EXTENDS AtomicLedger, FiniteSets

CONSTANTS
    Calls,         \* calls of Client.chat, and of HABA's chatCompletion
    Habas,         \* those of HABA
    MaxTries,      \* max_retries + 1
    MerchantOf,    \* the merchant a call is charged to
    Estimate,      \* estimate_from_request, the same for every call
    MaxEntries     \* bound: nothing is credited on a longer book

ASSUME MeteringAssumption ==
    /\ Habas \subseteq Calls
    /\ MaxTries \in Nat \ {0}
    /\ MerchantOf \in [Calls -> Merchants]
    /\ Amounts \subseteq Nat \ {0}
    /\ Estimate \in Nat \ {0}
    /\ MaxEntries \in Nat

VARIABLES
    client,     \* where each call is
    tries,      \* attempts it has sent
    stage,      \* where the handler of each attempt is
    seen,       \* entries in the book when it checked the balance
    cost,       \* what the provider's usage costs
    outcome,    \* the answer of the attempt
    requests    \* audit rows

clientVars == <<client, tries>>
handlerVars == <<stage, seen, cost, outcome>>
vars == <<ledgerVars, clientVars, handlerVars, requests>>

Attempts == Calls \X (1..MaxTries)
Payer(a) == MerchantOf[a[1]]

Retryable == {"limited",       \* 429
              "provider",      \* 5xx of the provider, or 429
              "db_error"}      \* 500: the debit's transaction failed
Outcome == Retryable \cup {"none", "ok",
                             "insufficient",    \* 402, its own or its provider's
                             "refused"}         \* 401, other 4xx

MeteringTypeOK ==
    /\ balance \in [Merchants -> Nat]
    /\ client \in [Calls -> {"idle", "waiting", "ok", "insufficient", "error"}]
    /\ tries \in [Calls -> 0..MaxTries]
    /\ stage \in [Attempts -> {"none", "received", "calling", "answered", "billed",
                               "replied", "delivered", "gone"}]
    /\ seen \in [Attempts -> Nat]
    /\ cost \in [Attempts -> Amounts \cup {0}]
    /\ outcome \in [Attempts -> Outcome]
    /\ requests \subseteq [id : Attempts, status : {"ok", "unbilled", "error"}, cost : Nat]

MeteringInit ==
    /\ BooksOpen
    /\ client = [c \in Calls |-> "idle"]
    /\ tries = [c \in Calls |-> 0]
    /\ stage = [a \in Attempts |-> "none"]
    /\ seen = [a \in Attempts |-> 0]
    /\ cost = [a \in Attempts |-> 0]
    /\ outcome = [a \in Attempts |-> "none"]
    /\ requests = {}

------------------------------------------------------------------------------
(* The token API, one attempt.                                             *)

At(a, l) == stage[a] = l

Proceed(a, l) == stage' = [stage EXCEPT ![a] = l] /\ UNCHANGED outcome

(* The handler is done; its answer waits for the client, if there is one. *)
Forget(a) == seen' = [seen EXCEPT ![a] = 0] /\ cost' = [cost EXCEPT ![a] = 0]

Awaited(a) == client[a[1]] = "waiting" /\ tries[a[1]] = a[2]

Reply(a, r) ==
    /\ IF Awaited(a)
       THEN /\ stage' = [stage EXCEPT ![a] = "replied"]
            /\ outcome' = [outcome EXCEPT ![a] = r]
       ELSE Proceed(a, "gone")
    /\ Forget(a)

(* _persist_request_row: an audit row, or a warning in the log *)
Persist(a, s, n) ==
    \/ requests' = requests \cup {[id |-> a, status |-> s, cost |-> n]}
    \/ UNCHANGED requests

(* verify_request and the rate limits, in the step that follows them: the  *)
(* signature, the key's status as the cache has it, RPM and TPM counters   *)
(* in Redis that lag behind and fail open.                                 *)
Limited(a) ==
    /\ At(a, "received")
    /\ Reply(a, "limited") \/ Reply(a, "refused")
    /\ UNCHANGED <<ledgerVars, clientVars, requests>>

(* Fault: an estimate the balance does not cover is no reason to refuse. *)
PreflightLax(a) ==
    /\ At(a, "received")
    /\ IF balance[Payer(a)] > 0
       THEN /\ Proceed(a, "calling")
            /\ seen' = [seen EXCEPT ![a] = Len(book[Payer(a)])]
            /\ UNCHANGED cost
       ELSE Reply(a, "insufficient")
    /\ UNCHANGED <<ledgerVars, clientVars, requests>>

(* The balance is read, and nothing of it is held. *)
Preflight(a) ==
    /\ At(a, "received")
    /\ IF balance[Payer(a)] >= Estimate
       THEN /\ Proceed(a, "calling")
            /\ seen' = [seen EXCEPT ![a] = Len(book[Payer(a)])]
            /\ UNCHANGED cost
       ELSE Reply(a, "insufficient")
    /\ UNCHANGED <<ledgerVars, clientVars, requests>>

(* The provider's status is passed on.  HABA's advisor passes any 402 on   *)
(* as it is, so that one of the provider's reads like the token API's own. *)
ProviderFails(a) ==
    /\ At(a, "calling")
    /\ Persist(a, "error", 0)
    /\ \E r \in {"provider", "refused", "insufficient"} : Reply(a, r)
    /\ UNCHANGED <<ledgerVars, clientVars>>

(* The provider's usage is known only now, and may cost more than the      *)
(* estimate: four characters are not always one token.                     *)
ProviderAnswers(a) ==
    /\ At(a, "calling")
    /\ \E n \in Amounts : cost' = [cost EXCEPT ![a] = n]
    /\ Proceed(a, "answered")
    /\ UNCHANGED <<ledgerVars, clientVars, seen, requests>>

Debit(a) ==
    /\ At(a, "answered")
    /\ DebitBook(Payer(a), cost[a], a)
    /\ Proceed(a, "billed")
    /\ UNCHANGED <<clientVars, seen, cost, requests>>

(* Fault: the answer is given away. *)
DebitInsufficientAnswered(a) ==
    /\ At(a, "answered")
    /\ balance[Payer(a)] < cost[a]
    /\ Persist(a, "unbilled", cost[a])
    /\ Reply(a, "ok")
    /\ UNCHANGED <<ledgerVars, clientVars>>

(* Fault: the audit row claims the debit was made. *)
DebitInsufficientBilled(a) ==
    /\ At(a, "answered")
    /\ balance[Payer(a)] < cost[a]
    /\ Persist(a, "ok", cost[a])
    /\ Reply(a, "insufficient")
    /\ UNCHANGED <<ledgerVars, clientVars>>

DebitInsufficient(a) ==
    /\ At(a, "answered")
    /\ balance[Payer(a)] < cost[a]
    /\ Persist(a, "unbilled", cost[a])
    /\ Reply(a, "insufficient")
    /\ UNCHANGED <<ledgerVars, clientVars>>

(* The transaction fails, or its COMMIT is not acknowledged. *)
DebitFails(a) ==
    /\ At(a, "answered")
    /\ DebitBook(Payer(a), cost[a], a) \/ UNCHANGED ledgerVars
    /\ Reply(a, "db_error")
    /\ UNCHANGED <<clientVars, requests>>

(* Fault: an audit row that cannot be written fails the call. *)
FinishStrict(a) ==
    /\ At(a, "billed")
    /\ \/ /\ requests' = requests \cup {[id |-> a, status |-> "ok", cost |-> cost[a]]}
          /\ Reply(a, "ok")
       \/ Reply(a, "provider") /\ UNCHANGED requests
    /\ UNCHANGED <<ledgerVars, clientVars>>

Finish(a) ==
    /\ At(a, "billed")
    /\ Persist(a, "ok", cost[a])
    /\ Reply(a, "ok")
    /\ UNCHANGED <<ledgerVars, clientVars>>

Working(a) == stage[a] \in {"received", "calling", "answered", "billed"}

(* The process stops. *)
Crash ==
    /\ \E a \in Attempts : Working(a)
    /\ stage' = [a \in Attempts |-> IF Working(a) THEN "gone" ELSE stage[a]]
    /\ seen' = [a \in Attempts |-> 0]
    /\ cost' = [a \in Attempts |-> 0]
    /\ UNCHANGED <<ledgerVars, clientVars, outcome, requests>>

------------------------------------------------------------------------------
(* The SDK: Transport.request.                                             *)

Last(c) == <<c, tries[c]>>

Send(c, st) ==
    /\ client' = [client EXCEPT ![c] = "waiting"]
    /\ tries' = [tries EXCEPT ![c] = @ + 1]
    /\ stage' = [st EXCEPT ![<<c, tries[c] + 1>>] = "received"]

(* What a browser asks HABA's advisor: the newest of the turns it sent, of *)
(* which the malformed and the empty ones are dropped.                     *)
Turns == {"user", "assistant", "dropped"}

Asks(turns) == LET kept == SelectSeq(turns, LAMBDA t : t # "dropped")
               IN  kept # <<>> /\ kept[Len(kept)] = "user"

(* The agent's tasks are fixed, the advisor's turns are looked at, and the *)
(* SDK sends what it is given.                                             *)
Call(c) ==
    /\ client[c] = "idle"
    /\ \/ Send(c, stage)
       \/ /\ c \in Habas
          /\ \E turns \in Turns \X Turns : ~Asks(turns)
          /\ client' = [client EXCEPT ![c] = "error"]
          /\ UNCHANGED <<tries, stage>>
    /\ UNCHANGED <<ledgerVars, seen, cost, outcome, requests>>

Conclude(c, l, st) ==
    /\ client' = [client EXCEPT ![c] = l]
    /\ stage' = st
    /\ UNCHANGED tries

(* A signature and a nonce of its own for every attempt of the SDK *)
Again(c, st) ==
    IF c \notin Habas /\ tries[c] < MaxTries THEN Send(c, st) ELSE Conclude(c, "error", st)

(* chatCompletion throws unless ok, and HABA's routes answer the browser   *)
(* at once: a 402 is passed on, all else is an error.                      *)
Once(c, r, st) == Conclude(c, IF r \in {"ok", "insufficient"} THEN r ELSE "error", st)

Answered(c) ==
    /\ client[c] = "waiting"
    /\ At(Last(c), "replied")
    /\ LET r == outcome[Last(c)]
           st == [stage EXCEPT ![Last(c)] = "delivered"]
       IN CASE c \in Habas -> Once(c, r, st)
            [] c \notin Habas /\ r \in {"ok", "insufficient"} -> Conclude(c, r, st)
            [] c \notin Habas /\ r = "refused" -> Conclude(c, "error", st)
            [] OTHER -> Again(c, st)
    /\ UNCHANGED <<ledgerVars, seen, cost, outcome, requests>>

(* The time-out of 30 s, or a broken connection.  RETRY_EXCEPTIONS are     *)
(* sent again; a ReadError, a WriteError, a ConnectTimeout or a            *)
(* PoolTimeout, which are not among them, ends the call at once, as any    *)
(* break does a call of HABA's fetch.                                      *)
NotAnswered(c) ==
    /\ client[c] = "waiting"
    /\ LET st == [stage EXCEPT ![Last(c)] = IF @ = "replied" THEN "gone" ELSE @]
       IN  Again(c, st) \/ Conclude(c, "error", st)
    /\ outcome' = [outcome EXCEPT ![Last(c)] = "none"]
    /\ UNCHANGED <<ledgerVars, seen, cost, requests>>

(* A top-up is credited, with the ref of no call. *)
TopUp(m) ==
    /\ Len(book[m]) < MaxEntries
    /\ \E n \in Amounts, r \in Refs : CreditBook(m, n, r)
    /\ UNCHANGED <<clientVars, handlerVars, requests>>

HandlerStep(a) ==
    \/ Limited(a) \/ Preflight(a) \/ ProviderFails(a) \/ ProviderAnswers(a)
    \/ Debit(a) \/ DebitInsufficient(a) \/ DebitFails(a) \/ Finish(a)

ClientStep(c) == Answered(c) \/ NotAnswered(c)

MeteringNext ==
    \/ \E c \in Calls : Call(c) \/ ClientStep(c)
    \/ \E a \in Attempts : HandlerStep(a)
    \/ \E m \in Merchants : TopUp(m)
    \/ Crash

MeteringSpec == MeteringInit /\ [][MeteringNext]_vars

------------------------------------------------------------------------------
(* Properties                                                              *)

Debits(a) == {i \in 1..Len(book[Payer(a)]) : LET e == book[Payer(a)][i]
                                             IN e.type = "debit" /\ e.ref = a}

(* The audit table and the ledger agree: a row that says ok has one debit  *)
(* of its cost, a row that says unbilled or error has none, and no attempt *)
(* is debited twice.                                                       *)
AuditMatchesLedger ==
    /\ \A a \in Attempts : Cardinality(Debits(a)) <= 1
    /\ \A q \in requests : IF q.status = "ok"
                            THEN \E i \in Debits(q.id) : book[Payer(q.id)][i].amount = q.cost
                            ELSE Debits(q.id) = {}

(* A client that has its answer has been charged for that attempt, and one *)
(* that is told of an insufficient balance has not; a shopper whose        *)
(* question HABA's advisor refuses to send, or sends once, is charged at   *)
(* most once, whatever the advisor says in the end.                        *)
AnswerIsPaid ==
    \A c \in Calls :
        /\ client[c] = "ok" => Debits(Last(c)) # {}
        /\ client[c] = "insufficient" => Debits(Last(c)) = {}
        /\ c \in Habas => Cardinality({n \in 1..MaxTries : Debits(<<c, n>>) # {}}) <= 1

(* The comment in the handler: a debit is refused after the provider has   *)
(* answered only if the balance that was sufficient at the pre-flight      *)
(* dropped, that is if another debit of the merchant came between, or if   *)
(* the estimate was too low.                                               *)
UnbilledOnlyByRace ==
    \A a \in Attempts : At(a, "answered") /\ balance[Payer(a)] < cost[a] =>
        \/ cost[a] > Estimate
        \/ \E i \in 1..Len(book[Payer(a)]) :
             i > seen[a] /\ book[Payer(a)][i].type = "debit"

(* A call is charged more than once only if the answer of a charged        *)
(* attempt was lost: an answer that arrived is not asked for again.        *)
ChargedAgainOnlyIfLost ==
    \A a \in Attempts : Debits(a) # {} /\ a[2] < tries[a[1]] =>
        stage[a] # "delivered" \/ outcome[a] = "db_error"
==============================================================================
