------------------------- MODULE PaymentOrdersProofs -------------------------
(***************************************************************************)
(* Proofs about PaymentOrders for every set of orders, transactions,       *)
(* request slots and confirmer replicas: types, credits, what reaches the  *)
(* chain, what is confirmed, what the merchant is told, and the abstract   *)
(* lifecycle.                                                              *)
(***************************************************************************)
EXTENDS PaymentOrders, TLAPS

------------------------------------------------------------------------------
(* Types.  A busy handler has an order and a transaction, which the rows   *)
(* it writes need.                                                         *)

BusyHandlers == \A h \in Handlers : pc[h] # "idle" => hOrder[h] \in Orders /\ hTx[h] \in Txs

TypeInv == PaymentTypeOK /\ BusyHandlers

LEMMA FacilitatorTyping ==
    ASSUME FacilitatorTypeOK, FacilitatorStep
    PROVE  FacilitatorTypeOK'
<1> USE FacilitatorAssumption DEF FacilitatorTypeOK, ChainTypeOK, ChainState, Phase, Reply
<1>1. ASSUME NEW c \in Calls, TaskStep(c) PROVE FacilitatorTypeOK'
  <2>1. CASE Admit(c)
    BY <2>1 DEF Admit, Answer
  <2>2. CASE Broadcast(c)
    BY <2>2 DEF Broadcast, Submitted
  <2>3. CASE BroadcastRejected(c)
    BY <2>3 DEF BroadcastRejected, Submitted, Answer
  <2>4. CASE Poll(c)
    BY <2>4 DEF Poll, Answer
  <2>5. CASE GiveUp(c)
    BY <2>5 DEF GiveUp, Answer
  <2>6. CASE Abort(c)
    BY <2>6 DEF Abort, Answer
  <2> QED BY <1>1, <2>1, <2>2, <2>3, <2>4, <2>5, <2>6 DEF TaskStep, TaskProgress
<1>2. CASE ChainNext /\ UNCHANGED <<accepting, phase, asked, polls, reply>>
  BY <1>2 DEF ChainNext, Land, ExecuteWithError, Drop, Revert
<1>3. CASE SetAccepting
  BY <1>3 DEF SetAccepting
<1> QED BY <1>1, <1>2, <1>3 DEF FacilitatorStep

LEMMA TypeInit == PaymentInit => TypeInv
BY FacilitatorAssumption, PaymentAssumption
   DEF PaymentInit, FacilitatorInit, ChainInit, TypeInv, PaymentTypeOK, BusyHandlers,
       FacilitatorTypeOK, ChainTypeOK, ChainState, Phase, Reply, Status, SubmitPC, CheckoutPC,
       ConfirmerPC, Proof, EventType, Handlers

(* A step that leaves the facilitator's variables alone leaves them typed. *)
LEMMA FacilitatorFrame ==
    ASSUME FacilitatorTypeOK, UNCHANGED facilitatorVars
    PROVE  FacilitatorTypeOK'
BY DEF FacilitatorTypeOK, ChainTypeOK, facilitatorVars

(* The conjuncts of the type invariant outside the facilitator. *)
StoreTypeOK ==
    /\ status \in [Orders -> Status \cup {"absent"}]
    /\ txHash \in [Orders -> Txs \cup {NoTx}]
    /\ overdue \subseteq Orders
    /\ proofs \subseteq Proof
    /\ credits \in [Orders -> Nat]
    /\ events \in [Orders -> [EventType -> Nat]]

ProcessTypeOK ==
    /\ pc \in [Handlers -> {"idle"} \cup SubmitPC \cup CheckoutPC]
    /\ hOrder \in [Handlers -> Orders \cup {NoOrder}]
    /\ hTx \in [Handlers -> Txs \cup {NoTx}]
    /\ cpc \in [Confirmers -> ConfirmerPC]
    /\ todo \in [Confirmers -> SUBSET Orders]
    /\ cur \in [Confirmers -> Orders \cup {NoOrder}]

LEMMA TypeParts == TypeInv <=> FacilitatorTypeOK /\ StoreTypeOK /\ ProcessTypeOK /\ BusyHandlers
BY DEF TypeInv, PaymentTypeOK, StoreTypeOK, ProcessTypeOK

LEMMA TypePartsPrime ==
    TypeInv' <=> FacilitatorTypeOK' /\ StoreTypeOK' /\ ProcessTypeOK' /\ BusyHandlers'
BY DEF TypeInv, PaymentTypeOK, StoreTypeOK, ProcessTypeOK

LEMMA AddProofTyping ==
    ASSUME TypeInv, NEW h \in Handlers, pc[h] # "idle",
           NEW ok \in BOOLEAN, NEW hash \in BOOLEAN, AddProof(h, ok, hash)
    PROVE  proofs' \subseteq Proof
<1>1. proofs \subseteq Proof
  BY DEF TypeInv, PaymentTypeOK
<1>2. hOrder[h] \in Orders /\ hTx[h] \in Txs
  BY DEF TypeInv, BusyHandlers
<1>3. [order |-> hOrder[h], tx |-> hTx[h], verified |-> ok, hashed |-> hash] \in Proof
  BY <1>2 DEF Proof
<1> QED BY <1>1, <1>3 DEF AddProof

LEMMA SubmitTyping ==
    ASSUME TypeInv, NEW h \in Handlers, SubmitStep(h)
    PROVE  TypeInv'
<1> USE DEF StoreTypeOK, ProcessTypeOK, BusyHandlers, Status, SubmitPC, CheckoutPC,
            confirmerVars, storeVars, Goto, Return
<1>0. FacilitatorTypeOK /\ StoreTypeOK /\ ProcessTypeOK /\ BusyHandlers
  BY TypeParts
<1>1. CASE SubmitInvalid(h)
  <2>1. proofs' \subseteq Proof
    BY <1>1, AddProofTyping DEF SubmitInvalid
  <2> QED BY <1>0, <1>1, <2>1, FacilitatorFrame, TypePartsPrime DEF SubmitInvalid
<1>2. CASE SubmitAccept(h)
  <2>1. proofs' \subseteq Proof
    BY <1>2, AddProofTyping DEF SubmitAccept
  <2> QED BY <1>0, <1>2, <2>1, FacilitatorFrame, TypePartsPrime DEF SubmitAccept, SetStatus
<1>3. CASE SubmitConflict(h)
  BY <1>0, <1>3, FacilitatorFrame, TypePartsPrime DEF SubmitConflict
<1>4. CASE SubmitFailed(h)
  BY <1>0, <1>4, FacilitatorFrame, TypePartsPrime DEF SubmitFailed, MoveIfPossible
<1>5. CASE SubmitBroadcasting(h)
  BY <1>0, <1>5, FacilitatorFrame, TypePartsPrime DEF SubmitBroadcasting
<1> QED BY <1>1, <1>2, <1>3, <1>4, <1>5 DEF SubmitStep

LEMMA SettleTyping ==
    ASSUME TypeInv, NEW h \in Handlers, SettleStep(h)
    PROVE  TypeInv'
<1> USE DEF StoreTypeOK, ProcessTypeOK, BusyHandlers, SubmitPC, CheckoutPC,
            confirmerVars, storeVars, Goto, Return, AfterRefusal
<1>0. FacilitatorTypeOK /\ StoreTypeOK /\ ProcessTypeOK /\ BusyHandlers
  BY TypeParts
<1>1. CASE SettleCall(h)
  <2>1. FacilitatorTypeOK'
    BY <1>0, <1>1, FacilitatorAssumption
       DEF SettleCall, Receive, FacilitatorTypeOK, ChainTypeOK, Phase, Handlers
  <2> QED BY <1>0, <1>1, <2>1, TypePartsPrime DEF SettleCall
<1>2. CASE SettleUnreachable(h)
  BY <1>0, <1>2, FacilitatorFrame, TypePartsPrime DEF SettleUnreachable
<1> DEFINE Freed == Release(h) /\ UNCHANGED <<chain, accepting>>
<1>3. Freed => FacilitatorTypeOK'
  BY <1>0, FacilitatorAssumption
     DEF Release, FacilitatorTypeOK, ChainTypeOK, Phase, Reply, Handlers
<1>4. CASE SettleSucceeded(h)
  BY <1>0, <1>3, <1>4, TypePartsPrime DEF SettleSucceeded
<1>5. CASE SettleRefused(h)
  BY <1>0, <1>3, <1>5, TypePartsPrime DEF SettleRefused
<1>6. CASE SettleTimeout(h)
  BY <1>0, <1>6, FacilitatorFrame, TypePartsPrime DEF SettleTimeout
<1>8. CASE SettleRefusedAtLength(h)
  BY <1>0, <1>3, <1>8, TypePartsPrime DEF SettleRefusedAtLength
<1>7. CASE ReplyLost(h)
  BY <1>0, <1>3, <1>7, TypePartsPrime DEF ReplyLost, handlerVars
<1> QED BY <1>1, <1>2, <1>4, <1>5, <1>6, <1>7, <1>8 DEF SettleStep

LEMMA CheckoutTyping ==
    ASSUME TypeInv, NEW h \in Handlers, CheckoutStep(h)
    PROVE  TypeInv'
<1> USE DEF StoreTypeOK, ProcessTypeOK, BusyHandlers, Status, SubmitPC, CheckoutPC,
            confirmerVars, storeVars, Goto, Return
<1>0. FacilitatorTypeOK /\ StoreTypeOK /\ ProcessTypeOK /\ BusyHandlers
  BY TypeParts
<1>1. CASE CheckoutExpired(h)
  BY <1>0, <1>1, FacilitatorFrame, TypePartsPrime DEF CheckoutExpired, MoveIfPossible
<1>2. CASE CheckoutReplay(h)
  BY <1>0, <1>2, FacilitatorFrame, TypePartsPrime DEF CheckoutReplay
<1>3. CASE CheckoutFresh(h)
  BY <1>0, <1>3, FacilitatorFrame, TypePartsPrime DEF CheckoutFresh
<1>4. CASE CheckoutDuplicate(h)
  BY <1>0, <1>4, FacilitatorFrame, TypePartsPrime DEF CheckoutDuplicate
<1>5. CASE CheckoutInvalid(h)
  <2>1. proofs' \subseteq Proof
    BY <1>5, AddProofTyping DEF CheckoutInvalid
  <2> QED BY <1>0, <1>5, <2>1, FacilitatorFrame, TypePartsPrime DEF CheckoutInvalid
<1>6. CASE CheckoutProved(h)
  <2>1. proofs' \subseteq Proof
    BY <1>6, AddProofTyping DEF CheckoutProved
  <2> QED BY <1>0, <1>6, <2>1, FacilitatorFrame, TypePartsPrime DEF CheckoutProved
<1>7. CASE CheckoutConfirmed(h)
  BY <1>0, <1>7, FacilitatorFrame, TypePartsPrime DEF CheckoutConfirmed
<1> QED BY <1>1, <1>2, <1>3, <1>4, <1>5, <1>6, <1>7 DEF CheckoutStep

LEMMA ConfirmerTyping ==
    ASSUME TypeInv, NEW c \in Confirmers, ConfirmerStep(c)
    PROVE  TypeInv'
<1> USE DEF StoreTypeOK, ProcessTypeOK, BusyHandlers, Status, ConfirmerPC,
            handlerVars, storeVars, CGoto, NextRow, MoveIfPossible
<1>0. FacilitatorTypeOK /\ StoreTypeOK /\ ProcessTypeOK /\ BusyHandlers
  BY TypeParts
<1>1. CASE ConfirmerTick(c)
  BY <1>0, <1>1, FacilitatorFrame, TypePartsPrime DEF ConfirmerTick, Broadcasting
<1>2. ASSUME NEW o \in Orders, ConfirmerPoll(c, o) PROVE TypeInv'
  <2>1. todo' \in [Confirmers -> SUBSET Orders] /\ UNCHANGED <<facilitatorVars, storeVars, handlerVars>>
    BY <1>0, <1>2 DEF ConfirmerPoll
  <2>2. cpc' \in [Confirmers -> ConfirmerPC] /\ cur' \in [Confirmers -> Orders \cup {NoOrder}]
    <3>1. PICK answer \in TxStatusAnswers(txHash[o]) :
            \/ /\ answer \in {"error", "pending"}
               /\ cpc' = [cpc EXCEPT ![c] = IF todo'[c] = {} THEN "idle" ELSE "polling"]
               /\ UNCHANGED cur
            \/ /\ answer \in {"confirmed", "failed"}
               /\ cpc' = [cpc EXCEPT ![c] = IF answer = "failed" THEN "failing" ELSE "confirming"]
               /\ cur' = [cur EXCEPT ![c] = o]
      BY <1>2 DEF ConfirmerPoll
    <3>2. \E l \in ConfirmerPC : cpc' = [cpc EXCEPT ![c] = l]
      BY <3>1
    <3>3. cur' = cur \/ cur' = [cur EXCEPT ![c] = o]
      BY <3>1
    <3>4. cpc' \in [Confirmers -> ConfirmerPC]
      BY <1>0, <3>2
    <3>5. cur' \in [Confirmers -> Orders \cup {NoOrder}]
      BY <1>0, <3>3
    <3> QED BY <3>4, <3>5
  <2> QED BY <1>0, <2>1, <2>2, FacilitatorFrame, TypePartsPrime
<1>3. CASE ConfirmerFail(c)
  BY <1>0, <1>3, FacilitatorFrame, TypePartsPrime DEF ConfirmerFail
<1>4. CASE ConfirmerConfirm(c)
  BY <1>0, <1>4, FacilitatorFrame, TypePartsPrime DEF ConfirmerConfirm
<1>5. CASE ConfirmerCredit(c)
  <2>1. cur[c] \in Orders => credits[cur[c]] + 1 \in Nat
    BY <1>0
  <2>2. credits' \in [Orders -> Nat]
    BY <1>0, <1>5, <2>1 DEF ConfirmerCredit
  <2> QED BY <1>0, <1>5, <2>2, FacilitatorFrame, TypePartsPrime DEF ConfirmerCredit
<1>6. CASE ConfirmerCreditFailed(c)
  BY <1>0, <1>6, FacilitatorFrame, TypePartsPrime DEF ConfirmerCreditFailed
<1>7. CASE ConfirmerCredited(c)
  BY <1>0, <1>7, FacilitatorFrame, TypePartsPrime DEF ConfirmerCredited
<1>8. CASE ConfirmerEnqueue(c)
  <2>1. ASSUME NEW o, NEW e \in EventType, Enqueue(o, e)
        PROVE  events' \in [Orders -> [EventType -> Nat]]
    <3>1. events \in [Orders -> [EventType -> Nat]]
      BY <1>0
    <3> DEFINE row == [events[o] EXCEPT ![e] = @ + 1]
    <3>2. o \in Orders => row \in [EventType -> Nat]
      BY <3>1
    <3>3. \/ events' = events
          \/ events' = [events EXCEPT ![o] = row]
      BY <2>1 DEF Enqueue
    <3> HIDE DEF row
    <3> QED BY <3>1, <3>2, <3>3
  <2>2. events' \in [Orders -> [EventType -> Nat]]
    BY <1>8, <2>1 DEF ConfirmerEnqueue, EventType
  <2> QED BY <1>0, <1>8, <2>2, FacilitatorFrame, TypePartsPrime DEF ConfirmerEnqueue
<1> QED BY <1>1, <1>2, <1>3, <1>4, <1>5, <1>6, <1>7, <1>8 DEF ConfirmerStep

LEMMA RequestTyping ==
    ASSUME TypeInv, Request
    PROVE  TypeInv'
<1> USE DEF StoreTypeOK, ProcessTypeOK, BusyHandlers, Status, SubmitPC, CheckoutPC,
            confirmerVars, handlerVars, storeVars, Start, SetStatus
<1>0. FacilitatorTypeOK /\ StoreTypeOK /\ ProcessTypeOK /\ BusyHandlers
  BY TypeParts
<1>1. ASSUME NEW o \in Orders, CreatePayment(o) PROVE TypeInv'
  BY <1>0, <1>1, FacilitatorFrame, TypePartsPrime DEF CreatePayment
<1>2. ASSUME NEW h \in Handlers, NEW o \in Orders, NEW tx \in Txs, SubmitRead(h, o, tx)
      PROVE  TypeInv'
  BY <1>0, <1>2, FacilitatorFrame, TypePartsPrime DEF SubmitRead
<1>3. ASSUME NEW h \in Handlers, NEW o \in Orders, NEW tx \in Txs, CheckoutRead(h, o, tx)
      PROVE  TypeInv'
  BY <1>0, <1>3, FacilitatorFrame, TypePartsPrime DEF CheckoutRead
<1> QED BY <1>1, <1>2, <1>3 DEF Request

LEMMA TypeStep == TypeInv /\ [PaymentNext]_vars => TypeInv'
<1> SUFFICES ASSUME TypeInv, [PaymentNext]_vars PROVE TypeInv'
  OBVIOUS
<1> USE DEF StoreTypeOK, ProcessTypeOK, BusyHandlers, storeVars, handlerVars, confirmerVars
<1>0. FacilitatorTypeOK /\ StoreTypeOK /\ ProcessTypeOK /\ BusyHandlers
  BY TypeParts
<1>1. CASE Request
  BY <1>1, RequestTyping
<1>2. ASSUME NEW o \in Orders, DeadlinePasses(o) PROVE TypeInv'
  BY <1>0, <1>2, FacilitatorFrame, TypePartsPrime DEF DeadlinePasses
<1>3. ASSUME NEW h \in Handlers, HandlerStep(h) PROVE TypeInv'
  BY <1>3, SubmitTyping, SettleTyping, CheckoutTyping DEF HandlerStep
<1>4. ASSUME NEW c \in Confirmers, ConfirmerStep(c) PROVE TypeInv'
  BY <1>4, ConfirmerTyping
<1>5. CASE Environment
  BY <1>0, <1>5, FacilitatorTyping, TypePartsPrime DEF Environment
<1>6. CASE Crash
  BY <1>0, <1>6, FacilitatorFrame, TypePartsPrime DEF Crash, ConfirmerPC
<1>7. CASE UNCHANGED vars
  BY <1>0, <1>7, FacilitatorFrame, TypePartsPrime DEF vars
<1> QED BY <1>1, <1>2, <1>3, <1>4, <1>5, <1>6, <1>7 DEF PaymentNext

THEOREM TypeInvariance == PaymentSpec => []TypeInv
BY TypeInit, TypeStep, PTL DEF PaymentSpec

(* Type correctness of the gateway and of the facilitator tasks it starts: *)
(* whatever the requests, replicas, crashes and the cluster do, every row  *)
(* keeps a status of the table and every task its number of polls.         *)
THEOREM TypeCorrect == PaymentSpec => []PaymentTypeOK
BY TypeInvariance, PTL DEF TypeInv

------------------------------------------------------------------------------
(* Crediting.  The confirmer that credits an order is the only one, and    *)
(* the order stays confirmed under it: the row lock of the transition to   *)
(* confirmed elects it, and no edge but its own leaves confirmed.          *)

Final == {"confirmed", "token_credited"}

Crediting(c) == cpc[c] \in {"crediting", "crediting_done"}

CrediterOwnsOrder ==
    \A c \in Confirmers : Crediting(c) =>
        /\ cur[c] \in TopUps
        /\ status[cur[c]] = "confirmed"
        /\ credits[cur[c]] = IF cpc[c] = "crediting" THEN 0 ELSE 1

OneCrediter ==
    \A c, d \in Confirmers : Crediting(c) /\ Crediting(d) /\ cur[c] = cur[d] => c = d

CreditInv == CreditedOnce /\ CreditedMeansCredited /\ CrediterOwnsOrder /\ OneCrediter

LEMMA CreditInit == PaymentInit => CreditInv
BY DEF PaymentInit, CreditInv, CreditedOnce, CreditedMeansCredited, CrediterOwnsOrder,
       OneCrediter, Crediting

(* What leaves final orders alone, credits nothing and starts no crediting *)
(* keeps the invariant.                                                    *)
FinalKept ==
    \A o \in Orders : /\ status[o] \in Final => status'[o] = status[o]
                      /\ status'[o] = "token_credited" => status[o] = "token_credited"

NoneStarts ==
    \A c \in Confirmers : Crediting(c)' => cpc'[c] = cpc[c] /\ cur'[c] = cur[c]

LEMMA CreditFrame ==
    ASSUME TypeInv, CreditInv, FinalKept, NoneStarts, UNCHANGED credits
    PROVE  CreditInv'
<1> USE DEF Final, Crediting
<1>1. CreditedOnce'
  BY DEF CreditInv, CreditedOnce, FinalKept, TypeInv, PaymentTypeOK
<1>2. CreditedMeansCredited'
  BY DEF CreditInv, CreditedMeansCredited, FinalKept
<1>3. CrediterOwnsOrder'
  BY PaymentAssumption DEF CreditInv, CrediterOwnsOrder, FinalKept, NoneStarts
<1>4. OneCrediter'
  BY DEF CreditInv, OneCrediter, NoneStarts
<1> QED BY <1>1, <1>2, <1>3, <1>4 DEF CreditInv

(* Requests, handlers, the clock, the facilitator and crashes.             *)
LEMMA RequestKeepsFinal ==
    ASSUME TypeInv, Request
    PROVE  FinalKept /\ NoneStarts /\ UNCHANGED credits
<1> USE DEF TypeInv, PaymentTypeOK, FinalKept, NoneStarts, Final, Crediting, confirmerVars,
            storeVars, SetStatus
<1>1. ASSUME NEW o \in Orders, CreatePayment(o) PROVE FinalKept /\ NoneStarts /\ UNCHANGED credits
  BY <1>1 DEF CreatePayment
<1>2. ASSUME NEW h \in Handlers, NEW o \in Orders, NEW tx \in Txs, SubmitRead(h, o, tx)
      PROVE  FinalKept /\ NoneStarts /\ UNCHANGED credits
  BY <1>2 DEF SubmitRead
<1>3. ASSUME NEW h \in Handlers, NEW o \in Orders, NEW tx \in Txs, CheckoutRead(h, o, tx)
      PROVE  FinalKept /\ NoneStarts /\ UNCHANGED credits
  BY <1>3 DEF CheckoutRead
<1> QED BY <1>1, <1>2, <1>3 DEF Request

LEMMA HandlerKeepsFinal ==
    ASSUME TypeInv, NEW h \in Handlers, HandlerStep(h)
    PROVE  FinalKept /\ NoneStarts /\ UNCHANGED credits
<1> USE DEF TypeInv, PaymentTypeOK, FinalKept, NoneStarts, Final, Crediting, confirmerVars,
            storeVars, SetStatus, MoveIfPossible, CanMove
<1>1. CASE SubmitStep(h)
  BY <1>1 DEF SubmitStep, SubmitInvalid, SubmitAccept, SubmitConflict, SubmitFailed,
              SubmitBroadcasting
<1>2. CASE SettleStep(h)
  BY <1>2 DEF SettleStep, SettleCall, SettleUnreachable, SettleSucceeded, SettleRefused, SettleRefusedAtLength,
              SettleTimeout, ReplyLost
<1>3. CASE CheckoutStep(h)
  BY <1>3 DEF CheckoutStep, CheckoutExpired, CheckoutReplay, CheckoutFresh, CheckoutDuplicate,
              CheckoutInvalid, CheckoutProved, CheckoutConfirmed
<1> QED BY <1>1, <1>2, <1>3 DEF HandlerStep

(* The confirmer, one action at a time.                                    *)
LEMMA ConfirmerCrediting ==
    ASSUME TypeInv, CreditInv, NEW c \in Confirmers, ConfirmerStep(c)
    PROVE  CreditInv'
<1> USE DEF Final, Crediting, MoveIfPossible, CanMove, CGoto, NextRow, storeVars
<1>0. /\ status \in [Orders -> Status \cup {"absent"}] /\ credits \in [Orders -> Nat]
      /\ cpc \in [Confirmers -> ConfirmerPC] /\ cur \in [Confirmers -> Orders \cup {NoOrder}]
  BY DEF TypeInv, PaymentTypeOK
<1> USE PaymentAssumption
<1>1. CASE ConfirmerTick(c)
  BY <1>0, <1>1, CreditFrame DEF ConfirmerTick, FinalKept, NoneStarts
<1>2. ASSUME NEW o \in Orders, ConfirmerPoll(c, o) PROVE CreditInv'
  <2>1. UNCHANGED storeVars
    BY <1>2 DEF ConfirmerPoll
  <2>2. NoneStarts
    <3>1. PICK answer \in TxStatusAnswers(txHash[o]) :
            \/ /\ answer \in {"error", "pending"}
               /\ cpc' = [cpc EXCEPT ![c] = IF todo'[c] = {} THEN "idle" ELSE "polling"]
               /\ UNCHANGED cur
            \/ /\ answer \in {"confirmed", "failed"}
               /\ cpc' = [cpc EXCEPT ![c] = IF answer = "failed" THEN "failing" ELSE "confirming"]
               /\ cur' = [cur EXCEPT ![c] = o]
      BY <1>2 DEF ConfirmerPoll
    <3> QED BY <1>0, <3>1 DEF NoneStarts
  <2> QED BY <2>1, <2>2, CreditFrame DEF FinalKept
<1>3. CASE ConfirmerFail(c)
  BY <1>0, <1>3, CreditFrame DEF ConfirmerFail, FinalKept, NoneStarts
<1>4. CASE ConfirmerConfirm(c)
  <2>1. CASE status[cur[c]] = "broadcasting" /\ cur[c] \in TopUps
    <3>1. credits[cur[c]] = 0
      BY <1>0, <2>1 DEF CreditInv, CreditedOnce
    <3>2. /\ status' = [status EXCEPT ![cur[c]] = "confirmed"]
          /\ cpc' = [cpc EXCEPT ![c] = "crediting"]
          /\ UNCHANGED <<cur, credits>>
      BY <1>4, <2>1 DEF ConfirmerConfirm, Edges
    <3>3. \A d \in Confirmers : Crediting(d) => cur[d] # cur[c]
      BY <2>1 DEF CreditInv, CrediterOwnsOrder
    <3>4. CreditedOnce' /\ CreditedMeansCredited'
      BY <1>0, <3>2 DEF CreditInv, CreditedOnce, CreditedMeansCredited
    <3>5. CrediterOwnsOrder'
      BY <1>0, <2>1, <3>1, <3>2, <3>3 DEF CreditInv, CrediterOwnsOrder
    <3>6. OneCrediter'
      BY <1>0, <3>2, <3>3 DEF CreditInv, OneCrediter
    <3> QED BY <3>4, <3>5, <3>6 DEF CreditInv
  <2>2. CASE ~(status[cur[c]] = "broadcasting" /\ cur[c] \in TopUps)
    <3>1. FinalKept /\ UNCHANGED credits
      BY <1>0, <1>4 DEF ConfirmerConfirm, FinalKept
    <3>2. NoneStarts
      BY <1>0, <1>4, <2>2 DEF ConfirmerConfirm, NoneStarts, Edges
    <3> QED BY <3>1, <3>2, CreditFrame
  <2> QED BY <2>1, <2>2
<1>5. CASE ConfirmerCredit(c)
  <2>1. /\ cur[c] \in TopUps /\ status[cur[c]] = "confirmed" /\ credits[cur[c]] = 0
        /\ UNCHANGED status
        /\ credits' = [credits EXCEPT ![cur[c]] = 1]
    <3>1. cur[c] \in TopUps /\ status[cur[c]] = "confirmed" /\ credits[cur[c]] = 0
      BY <1>5 DEF ConfirmerCredit, CreditInv, CrediterOwnsOrder
    <3>2. credits' = [credits EXCEPT ![cur[c]] = credits[cur[c]] + 1] /\ UNCHANGED status
      BY <1>5 DEF ConfirmerCredit
    <3> QED BY <3>1, <3>2
  <2>2. \A d \in Confirmers \ {c} : Crediting(d) => cur[d] # cur[c]
    BY <1>5 DEF ConfirmerCredit, CreditInv, OneCrediter
  <2>3. /\ \A d \in Confirmers \ {c} : cpc'[d] = cpc[d] /\ cur'[d] = cur[d]
        /\ Crediting(c)' => cpc'[c] = "crediting_done" /\ cur'[c] = cur[c]
    BY <1>0, <1>5 DEF ConfirmerCredit
  <2>4. CreditedOnce' /\ CreditedMeansCredited'
    BY <1>0, <2>1 DEF CreditInv, CreditedOnce, CreditedMeansCredited
  <2>5. CrediterOwnsOrder'
    BY <1>0, <2>1, <2>2, <2>3 DEF CreditInv, CrediterOwnsOrder
  <2>6. OneCrediter'
    BY <2>2, <2>3 DEF CreditInv, OneCrediter
  <2> QED BY <2>4, <2>5, <2>6 DEF CreditInv
<1>6. CASE ConfirmerCreditFailed(c)
  BY <1>0, <1>6, CreditFrame DEF ConfirmerCreditFailed, FinalKept, NoneStarts
<1>7. CASE ConfirmerCredited(c)
  <2>1. /\ cur[c] \in TopUps /\ status[cur[c]] = "confirmed" /\ credits[cur[c]] = 1
    BY <1>0, <1>7 DEF ConfirmerCredited, CreditInv, CrediterOwnsOrder
  <2>2. /\ status' = [status EXCEPT ![cur[c]] = "token_credited"]
        /\ cpc' = [cpc EXCEPT ![c] = "event_credited"]
        /\ UNCHANGED <<cur, credits>>
    BY <1>7, <2>1 DEF ConfirmerCredited, Edges
  <2>3. \A d \in Confirmers \ {c} : Crediting(d) => cur[d] # cur[c]
    BY <1>7 DEF ConfirmerCredited, CreditInv, OneCrediter
  <2>4. CreditedOnce' /\ CreditedMeansCredited'
    BY <1>0, <2>1, <2>2 DEF CreditInv, CreditedOnce, CreditedMeansCredited
  <2>5. CrediterOwnsOrder'
    BY <1>0, <2>2, <2>3 DEF CreditInv, CrediterOwnsOrder
  <2>6. OneCrediter'
    BY <1>0, <2>2 DEF CreditInv, OneCrediter
  <2> QED BY <2>4, <2>5, <2>6 DEF CreditInv
<1>8. CASE ConfirmerEnqueue(c)
  BY <1>0, <1>8, CreditFrame DEF ConfirmerEnqueue, FinalKept, NoneStarts
<1> QED BY <1>1, <1>2, <1>3, <1>4, <1>5, <1>6, <1>7, <1>8 DEF ConfirmerStep

LEMMA CreditStep == TypeInv /\ CreditInv /\ [PaymentNext]_vars => CreditInv'
<1> SUFFICES ASSUME TypeInv, CreditInv, [PaymentNext]_vars PROVE CreditInv'
  OBVIOUS
<1> USE DEF FinalKept, NoneStarts, Crediting, storeVars, confirmerVars
<1>1. CASE Request
  BY <1>1, RequestKeepsFinal, CreditFrame
<1>2. ASSUME NEW o \in Orders, DeadlinePasses(o) PROVE CreditInv'
  BY <1>2, CreditFrame DEF DeadlinePasses
<1>3. ASSUME NEW h \in Handlers, HandlerStep(h) PROVE CreditInv'
  BY <1>3, HandlerKeepsFinal, CreditFrame
<1>4. ASSUME NEW c \in Confirmers, ConfirmerStep(c) PROVE CreditInv'
  BY <1>4, ConfirmerCrediting
<1>5. CASE Environment
  BY <1>5, CreditFrame DEF Environment
<1>6. CASE Crash
  BY <1>6, CreditFrame DEF Crash
<1>7. CASE UNCHANGED vars
  BY <1>7, CreditFrame DEF vars
<1> QED BY <1>1, <1>2, <1>3, <1>4, <1>5, <1>6, <1>7 DEF PaymentNext

THEOREM CreditInvariance == PaymentSpec => []CreditInv
BY TypeInvariance, CreditInit, CreditStep, PTL DEF PaymentSpec

(* token-api executes at most one credit for an order, only for a top-up,  *)
(* and only once the order is confirmed: for every number of gateway       *)
(* replicas, every batch size and every crash.                             *)
THEOREM CreditedAtMostOnce == PaymentSpec => []CreditedOnce
BY CreditInvariance, PTL DEF CreditInv

(* token_credited is never a lie: the credit was executed and acknowledged *)
(* before the order took that status.                                      *)
THEOREM CreditedIsTrue == PaymentSpec => []CreditedMeansCredited
BY CreditInvariance, PTL DEF CreditInv

------------------------------------------------------------------------------
(* The facilitator answers success only for an executed transaction.       *)
(* Executed is stable, and a slot that starts a new call has no answer.    *)

FreshSlots == \A c \in Calls : reply[c] # "none" => phase[c] = "replied"

AskedTyped == \A c \in Calls : phase[c] # "idle" => asked[c] \in Txs

SuccessInv == FreshSlots /\ AskedTyped /\ SuccessMeansLanded

ExecutedStable == \A tx \in Txs : Executed(tx) => Executed(tx)'

(* A task keeps its transaction, and no transaction but its own is sent. *)
TaskKeeps ==
    \A c \in Calls :
        /\ phase[c] # "idle" <=> phase'[c] # "idle"
        /\ asked'[c] = asked[c]

SentByTasks ==
    \A tx \in Txs : chain'[tx] # "unseen" =>
        chain[tx] # "unseen" \/ \E c \in Calls : phase[c] # "idle" /\ asked[c] = tx

TasksBehave == SuccessInv' /\ ExecutedStable /\ TaskKeeps /\ SentByTasks

LEMMA SuccessInit == PaymentInit => SuccessInv
BY DEF PaymentInit, FacilitatorInit, SuccessInv, FreshSlots, AskedTyped, SuccessMeansLanded

LEMMA SuccessFrame ==
    ASSUME SuccessInv, UNCHANGED facilitatorVars
    PROVE  TasksBehave
BY DEF SuccessInv, FreshSlots, AskedTyped, SuccessMeansLanded, ExecutedStable, Executed,
       TaskKeeps, SentByTasks, TasksBehave, facilitatorVars

(* A step of the chain, or a step of a task that changes no answer. *)
LEMMA ChainSuccess ==
    ASSUME FacilitatorTypeOK, SuccessInv, FacilitatorTypeOK', ExecutedStable,
           TaskKeeps, FreshSlots',
           \A c \in Calls : reply'[c] = "success" => reply[c] = "success" \/ Executed(asked[c])
    PROVE  SuccessInv'
<1>1. AskedTyped'
  BY DEF SuccessInv, AskedTyped, TaskKeeps
<1>2. ASSUME NEW c \in Calls, reply'[c] = "success" PROVE Executed(asked[c])'
  <2>1. Executed(asked[c])
    BY <1>2 DEF SuccessInv, SuccessMeansLanded
  <2>2. asked[c] \in Txs
    BY <1>2, <1>1 DEF SuccessInv, FreshSlots, AskedTyped, TaskKeeps
  <2>3. Executed(asked[c])'
    BY <2>1, <2>2 DEF ExecutedStable, Executed, TaskKeeps
  <2> QED BY <2>3
<1> QED BY <1>1, <1>2 DEF SuccessInv, SuccessMeansLanded, Executed

LEMMA SubmittedStable ==
    ASSUME FacilitatorTypeOK, NEW t \in Txs, Submitted(t)
    PROVE  /\ ExecutedStable
           /\ \A tx \in Txs : chain'[tx] # "unseen" => chain[tx] # "unseen" \/ tx = t
BY DEF FacilitatorTypeOK, ChainTypeOK, Submitted, ExecutedStable, Executed

LEMMA TaskSuccess ==
    ASSUME FacilitatorTypeOK, FacilitatorTypeOK', SuccessInv, NEW c \in Calls, TaskStep(c)
    PROVE  TasksBehave
<1>0. phase[c] # "idle"
  BY DEF TaskStep, TaskProgress, Admit, Broadcast, BroadcastRejected, Poll, GiveUp, Abort
<1>1. asked[c] \in Txs
  BY <1>0 DEF SuccessInv, AskedTyped
<1>2. FreshSlots' /\ TaskKeeps
  BY DEF SuccessInv, FreshSlots, TaskKeeps, FacilitatorTypeOK, TaskStep, TaskProgress, Answer,
         Admit, Broadcast, BroadcastRejected, Poll, GiveUp, Abort
<1>3. chain' = chain \/ Submitted(asked[c])
  BY DEF TaskStep, TaskProgress, Admit, Broadcast, BroadcastRejected, Poll, GiveUp, Abort
<1>4. ExecutedStable /\ SentByTasks
  <2>1. CASE chain' = chain
    BY <2>1 DEF ExecutedStable, Executed, SentByTasks
  <2>2. CASE Submitted(asked[c])
    BY <1>0, <1>1, <2>2, SubmittedStable DEF SentByTasks
  <2> QED BY <1>3, <2>1, <2>2
<1>5. ASSUME NEW d \in Calls, reply'[d] = "success"
      PROVE  reply[d] = "success" \/ Executed(asked[d])
  BY <1>5 DEF FacilitatorTypeOK, TaskStep, TaskProgress, Answer, SignatureStatuses, Executed,
         Admit, Broadcast, BroadcastRejected, Poll, GiveUp, Abort
<1> QED BY <1>2, <1>4, <1>5, ChainSuccess DEF TasksBehave

LEMMA FacilitatorSuccess ==
    ASSUME FacilitatorTypeOK, SuccessInv, FacilitatorStep
    PROVE  TasksBehave
<1>0. FacilitatorTypeOK'
  BY FacilitatorTyping
<1>1. CASE ChainNext /\ UNCHANGED <<accepting, phase, asked, polls, reply>>
  <2>1. TaskKeeps /\ FreshSlots'
    BY <1>1 DEF TaskKeeps, SuccessInv, FreshSlots
  <2>2. PICK tx \in Txs : Land(tx) \/ ExecuteWithError(tx) \/ Drop(tx) \/ Revert(tx)
    BY <1>1 DEF ChainNext
  <2>3. ExecutedStable
    BY <2>2 DEF FacilitatorTypeOK, ChainTypeOK, ExecutedStable, Executed,
                Land, ExecuteWithError, Drop, Revert
  <2>4. SentByTasks
    BY <2>2 DEF FacilitatorTypeOK, ChainTypeOK, SentByTasks,
                Land, ExecuteWithError, Drop, Revert
  <2> QED BY <1>0, <1>1, <2>1, <2>3, <2>4, ChainSuccess DEF TasksBehave
<1>2. CASE SetAccepting
  BY <1>2 DEF SetAccepting, SuccessInv, FreshSlots, AskedTyped, SuccessMeansLanded,
              ExecutedStable, Executed, TaskKeeps, SentByTasks, TasksBehave
<1> QED BY <1>0, <1>1, <1>2, TaskSuccess DEF FacilitatorStep

(* A handler takes a free slot, or empties one. *)
LEMMA HandlerSuccess ==
    ASSUME TypeInv, SuccessInv, NEW h \in Handlers, HandlerStep(h)
    PROVE  SuccessInv' /\ UNCHANGED chain
<1> USE DEF SuccessInv, FreshSlots, AskedTyped, SuccessMeansLanded, Executed
<1>0. FacilitatorTypeOK
  BY TypeParts
<1>1. CASE UNCHANGED facilitatorVars
  BY <1>1 DEF facilitatorVars
<1>2. CASE SettleCall(h)
  <2>1. hTx[h] \in Txs
    BY <1>2 DEF SettleCall, TypeInv, BusyHandlers
  <2> QED BY <1>0, <1>2, <2>1 DEF SettleCall, Receive, FacilitatorTypeOK, Handlers
<1>3. CASE Release(h) /\ UNCHANGED <<chain, accepting>>
  BY <1>0, <1>3 DEF Release, FacilitatorTypeOK, Handlers
<1>4. \/ UNCHANGED facilitatorVars
      \/ SettleCall(h)
      \/ Release(h) /\ UNCHANGED <<chain, accepting>>
  <2>1. CASE SubmitStep(h)
    BY <2>1 DEF SubmitStep, SubmitInvalid, SubmitAccept, SubmitConflict, SubmitFailed,
                SubmitBroadcasting
  <2>2. CASE SettleStep(h)
    BY <2>2 DEF SettleStep, SettleUnreachable, SettleSucceeded, SettleRefused, SettleRefusedAtLength, SettleTimeout,
                ReplyLost
  <2>3. CASE CheckoutStep(h)
    BY <2>3 DEF CheckoutStep, CheckoutExpired, CheckoutReplay, CheckoutFresh, CheckoutDuplicate,
                CheckoutInvalid, CheckoutProved, CheckoutConfirmed
  <2> QED BY <2>1, <2>2, <2>3 DEF HandlerStep
<1> QED BY <1>1, <1>2, <1>3, <1>4

LEMMA QuietSteps ==
    ASSUME \/ Request \/ (\E o \in Orders : DeadlinePasses(o))
           \/ (\E c \in Confirmers : ConfirmerStep(c)) \/ Crash
    PROVE  UNCHANGED facilitatorVars
<1>1. ASSUME NEW c \in Confirmers, ConfirmerStep(c) PROVE UNCHANGED facilitatorVars
  BY <1>1 DEF ConfirmerStep, ConfirmerTick, ConfirmerPoll, ConfirmerFail, ConfirmerConfirm,
              ConfirmerCredit, ConfirmerCreditFailed, ConfirmerCredited, ConfirmerEnqueue
<1>2. Request => UNCHANGED facilitatorVars
  BY DEF Request, CreatePayment, SubmitRead, CheckoutRead
<1> QED BY <1>1, <1>2 DEF DeadlinePasses, Crash

LEMMA SuccessStep ==
    TypeInv /\ SuccessInv /\ [PaymentNext]_vars => SuccessInv' /\ ExecutedStable
<1> SUFFICES ASSUME TypeInv, SuccessInv, [PaymentNext]_vars PROVE SuccessInv' /\ ExecutedStable
  OBVIOUS
<1>1. CASE UNCHANGED facilitatorVars
  BY <1>1, SuccessFrame DEF TasksBehave
<1>2. ASSUME NEW h \in Handlers, HandlerStep(h) PROVE SuccessInv' /\ ExecutedStable
  BY <1>2, HandlerSuccess DEF ExecutedStable, Executed
<1>3. CASE Environment
  BY <1>3, FacilitatorSuccess, TypeParts DEF Environment, TasksBehave
<1> QED BY <1>1, <1>2, <1>3, QuietSteps DEF PaymentNext, vars

THEOREM SuccessInvariance == PaymentSpec => []SuccessInv
BY TypeInvariance, SuccessInit, SuccessStep, PTL DEF PaymentSpec

(* settle answers success only for a transaction the cluster has executed, *)
(* for every number of polls and of concurrent calls.                      *)
THEOREM SuccessIsTrue == PaymentSpec => []SuccessMeansLanded
BY SuccessInvariance, PTL DEF SuccessInv

------------------------------------------------------------------------------
(* A confirmed order is paid.  The request that will confirm it carries a  *)
(* transaction of the order; while it waits its slot works on that very    *)
(* transaction; once settled the cluster has executed it.                  *)

Proved == {"s_accepted", "s_waiting", "s_settled", "s_rejected",
           "c_proved", "c_waiting", "c_settled"}

ProvedPays == \A h \in Handlers : pc[h] \in Proved => PaysFor[hTx[h]] = hOrder[h]

WaitingForOwn ==
    \A h \in Handlers : pc[h] \in {"s_waiting", "c_waiting"} =>
        phase[h] # "idle" /\ asked[h] = hTx[h]

SettledLanded ==
    \A h \in Handlers : pc[h] \in {"s_settled", "c_settled"} => Executed(hTx[h])

WorkInv == ProvedPays /\ WaitingForOwn /\ SettledLanded

PaidInv == WorkInv /\ ConfirmedIsPaid

PaidStatus == {"broadcasting", "confirmed", "token_credited"}

LEMMA PaidInit == PaymentInit => PaidInv
BY DEF PaymentInit, PaidInv, WorkInv, ProvedPays, WaitingForOwn, SettledLanded, ConfirmedIsPaid,
       Proved

(* No hash is written and no order becomes paid. *)
LEMMA ConfirmedFrame ==
    ASSUME TypeInv, ConfirmedIsPaid, ExecutedStable, txHash' = txHash,
           \A o \in Orders : status'[o] \in PaidStatus => status[o] \in PaidStatus
    PROVE  ConfirmedIsPaid'
<1>1. txHash \in [Orders -> Txs \cup {NoTx}]
  BY DEF TypeInv, PaymentTypeOK
<1> QED BY <1>1 DEF ConfirmedIsPaid, Paid, ExecutedStable, Executed, PaidStatus

(* The handlers that are still proved work as before. *)
LEMMA WorkFrame ==
    ASSUME TypeInv, WorkInv, ExecutedStable, TaskKeeps,
           \A h \in Handlers : pc'[h] \in Proved =>
               pc'[h] = pc[h] /\ hTx'[h] = hTx[h] /\ hOrder'[h] = hOrder[h]
    PROVE  WorkInv'
<1>1. \A h \in Handlers : pc[h] \in Proved => hTx[h] \in Txs
  BY DEF TypeInv, BusyHandlers, Proved
<1> QED BY <1>1 DEF WorkInv, ProvedPays, WaitingForOwn, SettledLanded, ExecutedStable, Executed,
                    TaskKeeps, Proved, Handlers

LEMMA SubmitPaid ==
    ASSUME TypeInv, PaidInv, ExecutedStable, NEW h \in Handlers, SubmitStep(h)
    PROVE  PaidInv'
<1> USE DEF PaidInv
<1>0. StoreTypeOK /\ ProcessTypeOK /\ BusyHandlers
  BY TypeParts
<1>1. UNCHANGED facilitatorVars
  BY DEF SubmitStep, SubmitInvalid, SubmitAccept, SubmitConflict, SubmitFailed,
         SubmitBroadcasting
<1>2. TaskKeeps
  BY <1>1 DEF TaskKeeps, facilitatorVars
<1>3. CASE SubmitAccept(h)
  <2>1. WorkInv'
    BY <1>0, <1>1, <1>3 DEF SubmitAccept, Goto, WorkInv, ProvedPays, WaitingForOwn,
       SettledLanded, Executed, Proved, ProofValid, ProcessTypeOK, facilitatorVars
  <2>2. ConfirmedIsPaid'
    BY <1>0, <1>3, ConfirmedFrame DEF SubmitAccept, SetStatus, PaidStatus, StoreTypeOK
  <2> QED BY <2>1, <2>2
<1>4. CASE SubmitBroadcasting(h)
  <2>1. WorkInv'
    BY <1>0, <1>2, <1>4, WorkFrame DEF SubmitBroadcasting, Return, Proved, ProcessTypeOK
  <2>2. hOrder[h] \in Orders /\ hTx[h] \in Txs /\ hTx[h] # NoTx
    BY <1>0, <1>4, FacilitatorAssumption DEF SubmitBroadcasting, BusyHandlers
  <2>3. Executed(hTx[h]) /\ PaysFor[hTx[h]] = hOrder[h]
    BY <1>4 DEF SubmitBroadcasting, WorkInv, SettledLanded, ProvedPays, Proved
  <2>4. ASSUME NEW o \in Orders, status'[o] \in PaidStatus
        PROVE  Paid(o)' /\ PaysFor[txHash'[o]] = o
    <3>1. CASE status' = status /\ txHash' = txHash
      BY <1>1, <2>4, <3>1 DEF ConfirmedIsPaid, Paid, Executed, PaidStatus, facilitatorVars
    <3>2. CASE txHash' = [txHash EXCEPT ![hOrder[h]] = hTx[h]] /\ o = hOrder[h]
      BY <1>0, <1>1, <2>2, <2>3, <3>2 DEF Paid, Executed, StoreTypeOK, facilitatorVars
    <3>3. CASE txHash'[o] = txHash[o] /\ status'[o] = status[o]
      BY <1>1, <2>4, <3>3 DEF ConfirmedIsPaid, Paid, Executed, PaidStatus, facilitatorVars
    <3> QED BY <1>0, <1>4, <2>2, <3>1, <3>2, <3>3 DEF SubmitBroadcasting, StoreTypeOK
  <2>5. ConfirmedIsPaid'
    BY <2>4 DEF ConfirmedIsPaid, PaidStatus
  <2> QED BY <2>1, <2>5
<1>5. CASE SubmitInvalid(h) \/ SubmitConflict(h) \/ SubmitFailed(h)
  <2>1. WorkInv'
    BY <1>0, <1>2, <1>5, WorkFrame
       DEF SubmitInvalid, SubmitConflict, SubmitFailed, Return, Proved, ProcessTypeOK
  <2>2. ConfirmedIsPaid'
    BY <1>0, <1>5, ConfirmedFrame
       DEF SubmitInvalid, SubmitConflict, SubmitFailed, MoveIfPossible, PaidStatus, StoreTypeOK,
           storeVars
  <2> QED BY <2>1, <2>2
<1> QED BY <1>3, <1>4, <1>5 DEF SubmitStep

LEMMA SettlePaid ==
    ASSUME TypeInv, SuccessInv, PaidInv, ExecutedStable, NEW h \in Handlers, SettleStep(h)
    PROVE  PaidInv'
<1> USE DEF PaidInv
<1>0. FacilitatorTypeOK /\ ProcessTypeOK /\ BusyHandlers
  BY TypeParts
<1>1. UNCHANGED storeVars /\ chain' = chain
  BY DEF SettleStep, SettleCall, SettleUnreachable, SettleSucceeded, SettleRefused, SettleRefusedAtLength,
         SettleTimeout, ReplyLost, facilitatorVars
<1>2. ConfirmedIsPaid'
  BY <1>1, ConfirmedFrame DEF storeVars
<1> USE DEF WorkInv, ProvedPays, WaitingForOwn, SettledLanded, Executed, Proved, Handlers,
            FacilitatorTypeOK, ProcessTypeOK, Goto, Return
<1>3. CASE SettleCall(h)
  BY <1>0, <1>1, <1>2, <1>3 DEF SettleCall, Receive
<1>4. CASE SettleUnreachable(h)
  BY <1>0, <1>1, <1>2, <1>4 DEF SettleUnreachable, facilitatorVars
<1>5. CASE SettleSucceeded(h)
  <2>1. Executed(hTx[h])
    BY <1>0, <1>5 DEF SettleSucceeded, SuccessInv, SuccessMeansLanded
  <2> QED BY <1>0, <1>1, <1>2, <1>5, <2>1 DEF SettleSucceeded, Release
<1>6. CASE SettleRefused(h) \/ SettleRefusedAtLength(h)
  BY <1>0, <1>1, <1>2, <1>6 DEF SettleRefused, SettleRefusedAtLength, Release, AfterRefusal
<1>7. CASE SettleTimeout(h)
  BY <1>0, <1>1, <1>2, <1>7 DEF SettleTimeout, AfterRefusal, facilitatorVars
<1>8. CASE ReplyLost(h)
  BY <1>0, <1>1, <1>2, <1>8 DEF ReplyLost, Release, handlerVars
<1> QED BY <1>3, <1>4, <1>5, <1>6, <1>7, <1>8 DEF SettleStep

LEMMA CheckoutPaid ==
    ASSUME TypeInv, PaidInv, ExecutedStable, NEW h \in Handlers, CheckoutStep(h)
    PROVE  PaidInv'
<1> USE DEF PaidInv
<1>0. StoreTypeOK /\ ProcessTypeOK /\ BusyHandlers
  BY TypeParts
<1>1. UNCHANGED facilitatorVars
  BY DEF CheckoutStep, CheckoutExpired, CheckoutReplay, CheckoutFresh, CheckoutDuplicate,
         CheckoutInvalid, CheckoutProved, CheckoutConfirmed
<1>2. TaskKeeps
  BY <1>1 DEF TaskKeeps, facilitatorVars
<1>3. CASE CheckoutProved(h)
  <2>1. WorkInv'
    BY <1>0, <1>1, <1>3 DEF CheckoutProved, Goto, WorkInv, ProvedPays, WaitingForOwn,
       SettledLanded, Executed, Proved, ProofValid, ProcessTypeOK, facilitatorVars
  <2>2. ConfirmedIsPaid'
    BY <1>3, ConfirmedFrame DEF CheckoutProved
  <2> QED BY <2>1, <2>2
<1>4. CASE CheckoutConfirmed(h)
  <2>1. WorkInv'
    BY <1>0, <1>2, <1>4, WorkFrame DEF CheckoutConfirmed, Return, Proved, ProcessTypeOK
  <2>2. hOrder[h] \in Orders /\ hTx[h] \in Txs /\ hTx[h] # NoTx
    BY <1>0, <1>4, FacilitatorAssumption DEF CheckoutConfirmed, BusyHandlers
  <2>3. Executed(hTx[h]) /\ PaysFor[hTx[h]] = hOrder[h]
    BY <1>4 DEF CheckoutConfirmed, WorkInv, SettledLanded, ProvedPays, Proved
  <2>4. ASSUME NEW o \in Orders, status'[o] \in PaidStatus
        PROVE  Paid(o)' /\ PaysFor[txHash'[o]] = o
    <3>1. CASE status' = status /\ txHash' = txHash
      BY <1>1, <2>4, <3>1 DEF ConfirmedIsPaid, Paid, Executed, PaidStatus, facilitatorVars
    <3>2. CASE txHash' = [txHash EXCEPT ![hOrder[h]] = hTx[h]] /\ o = hOrder[h]
      BY <1>0, <1>1, <2>2, <2>3, <3>2 DEF Paid, Executed, StoreTypeOK, facilitatorVars
    <3>3. CASE txHash'[o] = txHash[o] /\ status'[o] = status[o]
      BY <1>1, <2>4, <3>3 DEF ConfirmedIsPaid, Paid, Executed, PaidStatus, facilitatorVars
    <3> QED BY <1>0, <1>4, <2>2, <3>1, <3>2, <3>3 DEF CheckoutConfirmed, StoreTypeOK
  <2>5. ConfirmedIsPaid'
    BY <2>4 DEF ConfirmedIsPaid, PaidStatus
  <2> QED BY <2>1, <2>5
<1>5. CASE \/ CheckoutExpired(h) \/ CheckoutReplay(h) \/ CheckoutFresh(h)
           \/ CheckoutDuplicate(h) \/ CheckoutInvalid(h)
  <2>1. WorkInv'
    BY <1>0, <1>2, <1>5, WorkFrame
       DEF CheckoutExpired, CheckoutReplay, CheckoutFresh, CheckoutDuplicate, CheckoutInvalid,
           Goto, Return, Proved, ProcessTypeOK
  <2>2. ConfirmedIsPaid'
    BY <1>0, <1>5, ConfirmedFrame
       DEF CheckoutExpired, CheckoutReplay, CheckoutFresh, CheckoutDuplicate, CheckoutInvalid,
           MoveIfPossible, PaidStatus, StoreTypeOK, storeVars
  <2> QED BY <2>1, <2>2
<1> QED BY <1>3, <1>4, <1>5 DEF CheckoutStep

(* The confirmer moves an order that is already paid, or fails it. *)
LEMMA ConfirmerPaid ==
    ASSUME TypeInv, PaidInv, ExecutedStable, NEW c \in Confirmers, ConfirmerStep(c)
    PROVE  PaidInv'
<1> USE DEF PaidInv
<1>0. StoreTypeOK
  BY TypeParts
<1>1. UNCHANGED <<facilitatorVars, handlerVars, txHash>>
  BY DEF ConfirmerStep, ConfirmerTick, ConfirmerPoll, ConfirmerFail, ConfirmerConfirm,
         ConfirmerCredit, ConfirmerCreditFailed, ConfirmerCredited, ConfirmerEnqueue, storeVars
<1>2. WorkInv'
  BY <1>1, WorkFrame DEF TaskKeeps, facilitatorVars, handlerVars
<1>3. \A o \in Orders : status'[o] \in PaidStatus => status[o] \in PaidStatus
  BY <1>0 DEF ConfirmerStep, ConfirmerTick, ConfirmerPoll, ConfirmerFail, ConfirmerConfirm,
         ConfirmerCredit, ConfirmerCreditFailed, ConfirmerCredited, ConfirmerEnqueue, storeVars,
         MoveIfPossible, CanMove, PaidStatus, StoreTypeOK
<1> QED BY <1>1, <1>2, <1>3, ConfirmedFrame

LEMMA RequestPaid ==
    ASSUME TypeInv, PaidInv, ExecutedStable, Request
    PROVE  PaidInv'
<1> USE DEF PaidInv
<1>0. StoreTypeOK /\ ProcessTypeOK
  BY TypeParts
<1>1. UNCHANGED <<facilitatorVars, txHash>>
  BY DEF Request, CreatePayment, SubmitRead, CheckoutRead, storeVars
<1>2. \A h \in Handlers : pc'[h] \in Proved =>
          pc'[h] = pc[h] /\ hTx'[h] = hTx[h] /\ hOrder'[h] = hOrder[h]
  BY <1>0 DEF Request, CreatePayment, SubmitRead, CheckoutRead, Start, Proved, handlerVars,
         ProcessTypeOK
<1>3. WorkInv'
  BY <1>1, <1>2, WorkFrame DEF TaskKeeps, facilitatorVars
<1>4. \A o \in Orders : status'[o] \in PaidStatus => status[o] \in PaidStatus
  BY <1>0 DEF Request, CreatePayment, SubmitRead, CheckoutRead, SetStatus, PaidStatus,
         storeVars, StoreTypeOK
<1> QED BY <1>1, <1>3, <1>4, ConfirmedFrame

LEMMA PaidStep ==
    TypeInv /\ SuccessInv /\ PaidInv /\ [PaymentNext]_vars => PaidInv'
<1> SUFFICES ASSUME TypeInv, SuccessInv, PaidInv, [PaymentNext]_vars PROVE PaidInv'
  OBVIOUS
<1>0. ExecutedStable
  BY SuccessStep
<1>1. CASE Environment
  <2>1. TaskKeeps
    BY <1>1, FacilitatorSuccess, TypeParts DEF Environment, TasksBehave
  <2>2. UNCHANGED <<storeVars, handlerVars>>
    BY <1>1 DEF Environment
  <2>3. WorkInv'
    BY <1>0, <2>1, <2>2, WorkFrame DEF PaidInv, handlerVars
  <2> QED BY <1>0, <2>2, <2>3, ConfirmedFrame DEF PaidInv, storeVars
<1>2. CASE Crash \/ \E o \in Orders : DeadlinePasses(o)
  <2>1. UNCHANGED <<facilitatorVars, status, txHash>>
    BY <1>2 DEF Crash, DeadlinePasses, storeVars
  <2>2. WorkInv'
    BY <1>0, <1>2, <2>1, WorkFrame
       DEF PaidInv, Crash, DeadlinePasses, Proved, TaskKeeps, facilitatorVars, handlerVars
  <2> QED BY <1>0, <2>1, <2>2, ConfirmedFrame DEF PaidInv
<1>3. CASE UNCHANGED vars
  <2>1. WorkInv'
    BY <1>0, <1>3, WorkFrame DEF PaidInv, vars, facilitatorVars, handlerVars, TaskKeeps
  <2> QED BY <1>0, <1>3, <2>1, ConfirmedFrame DEF PaidInv, vars, storeVars
<1> QED BY <1>0, <1>1, <1>2, <1>3, SubmitPaid, SettlePaid, CheckoutPaid, ConfirmerPaid,
           RequestPaid DEF PaymentNext, HandlerStep

THEOREM PaidInvariance == PaymentSpec => []PaidInv
BY TypeInvariance, SuccessInvariance, PaidInit, PaidStep, PTL DEF PaymentSpec

(* A broadcasting, confirmed or credited order has a transaction of its    *)
(* own that the cluster executed, whatever requests, time-outs and crashes *)
(* interleave.                                                             *)
THEOREM ConfirmedOrdersPaid == PaymentSpec => []ConfirmedIsPaid
BY PaidInvariance, PTL DEF PaidInv

------------------------------------------------------------------------------
(* At most one transaction of a top-up order reaches the cluster.  A       *)
(* transaction is touched when a node has it, a settle task works on it or *)
(* an accepted request is about to send it; the first touch takes the      *)
(* order out of created, which it never re-enters.                         *)

CheckoutOnly == \A h \in Handlers : pc[h] \in CheckoutPC => hOrder[h] \notin TopUps

Touched(tx) ==
    \/ chain[tx] # "unseen"
    \/ \E c \in Calls : phase[c] # "idle" /\ asked[c] = tx
    \/ \E h \in Handlers : pc[h] = "s_accepted" /\ hTx[h] = tx

Untaken == {"absent", "created"}

TouchedTaken ==
    \A tx \in Txs : PaysFor[tx] \in TopUps /\ Touched(tx) => status[PaysFor[tx]] \notin Untaken

TouchedOnce ==
    \A s, t \in Txs : /\ PaysFor[s] = PaysFor[t] /\ PaysFor[s] \in TopUps
                      /\ Touched(s) /\ Touched(t)
                      => s = t

OnceInv == CheckoutOnly /\ TouchedTaken /\ TouchedOnce

(* No transaction of a top-up is touched anew, no top-up is open again. *)
NoNewTouch == \A tx \in Txs : PaysFor[tx] \in TopUps /\ Touched(tx)' => Touched(tx)

StayTaken == \A o \in TopUps : status'[o] \in Untaken => status[o] \in Untaken

LEMMA OnceInit == PaymentInit => OnceInv
BY DEF PaymentInit, FacilitatorInit, ChainInit, OnceInv, CheckoutOnly, TouchedTaken, TouchedOnce,
       Touched, Handlers, CheckoutPC

LEMMA OnceFrame ==
    ASSUME OnceInv, CheckoutOnly', NoNewTouch, StayTaken
    PROVE  OnceInv'
<1>1. ASSUME NEW tx \in Txs, PaysFor[tx] \in TopUps, Touched(tx)'
      PROVE  status'[PaysFor[tx]] \notin Untaken
  BY <1>1 DEF OnceInv, TouchedTaken, NoNewTouch, StayTaken
<1>2. ASSUME NEW s \in Txs, NEW t \in Txs, PaysFor[s] = PaysFor[t], PaysFor[s] \in TopUps,
             Touched(s)', Touched(t)'
      PROVE  s = t
  BY <1>2 DEF OnceInv, TouchedOnce, NoNewTouch
<1> QED BY <1>1, <1>2 DEF OnceInv, TouchedTaken, TouchedOnce

(* A step that leaves the facilitator alone and accepts nothing. *)
LEMMA UntouchedFrame ==
    ASSUME UNCHANGED facilitatorVars,
           \A h \in Handlers : pc'[h] = "s_accepted" => pc[h] = "s_accepted" /\ hTx'[h] = hTx[h]
    PROVE  NoNewTouch
BY DEF NoNewTouch, Touched, facilitatorVars

LEMMA CheckoutOnlyFrame ==
    ASSUME CheckoutOnly,
           \A h \in Handlers : pc'[h] \in CheckoutPC =>
               pc[h] \in CheckoutPC /\ hOrder'[h] = hOrder[h]
    PROVE  CheckoutOnly'
BY DEF CheckoutOnly

(* The one step that touches a transaction: the order was created, so no   *)
(* other transaction of it is touched.                                     *)
LEMMA AcceptOnce ==
    ASSUME TypeInv, OnceInv, NEW h \in Handlers, SubmitAccept(h)
    PROVE  OnceInv'
<1>0. StoreTypeOK /\ ProcessTypeOK /\ BusyHandlers
  BY TypeParts
<1>1. /\ hOrder[h] \in Orders /\ hTx[h] \in Txs /\ PaysFor[hTx[h]] = hOrder[h]
      /\ status[hOrder[h]] = "created"
      /\ UNCHANGED facilitatorVars
      /\ status' = [status EXCEPT ![hOrder[h]] = "pending"]
      /\ pc[h] = "s_read" /\ pc' = [pc EXCEPT ![h] = "s_accepted"]
      /\ hOrder' = hOrder /\ hTx' = hTx
  BY <1>0 DEF SubmitAccept, BusyHandlers, ProofValid, CanMove, SetStatus, Goto
<1>2. CheckoutOnly'
  BY <1>0, <1>1 DEF OnceInv, CheckoutOnly, CheckoutPC, ProcessTypeOK
<1>3. ASSUME NEW tx \in Txs, Touched(tx)' PROVE Touched(tx) \/ tx = hTx[h]
  BY <1>0, <1>1, <1>3 DEF Touched, facilitatorVars, ProcessTypeOK
<1>4. ASSUME NEW tx \in Txs, PaysFor[tx] = hOrder[h], hOrder[h] \in TopUps PROVE ~Touched(tx)
  BY <1>1, <1>4 DEF OnceInv, TouchedTaken, Untaken
<1>5. TouchedTaken'
  <2> SUFFICES ASSUME NEW tx \in Txs, PaysFor[tx] \in TopUps, Touched(tx)'
               PROVE  status'[PaysFor[tx]] \notin Untaken
    BY DEF TouchedTaken
  <2>1. CASE tx = hTx[h]
    BY <1>0, <1>1, <2>1 DEF StoreTypeOK, Untaken
  <2>2. CASE tx # hTx[h]
    <3>1. Touched(tx)
      BY <1>3, <2>2
    <3>2. status[PaysFor[tx]] \notin Untaken
      BY <3>1 DEF OnceInv, TouchedTaken
    <3> QED BY <1>0, <1>1, <3>2, PaymentAssumption DEF StoreTypeOK, Untaken
  <2> QED BY <2>1, <2>2
<1>6. TouchedOnce'
  <2> SUFFICES ASSUME NEW s \in Txs, NEW t \in Txs, PaysFor[s] = PaysFor[t],
                      PaysFor[s] \in TopUps, Touched(s)', Touched(t)'
               PROVE  s = t
    BY DEF TouchedOnce
  <2>1. CASE PaysFor[s] = hOrder[h]
    BY <1>3, <1>4, <2>1
  <2>2. CASE PaysFor[s] # hOrder[h]
    BY <1>1, <1>3, <2>2 DEF OnceInv, TouchedOnce
  <2> QED BY <2>1, <2>2
<1> QED BY <1>2, <1>5, <1>6 DEF OnceInv

LEMMA SubmitOnce ==
    ASSUME TypeInv, OnceInv, NEW h \in Handlers, SubmitStep(h), ~SubmitAccept(h)
    PROVE  OnceInv'
<1>0. StoreTypeOK /\ ProcessTypeOK
  BY TypeParts
<1> USE DEF SubmitStep, SubmitInvalid, SubmitConflict, SubmitFailed, SubmitBroadcasting
<1>1. NoNewTouch
  BY <1>0, UntouchedFrame DEF Return, ProcessTypeOK
<1>2. CheckoutOnly'
  BY <1>0, CheckoutOnlyFrame DEF OnceInv, Return, ProcessTypeOK, CheckoutPC
<1>3. StayTaken
  BY <1>0, PaymentAssumption DEF StayTaken, StoreTypeOK, MoveIfPossible, Untaken, storeVars
<1> QED BY <1>1, <1>2, <1>3, OnceFrame

LEMMA SettleOnce ==
    ASSUME TypeInv, PaidInv, OnceInv, NEW h \in Handlers, SettleStep(h)
    PROVE  OnceInv'
<1>0. FacilitatorTypeOK /\ ProcessTypeOK /\ BusyHandlers
  BY TypeParts
<1>1. StayTaken
  BY DEF SettleStep, SettleCall, SettleUnreachable, SettleSucceeded, SettleRefused, SettleRefusedAtLength,
         SettleTimeout, ReplyLost, storeVars, StayTaken
<1>2. CheckoutOnly'
  BY <1>0, CheckoutOnlyFrame
     DEF SettleStep, SettleCall, SettleUnreachable, SettleSucceeded, SettleRefused, SettleRefusedAtLength,
         SettleTimeout, ReplyLost, AfterRefusal, Goto, Return, handlerVars, OnceInv,
         ProcessTypeOK, CheckoutPC
<1> USE DEF FacilitatorTypeOK, ProcessTypeOK, Handlers
<1>3. CASE SettleCall(h)
  <2>1. ASSUME pc[h] = "s_accepted" PROVE NoNewTouch
    BY <1>0, <1>3, <2>1 DEF SettleCall, Receive, Goto, NoNewTouch, Touched
  <2>2. ASSUME pc[h] = "c_proved" PROVE NoNewTouch
    <3>1. PaysFor[hTx[h]] \notin TopUps
      BY <2>2 DEF PaidInv, WorkInv, ProvedPays, Proved, OnceInv, CheckoutOnly, CheckoutPC
    <3> QED BY <1>0, <1>3, <2>2, <3>1 DEF SettleCall, Receive, Goto, NoNewTouch, Touched
  <2>3. NoNewTouch
    BY <1>3, <2>1, <2>2 DEF SettleCall
  <2> QED BY <1>1, <1>2, <2>3, OnceFrame
<1>4. CASE SettleUnreachable(h) \/ SettleTimeout(h)
  <2>1. NoNewTouch
    BY <1>0, <1>4, UntouchedFrame
       DEF SettleUnreachable, SettleTimeout, AfterRefusal, Goto, Return
  <2> QED BY <1>1, <1>2, <2>1, OnceFrame
<1>5. CASE \/ SettleSucceeded(h) \/ SettleRefused(h) \/ SettleRefusedAtLength(h)
           \/ ReplyLost(h)
  <2>1. NoNewTouch
    BY <1>0, <1>5 DEF SettleSucceeded, SettleRefused, SettleRefusedAtLength, ReplyLost, Release, AfterRefusal,
       Goto, Return, handlerVars, NoNewTouch, Touched
  <2> QED BY <1>1, <1>2, <2>1, OnceFrame
<1> QED BY <1>3, <1>4, <1>5 DEF SettleStep

LEMMA CheckoutOnce ==
    ASSUME TypeInv, OnceInv, NEW h \in Handlers, CheckoutStep(h)
    PROVE  OnceInv'
<1>0. StoreTypeOK /\ ProcessTypeOK
  BY TypeParts
<1> USE DEF CheckoutStep, CheckoutExpired, CheckoutReplay, CheckoutFresh, CheckoutDuplicate,
            CheckoutInvalid, CheckoutProved, CheckoutConfirmed
<1>1. NoNewTouch
  BY <1>0, UntouchedFrame DEF Goto, Return, ProcessTypeOK
<1>2. CheckoutOnly'
  BY <1>0, CheckoutOnlyFrame DEF OnceInv, Goto, Return, ProcessTypeOK, CheckoutPC
<1>3. StayTaken
  BY <1>0, PaymentAssumption DEF StayTaken, StoreTypeOK, MoveIfPossible, Untaken, storeVars
<1> QED BY <1>1, <1>2, <1>3, OnceFrame

LEMMA ConfirmerOnce ==
    ASSUME TypeInv, OnceInv, NEW c \in Confirmers, ConfirmerStep(c)
    PROVE  OnceInv'
<1>0. StoreTypeOK
  BY TypeParts
<1>1. UNCHANGED <<facilitatorVars, handlerVars>>
  BY DEF ConfirmerStep, ConfirmerTick, ConfirmerPoll, ConfirmerFail, ConfirmerConfirm,
         ConfirmerCredit, ConfirmerCreditFailed, ConfirmerCredited, ConfirmerEnqueue
<1>2. StayTaken
  BY <1>0, PaymentAssumption
     DEF ConfirmerStep, ConfirmerTick, ConfirmerPoll, ConfirmerFail, ConfirmerConfirm,
         ConfirmerCredit, ConfirmerCreditFailed, ConfirmerCredited, ConfirmerEnqueue, storeVars,
         MoveIfPossible, StayTaken, StoreTypeOK, Untaken
<1> QED BY <1>1, <1>2, OnceFrame, UntouchedFrame, CheckoutOnlyFrame DEF OnceInv, handlerVars

LEMMA RequestOnce ==
    ASSUME TypeInv, OnceInv, Request
    PROVE  OnceInv'
<1>0. StoreTypeOK /\ ProcessTypeOK
  BY TypeParts
<1>1. NoNewTouch
  BY <1>0, UntouchedFrame
     DEF Request, CreatePayment, SubmitRead, CheckoutRead, Start, ProcessTypeOK, handlerVars
<1>2. CheckoutOnly'
  BY <1>0 DEF Request, CreatePayment, SubmitRead, CheckoutRead, Start, ProcessTypeOK,
              handlerVars, OnceInv, CheckoutOnly, CheckoutPC
<1>3. StayTaken
  BY <1>0, PaymentAssumption
     DEF Request, CreatePayment, SubmitRead, CheckoutRead, SetStatus, storeVars,
         StayTaken, StoreTypeOK, Untaken
<1> QED BY <1>1, <1>2, <1>3, OnceFrame

LEMMA OnceStep ==
    TypeInv /\ SuccessInv /\ PaidInv /\ OnceInv /\ [PaymentNext]_vars => OnceInv'
<1> SUFFICES ASSUME TypeInv, SuccessInv, PaidInv, OnceInv, [PaymentNext]_vars PROVE OnceInv'
  OBVIOUS
<1>1. CASE Environment
  <2>1. TaskKeeps /\ SentByTasks
    BY <1>1, FacilitatorSuccess, TypeParts DEF Environment, TasksBehave
  <2>2. UNCHANGED <<storeVars, handlerVars>>
    BY <1>1 DEF Environment
  <2>3. NoNewTouch
    BY <2>1, <2>2 DEF NoNewTouch, Touched, TaskKeeps, SentByTasks, handlerVars
  <2> QED BY <2>2, <2>3, OnceFrame, CheckoutOnlyFrame
          DEF OnceInv, StayTaken, storeVars, handlerVars
<1>2. CASE (\E o \in Orders : DeadlinePasses(o)) \/ UNCHANGED vars
  BY <1>2, OnceFrame, UntouchedFrame, CheckoutOnlyFrame
     DEF OnceInv, StayTaken, DeadlinePasses, handlerVars, storeVars, vars
<1>3. CASE Crash
  BY <1>3, OnceFrame, UntouchedFrame, CheckoutOnlyFrame
     DEF OnceInv, StayTaken, Crash, storeVars, CheckoutPC
<1> QED BY <1>1, <1>2, <1>3, AcceptOnce, SubmitOnce, SettleOnce, CheckoutOnce, ConfirmerOnce,
           RequestOnce DEF PaymentNext, HandlerStep

THEOREM OnceInvariance == PaymentSpec => []OnceInv
BY TypeInvariance, SuccessInvariance, PaidInvariance, OnceInit, OnceStep, PTL DEF PaymentSpec

(* Two transactions of one top-up order are never both given to the        *)
(* cluster, however many clients, requests and time-outs there are.        *)
THEOREM TopUpsBroadcastOnce == PaymentSpec => []TopUpBroadcastOnce
<1>1. OnceInv => TopUpBroadcastOnce
  BY DEF OnceInv, TouchedOnce, Touched, TopUpBroadcastOnce
<1> QED BY <1>1, OnceInvariance, PTL

------------------------------------------------------------------------------
(* What the merchant is told, and what is refused a second time.           *)

(* Replays.  A checkout request that passed the guard has a proof row with *)
(* the hash of its transaction, and proof rows are never deleted.          *)

Past == {"c_proved", "c_waiting", "c_settled"}

PastSeen == \A h \in Handlers : pc[h] \in Past => Seen(hTx[h])

ReplayInv == PastSeen /\ NoConcurrentReplay

LEMMA ReplayInit == PaymentInit => ReplayInv
BY DEF PaymentInit, ReplayInv, PastSeen, NoConcurrentReplay, Past

LEMMA ReplayFrame ==
    ASSUME ReplayInv, proofs \subseteq proofs',
           \A h \in Handlers : pc'[h] \in Past => pc[h] \in Past /\ hTx'[h] = hTx[h]
    PROVE  ReplayInv'
<1>1. \A tx : Seen(tx) => \E p \in proofs' : p.hashed /\ p.tx = tx
  BY DEF Seen
<1>2. PastSeen'
  BY <1>1 DEF ReplayInv, PastSeen, Seen
<1> QED BY <1>2 DEF ReplayInv, NoConcurrentReplay, Past

LEMMA ReplayHandler ==
    ASSUME TypeInv, ReplayInv, NEW h \in Handlers, HandlerStep(h)
    PROVE  ReplayInv'
<1>0. ProcessTypeOK
  BY TypeParts
<1> USE DEF ProcessTypeOK, Past
<1>1. CASE SubmitStep(h)
  BY <1>0, <1>1, ReplayFrame
     DEF SubmitStep, SubmitInvalid, SubmitAccept, SubmitConflict, SubmitFailed,
         SubmitBroadcasting, AddProof, Goto, Return, storeVars
<1>2. CASE SettleStep(h)
  BY <1>0, <1>2, ReplayFrame
     DEF SettleStep, SettleCall, SettleUnreachable, SettleSucceeded, SettleRefused, SettleRefusedAtLength,
         SettleTimeout, ReplyLost, AfterRefusal, Goto, Return, storeVars, handlerVars
<1>3. CASE CheckoutProved(h)
  <2>1. /\ pc' = [pc EXCEPT ![h] = "c_proved"] /\ hTx' = hTx
        /\ ~Seen(hTx[h])
        /\ proofs \subseteq proofs'
        /\ \E p \in proofs' : p.hashed /\ p.tx = hTx[h]
    <3> DEFINE row == [order |-> hOrder[h], tx |-> hTx[h], verified |-> TRUE, hashed |-> TRUE]
    <3>1. proofs' = proofs \cup {row}
      BY <1>3 DEF CheckoutProved, AddProof
    <3>2. row \in proofs' /\ row.hashed /\ row.tx = hTx[h]
      BY <3>1
    <3> HIDE DEF row
    <3> QED BY <1>3, <3>1, <3>2 DEF CheckoutProved, Goto
  <2>2. ASSUME NEW g \in Handlers, pc'[g] \in Past PROVE Seen(hTx[g])'
    <3>1. CASE g = h
      BY <2>1, <3>1 DEF Seen
    <3>2. CASE g # h
      BY <1>0, <2>1, <2>2, <3>2 DEF ReplayInv, PastSeen, Seen
    <3> QED BY <3>1, <3>2
  <2>3. NoConcurrentReplay'
    BY <1>0, <2>1 DEF ReplayInv, PastSeen, NoConcurrentReplay
  <2> QED BY <2>1, <2>2, <2>3 DEF ReplayInv, PastSeen, Seen
<1>4. CASE CheckoutStep(h) /\ ~CheckoutProved(h)
  BY <1>0, <1>4, ReplayFrame
     DEF CheckoutStep, CheckoutExpired, CheckoutReplay, CheckoutFresh, CheckoutDuplicate,
         CheckoutInvalid, CheckoutConfirmed, AddProof, Goto, Return, storeVars
<1> QED BY <1>1, <1>2, <1>3, <1>4 DEF HandlerStep

LEMMA ReplayStep == TypeInv /\ ReplayInv /\ [PaymentNext]_vars => ReplayInv'
<1> SUFFICES ASSUME TypeInv, ReplayInv, [PaymentNext]_vars PROVE ReplayInv'
  OBVIOUS
<1>0. ProcessTypeOK
  BY TypeParts
<1>1. CASE Request
  BY <1>0, <1>1, ReplayFrame
     DEF Request, CreatePayment, SubmitRead, CheckoutRead, Start, Past, ProcessTypeOK,
         storeVars, handlerVars
<1>2. ASSUME NEW c \in Confirmers, ConfirmerStep(c) PROVE UNCHANGED <<proofs, handlerVars>>
  BY <1>2 DEF ConfirmerStep, ConfirmerTick, ConfirmerPoll, ConfirmerFail, ConfirmerConfirm,
              ConfirmerCredit, ConfirmerCreditFailed, ConfirmerCredited, ConfirmerEnqueue,
              storeVars
<1>3. CASE UNCHANGED <<proofs, handlerVars>>
  BY <1>3, ReplayFrame DEF handlerVars
<1>4. CASE Crash
  BY <1>4, ReplayFrame DEF Crash, Past, storeVars
<1>5. CASE Environment \/ (\E o \in Orders : DeadlinePasses(o)) \/ UNCHANGED vars
  BY <1>3, <1>5 DEF Environment, DeadlinePasses, storeVars, vars
<1> QED BY <1>1, <1>2, <1>3, <1>4, <1>5, ReplayHandler DEF PaymentNext

THEOREM ReplayInvariance == PaymentSpec => []ReplayInv
BY TypeInvariance, ReplayInit, ReplayStep, PTL DEF PaymentSpec

(* No two requests of the protected resource are past the replay guard     *)
(* with the same signed transaction, however their SELECTs interleave.     *)
THEOREM ReplaysRefused == PaymentSpec => []NoConcurrentReplay
BY ReplayInvariance, PTL DEF ReplayInv

------------------------------------------------------------------------------
(* Events.  The confirmer that announces an outcome is the only one for    *)
(* its order, nothing has been announced before, and the outcome stays.    *)

Told(o) == \E e \in EventType : events[o][e] > 0

Announcing(c) == cpc[c] \in {"event_confirmed", "event_credited", "event_failed"}

Decided(o) ==
    \/ status[o] \in {"failed", "token_credited"}
    \/ status[o] = "confirmed" /\ o \notin TopUps

OutcomeOf(l) ==
    CASE l = "event_confirmed" -> "confirmed"
      [] l = "event_credited" -> "token_credited"
      [] l = "event_failed" -> "failed"

AnnouncerOwnsOrder ==
    \A c \in Confirmers : Announcing(c) =>
        /\ cur[c] \in Orders /\ Decided(cur[c]) /\ ~Told(cur[c])
        /\ status[cur[c]] = OutcomeOf(cpc[c])

OneAnnouncer ==
    \A c, d \in Confirmers : Announcing(c) /\ Announcing(d) /\ cur[c] = cur[d] => c = d

ToldDecided == \A o \in Orders : Told(o) => Decided(o)

OutcomeTold(e) ==
    CASE e = "payment.confirmed" -> "confirmed"
      [] e = "payment.token_credited" -> "token_credited"
      [] e = "payment.failed" -> "failed"

TellOutcome(o, e) ==
    /\ events[o][e] = 1
    /\ \A f \in EventType \ {e} : events[o][f] = 0
    /\ status[o] = OutcomeTold(e)

LEMMA TellOutcomes ==
    EventsTellTheOutcome <=>
        \A o \in Orders, e \in EventType : events[o][e] > 0 => TellOutcome(o, e)
BY DEF EventsTellTheOutcome, TellOutcome, OutcomeTold

(* A confirmer past its poll works on an order. *)
BusyConfirmers == \A c \in Confirmers : cpc[c] \notin {"idle", "polling"} => cur[c] \in Orders

LEMMA BusyInit == PaymentInit => BusyConfirmers
BY DEF PaymentInit, BusyConfirmers

LEMMA BusyStep == TypeInv /\ BusyConfirmers /\ [PaymentNext]_vars => BusyConfirmers'
<1> SUFFICES ASSUME TypeInv, BusyConfirmers, [PaymentNext]_vars PROVE BusyConfirmers'
  OBVIOUS
<1>0. ProcessTypeOK
  BY TypeParts
<1>1. ASSUME NEW c \in Confirmers, ConfirmerStep(c) PROVE BusyConfirmers'
  BY <1>0, <1>1
     DEF ConfirmerStep, ConfirmerTick, ConfirmerPoll, ConfirmerFail, ConfirmerConfirm,
         ConfirmerCredit, ConfirmerCreditFailed, ConfirmerCredited, ConfirmerEnqueue,
         CGoto, NextRow, BusyConfirmers, ProcessTypeOK
<1>2. CASE UNCHANGED confirmerVars
  BY <1>2 DEF BusyConfirmers, confirmerVars
<1>3. CASE Crash
  BY <1>3 DEF Crash, BusyConfirmers
<1>4. ASSUME NEW h \in Handlers, HandlerStep(h) PROVE UNCHANGED confirmerVars
  BY <1>4
     DEF HandlerStep, SubmitStep, SubmitInvalid, SubmitAccept, SubmitConflict, SubmitFailed,
         SubmitBroadcasting, SettleStep, SettleCall, SettleUnreachable, SettleSucceeded,
         SettleRefused, SettleRefusedAtLength, SettleTimeout, ReplyLost, CheckoutStep, CheckoutExpired, CheckoutReplay,
         CheckoutFresh, CheckoutDuplicate, CheckoutInvalid, CheckoutProved, CheckoutConfirmed
<1>5. Request \/ Environment \/ (\E o \in Orders : DeadlinePasses(o)) \/ UNCHANGED vars
      => UNCHANGED confirmerVars
  BY DEF Request, CreatePayment, SubmitRead, CheckoutRead, Environment, DeadlinePasses, vars
<1> QED BY <1>1, <1>2, <1>3, <1>4, <1>5 DEF PaymentNext

THEOREM BusyInvariance == PaymentSpec => []BusyConfirmers
BY TypeInvariance, BusyInit, BusyStep, PTL DEF PaymentSpec

EventsInv == EventsTellTheOutcome /\ ToldDecided /\ AnnouncerOwnsOrder /\ OneAnnouncer

LEMMA EventsInit == PaymentInit => EventsInv
BY DEF PaymentInit, EventsInv, EventsTellTheOutcome, ToldDecided, AnnouncerOwnsOrder,
       OneAnnouncer, Announcing, Told

DecidedKept == \A o \in Orders : Decided(o) => status'[o] = status[o]

NobodyAnnounces ==
    \A c \in Confirmers : Announcing(c)' => cpc'[c] = cpc[c] /\ cur'[c] = cur[c]

LEMMA EventsFrame ==
    ASSUME EventsInv, DecidedKept, NobodyAnnounces, UNCHANGED events
    PROVE  EventsInv'
<1>1. ToldDecided'
  BY DEF EventsInv, ToldDecided, DecidedKept, Told, Decided
<1>2. EventsTellTheOutcome'
  <2> SUFFICES ASSUME NEW o \in Orders, NEW e \in EventType, events[o][e] > 0
               PROVE  status'[o] = status[o]
    BY DEF EventsInv, EventsTellTheOutcome
  <2> QED BY DEF EventsInv, ToldDecided, DecidedKept, Told
<1>3. AnnouncerOwnsOrder'
  <2> SUFFICES ASSUME NEW c \in Confirmers, Announcing(c)'
               PROVE  /\ cur'[c] \in Orders /\ Decided(cur[c])' /\ ~Told(cur[c])
                      /\ status'[cur[c]] = OutcomeOf(cpc[c])
                      /\ cur'[c] = cur[c] /\ cpc'[c] = cpc[c]
    BY DEF AnnouncerOwnsOrder, Decided, Told
  <2>1. cur'[c] = cur[c] /\ cpc'[c] = cpc[c] /\ Announcing(c)
    BY DEF NobodyAnnounces, Announcing
  <2>2. cur[c] \in Orders /\ Decided(cur[c]) /\ ~Told(cur[c]) /\ status[cur[c]] = OutcomeOf(cpc[c])
    BY <2>1 DEF EventsInv, AnnouncerOwnsOrder
  <2>3. status'[cur[c]] = status[cur[c]]
    BY <2>2 DEF DecidedKept
  <2>4. Decided(cur[c])'
    BY <2>1, <2>2, <2>3 DEF Decided
  <2> QED BY <2>1, <2>2, <2>3, <2>4
<1>4. OneAnnouncer'
  BY DEF EventsInv, OneAnnouncer, NobodyAnnounces, Announcing
<1> QED BY <1>1, <1>2, <1>3, <1>4 DEF EventsInv

(* A confirmer moves an undecided order to an outcome and goes on to tell  *)
(* it: nobody has told one before.                                         *)
LEMMA AnnounceStarts ==
    ASSUME TypeInv, EventsInv, NEW c \in Confirmers, NEW o \in Orders, NEW l, NEW s \in Status,
           cur[c] = o, cur' = cur, UNCHANGED events,
           ~Decided(o), status' = [status EXCEPT ![o] = s], Decided(o)',
           l \in {"event_confirmed", "event_credited", "event_failed"}, s = OutcomeOf(l),
           cpc' = [cpc EXCEPT ![c] = l]
    PROVE  EventsInv'
<1>0. StoreTypeOK /\ ProcessTypeOK
  BY TypeParts
<1>1. ~Told(o)
  BY DEF EventsInv, ToldDecided
<1>2. \A d \in Confirmers : Announcing(d) => cur[d] # o
  BY DEF EventsInv, AnnouncerOwnsOrder
<1>3. \A d \in Confirmers : Announcing(d)' => d = c \/ (Announcing(d) /\ cpc'[d] = cpc[d])
  BY <1>0 DEF ProcessTypeOK, Announcing
<1>4. \A p \in Orders : p # o => status'[p] = status[p] /\ (Decided(p) <=> Decided(p)')
  BY <1>0 DEF StoreTypeOK, Decided
<1>5. \A p \in Orders : Told(p)' <=> Told(p)
  BY DEF Told
<1>6. ToldDecided'
  BY <1>1, <1>4, <1>5 DEF EventsInv, ToldDecided
<1>7. EventsTellTheOutcome'
  <2>1. ASSUME NEW p \in Orders, NEW e \in EventType, events[p][e] > 0
        PROVE  TellOutcome(p, e)'
    <3>1. TellOutcome(p, e) /\ Told(p)
      BY <2>1, TellOutcomes DEF EventsInv, Told
    <3>2. status'[p] = status[p]
      BY <1>1, <1>4, <3>1
    <3> QED BY <3>1, <3>2 DEF TellOutcome
  <2> QED BY <2>1 DEF EventsTellTheOutcome, TellOutcome, OutcomeTold
<1>8. AnnouncerOwnsOrder'
  <2> SUFFICES ASSUME NEW d \in Confirmers, Announcing(d)'
               PROVE  /\ cur[d] \in Orders /\ Decided(cur[d])' /\ ~Told(cur[d])
                      /\ status'[cur[d]] = OutcomeOf(cpc'[d])
    BY <1>5 DEF AnnouncerOwnsOrder, Decided
  <2>1. CASE d = c
    BY <1>0, <1>1, <2>1 DEF StoreTypeOK, ProcessTypeOK
  <2>2. CASE d # c
    BY <1>2, <1>3, <1>4, <2>2 DEF EventsInv, AnnouncerOwnsOrder, Decided
  <2> QED BY <2>1, <2>2
<1>9. OneAnnouncer'
  BY <1>2, <1>3 DEF EventsInv, OneAnnouncer
<1> QED BY <1>6, <1>7, <1>8, <1>9 DEF EventsInv

LEMMA EventsHandler ==
    ASSUME TypeInv, NEW h \in Handlers, HandlerStep(h)
    PROVE  DecidedKept /\ NobodyAnnounces /\ UNCHANGED events
<1>0. StoreTypeOK
  BY TypeParts
<1>1. UNCHANGED <<confirmerVars, events>>
  BY DEF HandlerStep, SubmitStep, SubmitInvalid, SubmitAccept, SubmitConflict, SubmitFailed,
         SubmitBroadcasting, SettleStep, SettleCall, SettleUnreachable, SettleSucceeded,
         SettleRefused, SettleRefusedAtLength, SettleTimeout, ReplyLost, CheckoutStep, CheckoutExpired, CheckoutReplay,
         CheckoutFresh, CheckoutDuplicate, CheckoutInvalid, CheckoutProved, CheckoutConfirmed,
         storeVars
<1>2. NobodyAnnounces
  BY <1>1 DEF NobodyAnnounces, confirmerVars
<1> USE DEF DecidedKept, Decided, StoreTypeOK
<1>3. CASE SubmitStep(h)
  BY <1>0, <1>1, <1>2, <1>3
     DEF SubmitStep, SubmitInvalid, SubmitAccept, SubmitConflict, SubmitFailed,
         SubmitBroadcasting, SetStatus, MoveIfPossible, CanMove, storeVars
<1>4. CASE SettleStep(h)
  BY <1>0, <1>1, <1>2, <1>4
     DEF SettleStep, SettleCall, SettleUnreachable, SettleSucceeded, SettleRefused, SettleRefusedAtLength,
         SettleTimeout, ReplyLost, storeVars
<1>5. CASE CheckoutStep(h)
  BY <1>0, <1>1, <1>2, <1>5
     DEF CheckoutStep, CheckoutExpired, CheckoutReplay, CheckoutFresh, CheckoutDuplicate,
         CheckoutInvalid, CheckoutProved, CheckoutConfirmed, MoveIfPossible, CanMove, storeVars
<1> QED BY <1>3, <1>4, <1>5 DEF HandlerStep

LEMMA EventsRequest ==
    ASSUME TypeInv, Request
    PROVE  DecidedKept /\ NobodyAnnounces /\ UNCHANGED events
<1>0. StoreTypeOK
  BY TypeParts
<1>1. UNCHANGED <<confirmerVars, events>>
  BY DEF Request, CreatePayment, SubmitRead, CheckoutRead, storeVars
<1>2. DecidedKept
  BY <1>0 DEF Request, CreatePayment, SubmitRead, CheckoutRead, SetStatus, storeVars,
              DecidedKept, Decided, StoreTypeOK
<1> QED BY <1>1, <1>2 DEF NobodyAnnounces, confirmerVars

(* The last part of a tick: the event row, and on to the next order. *)
LEMMA EventsEnqueue ==
    ASSUME TypeInv, EventsInv, NEW c \in Confirmers, ConfirmerEnqueue(c)
    PROVE  EventsInv'
<1>0. StoreTypeOK /\ ProcessTypeOK
  BY TypeParts
<1>1. PICK e \in EventType :
        /\ Announcing(c) /\ Enqueue(cur[c], e)
        /\ OutcomeOf(cpc[c]) = OutcomeTold(e)
  BY DEF ConfirmerEnqueue, EventType, Announcing, OutcomeOf, OutcomeTold
<1> DEFINE o == cur[c]
<1>2. /\ o \in Orders /\ Decided(o) /\ ~Told(o) /\ status[o] = OutcomeOf(cpc[c])
      /\ \A d \in Confirmers : Announcing(d) /\ cur[d] = o => d = c
  BY <1>1 DEF EventsInv, AnnouncerOwnsOrder, OneAnnouncer
<1>3. /\ status' = status
      /\ \A d \in Confirmers : Announcing(d)' => d # c /\ Announcing(d) /\ cur'[d] = cur[d]
                                                 /\ cpc'[d] = cpc[d]
  BY <1>0 DEF ConfirmerEnqueue, NextRow, Announcing, ProcessTypeOK
<1>4. \A p \in Orders : Decided(p)' <=> Decided(p)
  BY <1>3 DEF Decided
<1>5. \A p \in Orders, f \in EventType : events[p][f] \in Nat
  BY <1>0 DEF StoreTypeOK
<1>6. \A f \in EventType : events[o][f] = 0
  BY <1>2, <1>5 DEF Told
<1>7. /\ \A p \in Orders : p # o => events'[p] = events[p]
      /\ \A f \in EventType : f # e => events'[o][f] = 0
      /\ events'[o][e] \in {0, 1}
  <2> DEFINE row == [events[o] EXCEPT ![e] = @ + 1]
  <2>1. events' = [events EXCEPT ![o] = row] \/ events' = events
    BY <1>1 DEF Enqueue
  <2>2. row[e] = 1 /\ \A f \in EventType : f # e => row[f] = 0
    BY <1>0, <1>2, <1>6 DEF StoreTypeOK
  <2> HIDE DEF row
  <2> QED BY <1>0, <1>2, <1>6, <2>1, <2>2 DEF StoreTypeOK
<1>8. ToldDecided'
  <2> SUFFICES ASSUME NEW p \in Orders, Told(p)' PROVE Decided(p)'
    BY DEF ToldDecided
  <2> QED BY <1>2, <1>4, <1>7 DEF EventsInv, ToldDecided, Told
<1>9. ASSUME NEW p \in Orders, NEW f \in EventType, events'[p][f] > 0
      PROVE  /\ events'[p][f] = 1
             /\ \A g \in EventType \ {f} : events'[p][g] = 0
             /\ status'[p] = OutcomeTold(f)
  <2>1. CASE p = o
    <3>1. f = e
      BY <1>7, <1>9, <2>1
    <3> QED BY <1>1, <1>2, <1>3, <1>7, <1>9, <2>1, <3>1
  <2>2. CASE p # o
    <3>1. events'[p] = events[p]
      BY <1>7, <2>2
    <3>2. TellOutcome(p, f)
      BY <1>9, <3>1, TellOutcomes DEF EventsInv
    <3> QED BY <1>3, <3>1, <3>2 DEF TellOutcome
  <2> QED BY <2>1, <2>2
<1>10. AnnouncerOwnsOrder'
  <2> SUFFICES ASSUME NEW d \in Confirmers, Announcing(d)'
               PROVE  /\ cur'[d] \in Orders /\ Decided(cur[d])' /\ ~Told(cur[d])'
                      /\ status'[cur'[d]] = OutcomeOf(cpc'[d])
    BY DEF AnnouncerOwnsOrder, Decided, Told
  <2>1. d # c /\ Announcing(d) /\ cur'[d] = cur[d] /\ cpc'[d] = cpc[d] /\ cur[d] # o
    BY <1>2, <1>3
  <2>2. /\ cur[d] \in Orders /\ Decided(cur[d]) /\ ~Told(cur[d])
        /\ status[cur[d]] = OutcomeOf(cpc[d])
    BY <2>1 DEF EventsInv, AnnouncerOwnsOrder
  <2>3. Decided(cur[d])' /\ ~Told(cur[d])'
    BY <1>3, <1>7, <2>1, <2>2 DEF Decided, Told
  <2> QED BY <1>3, <2>1, <2>2, <2>3
<1>11. OneAnnouncer'
  BY <1>3 DEF EventsInv, OneAnnouncer
<1>12. EventsTellTheOutcome'
  BY <1>9 DEF EventsTellTheOutcome, OutcomeTold
<1> QED BY <1>8, <1>10, <1>11, <1>12 DEF EventsInv

(* The three transactions that decide an order, each of which either moves *)
(* the locked row or, having lost the race, tells nobody.                  *)
LEMMA EventsMove ==
    ASSUME TypeInv, CreditInv, BusyConfirmers, EventsInv, NEW c \in Confirmers,
           ConfirmerFail(c) \/ ConfirmerConfirm(c) \/ ConfirmerCredited(c)
    PROVE  EventsInv'
<1>0. StoreTypeOK /\ ProcessTypeOK
  BY TypeParts
<1> DEFINE o == cur[c]
           Starts(from, to, l) == /\ CanMove(o, from, to)
                                  /\ MoveIfPossible(o, from, to)
                                  /\ CGoto(c, l)
                                  /\ UNCHANGED events
<1>1. ASSUME DecidedKept, NextRow(c), UNCHANGED events PROVE EventsInv'
  <2>1. NobodyAnnounces
    BY <1>0, <1>1 DEF NextRow, NobodyAnnounces, Announcing, ProcessTypeOK
  <2> QED BY <1>1, <2>1, EventsFrame
<1>2. ASSUME NEW from, NEW to, MoveIfPossible(o, from, to), ~CanMove(o, from, to)
      PROVE  DecidedKept
  BY <1>2 DEF MoveIfPossible, DecidedKept
<1>3. ASSUME NEW from \in {"broadcasting", "confirmed"}, NEW to \in Status, NEW l,
             Starts(from, to, l), l \in {"event_confirmed", "event_credited", "event_failed"},
             to = OutcomeOf(l), o \in Orders,
             from = "confirmed" => o \in TopUps, to = "confirmed" => o \notin TopUps
      PROVE  EventsInv'
  <2>1. status[o] = from /\ status' = [status EXCEPT ![o] = to]
    BY <1>3 DEF MoveIfPossible, CanMove
  <2>2. ~Decided(o) /\ Decided(o)'
    BY <1>0, <1>3, <2>1 DEF Decided, OutcomeOf, StoreTypeOK, CGoto
  <2> QED BY <1>3, <2>1, <2>2, AnnounceStarts DEF CGoto
<1>4. o \in Orders
  BY DEF ConfirmerFail, ConfirmerConfirm, ConfirmerCredited, BusyConfirmers
<1>5. CASE ConfirmerFail(c)
  <2>1. CASE CanMove(o, "broadcasting", "failed")
    BY <1>3, <1>4, <1>5, <2>1 DEF ConfirmerFail, OutcomeOf, Status
  <2>2. CASE ~CanMove(o, "broadcasting", "failed")
    BY <1>1, <1>2, <1>5, <2>2 DEF ConfirmerFail
  <2> QED BY <2>1, <2>2
<1>6. CASE ConfirmerConfirm(c)
  <2>1. CASE CanMove(o, "broadcasting", "confirmed") /\ o \notin TopUps
    BY <1>3, <1>4, <1>6, <2>1 DEF ConfirmerConfirm, OutcomeOf, Status
  <2>2. CASE CanMove(o, "broadcasting", "confirmed") /\ o \in TopUps
    <3>1. NobodyAnnounces
      BY <1>0, <1>6, <2>2 DEF ConfirmerConfirm, CGoto, NobodyAnnounces, Announcing, ProcessTypeOK
    <3>2. DecidedKept
      BY <1>0, <1>6, <2>2 DEF ConfirmerConfirm, MoveIfPossible, CanMove, DecidedKept, Decided,
         StoreTypeOK
    <3> QED BY <1>6, <3>1, <3>2, EventsFrame DEF ConfirmerConfirm
  <2>3. CASE ~CanMove(o, "broadcasting", "confirmed")
    BY <1>1, <1>2, <1>6, <2>3 DEF ConfirmerConfirm
  <2> QED BY <2>1, <2>2, <2>3
<1>7. CASE ConfirmerCredited(c)
  <2>1. o \in TopUps
    BY <1>7 DEF ConfirmerCredited, CreditInv, CrediterOwnsOrder, Crediting
  <2>2. CASE CanMove(o, "confirmed", "token_credited")
    BY <1>3, <1>4, <1>7, <2>1, <2>2 DEF ConfirmerCredited, OutcomeOf, Status
  <2>3. CASE ~CanMove(o, "confirmed", "token_credited")
    BY <1>1, <1>2, <1>7, <2>3 DEF ConfirmerCredited
  <2> QED BY <2>2, <2>3
<1> QED BY <1>5, <1>6, <1>7

LEMMA EventsConfirmer ==
    ASSUME TypeInv, CreditInv, BusyConfirmers, EventsInv, NEW c \in Confirmers, ConfirmerStep(c)
    PROVE  EventsInv'
<1>0. ProcessTypeOK
  BY TypeParts
<1>1. CASE \/ ConfirmerTick(c) \/ (\E o \in Orders : ConfirmerPoll(c, o))
           \/ ConfirmerCredit(c) \/ ConfirmerCreditFailed(c)
  <2>1. UNCHANGED <<status, events>>
    BY <1>1 DEF ConfirmerTick, ConfirmerPoll, ConfirmerCredit, ConfirmerCreditFailed, storeVars
  <2>2. NobodyAnnounces
    BY <1>0, <1>1 DEF ConfirmerTick, ConfirmerPoll, ConfirmerCredit, ConfirmerCreditFailed,
       CGoto, NextRow, NobodyAnnounces, Announcing, ProcessTypeOK
  <2> QED BY <2>1, <2>2, EventsFrame DEF DecidedKept
<1> QED BY <1>1, EventsMove, EventsEnqueue DEF ConfirmerStep

LEMMA EventsStep ==
    TypeInv /\ CreditInv /\ BusyConfirmers /\ EventsInv /\ [PaymentNext]_vars => EventsInv'
<1> SUFFICES ASSUME TypeInv, CreditInv, BusyConfirmers, EventsInv, [PaymentNext]_vars
             PROVE  EventsInv'
  OBVIOUS
<1>1. CASE Environment \/ (\E o \in Orders : DeadlinePasses(o)) \/ UNCHANGED vars
  <2>1. UNCHANGED <<status, events, confirmerVars>>
    BY <1>1 DEF Environment, DeadlinePasses, storeVars, vars
  <2> QED BY <2>1, EventsFrame DEF DecidedKept, NobodyAnnounces, confirmerVars
<1>2. CASE Crash
  BY <1>2, EventsFrame DEF Crash, DecidedKept, NobodyAnnounces, Announcing, storeVars
<1> QED BY <1>1, <1>2, EventsHandler, EventsRequest, EventsConfirmer, EventsFrame
        DEF PaymentNext

THEOREM EventsInvariance == PaymentSpec => []EventsInv
BY TypeInvariance, CreditInvariance, BusyInvariance, EventsInit, EventsStep, PTL DEF PaymentSpec

(* The merchant is told at most one outcome of an order, once, and it is   *)
(* the outcome the order keeps, for every number of confirmer replicas.    *)
THEOREM MerchantToldTheOutcome == PaymentSpec => []EventsTellTheOutcome
BY EventsInvariance, PTL DEF EventsInv

------------------------------------------------------------------------------
(* PaymentOrders implements PaymentLifecycle: each step changes one order  *)
(* along one edge of the abstract machine, or lets the cluster execute a   *)
(* transaction, or changes nothing abstract.                               *)

Stage == [o \in Orders |-> StageOf(status[o])]
Landed == {tx \in Txs : Executed(tx)}

LifecycleStep == [Lifecycle!LifecycleNext]_(Lifecycle!lifecycleVars)

(* An order that has not been settled has no hash, so that its own hash    *)
(* cannot be the duplicate the UNIQUE index is asked about.                *)
NoHashYet ==
    \A o \in Orders : status[o] \in {"absent", "created", "pending"} => txHash[o] = NoTx

LEMMA NoHashInit == PaymentInit => NoHashYet
BY DEF PaymentInit, NoHashYet

LEMMA NoHashFrame ==
    ASSUME NoHashYet, txHash' = txHash,
           \A o \in Orders : status'[o] \in {"absent", "created", "pending"} =>
               status[o] \in {"absent", "created", "pending"}
    PROVE  NoHashYet'
BY DEF NoHashYet

------------------------------------------------------------------------------
(* The shapes a step can have, and the abstract step each of them is.      *)

(* The edges along which the code moves an order without giving it a hash. *)
PlainEdges == {<<"absent", "created">>, <<"created", "pending">>, <<"created", "expired">>,
               <<"pending", "failed">>, <<"broadcasting", "failed">>,
               <<"broadcasting", "confirmed">>, <<"confirmed", "token_credited">>}

Still == UNCHANGED <<status, txHash, credits, chain>>

PlainMove ==
    /\ UNCHANGED <<txHash, credits, chain>>
    /\ \E o \in Orders, s \in Status : /\ <<status[o], s>> \in PlainEdges
                                       /\ status' = [status EXCEPT ![o] = s]

Settlement ==
    /\ UNCHANGED <<credits, chain>>
    /\ \E o \in Orders, tx \in Txs, s \in PaidStatus :
         /\ status[o] \in {"created", "pending"}
         /\ Executed(tx) /\ PaysFor[tx] = o /\ HashUnused(o, tx)
         /\ status' = [status EXCEPT ![o] = s]
         /\ txHash' = [txHash EXCEPT ![o] = tx]

FirstCredit ==
    /\ UNCHANGED <<status, txHash, chain>>
    /\ \E o \in TopUps : /\ status[o] = "confirmed" /\ credits[o] = 0
                         /\ credits' = [credits EXCEPT ![o] = 1]

OnChain ==
    /\ UNCHANGED <<status, txHash, credits>>
    /\ ExecutedStable
    /\ \A s, t \in Txs : Executed(s)' /\ ~Executed(s) /\ Executed(t)' /\ ~Executed(t) => s = t

LEMMA StillMaps ==
    ASSUME Still
    PROVE  LifecycleStep
BY DEF Still, LifecycleStep, Lifecycle!lifecycleVars, StageOf, Executed

LEMMA PlainMaps ==
    ASSUME TypeInv, CreditInv, PlainMove
    PROVE  LifecycleStep
<1>1. PICK o \in Orders, s \in Status :
        <<status[o], s>> \in PlainEdges /\ status' = [status EXCEPT ![o] = s]
  BY DEF PlainMove
<1>2. StoreTypeOK
  BY TypeParts
<1>3. Stage[o] = StageOf(status[o]) /\ Stage' = [Stage EXCEPT ![o] = StageOf(s)]
  BY <1>1, <1>2 DEF Stage, StoreTypeOK
<1>4. UNCHANGED <<txHash, Landed, credits>>
  BY DEF PlainMove, Landed, Executed
<1>5. CASE StageOf(s) = StageOf(status[o])
  <2>1. Stage' = Stage
    BY <1>3, <1>5 DEF Stage
  <2> QED BY <1>4, <2>1 DEF LifecycleStep, Lifecycle!lifecycleVars, Stage, Landed
<1>6. CASE <<status[o], s>> = <<"absent", "created">>
  <2>1. Lifecycle!Open(o)
    BY <1>3, <1>4, <1>6 DEF Lifecycle!Open, Lifecycle!Move, Stage, Landed, StageOf
  <2> QED BY <2>1 DEF LifecycleStep, Lifecycle!LifecycleNext
<1>7. CASE <<status[o], s>> = <<"created", "pending">>
  <2>1. Lifecycle!Take(o)
    BY <1>3, <1>4, <1>7 DEF Lifecycle!Take, Lifecycle!Move, Stage, Landed, StageOf
  <2> QED BY <2>1 DEF LifecycleStep, Lifecycle!LifecycleNext
<1>8. CASE <<status[o], s>> \in {<<"created", "expired">>, <<"pending", "failed">>}
  <2>1. Lifecycle!Close(o)
    BY <1>3, <1>4, <1>8 DEF Lifecycle!Close, Lifecycle!Move, Stage, Landed, StageOf
  <2> QED BY <2>1 DEF LifecycleStep, Lifecycle!LifecycleNext
<1>9. CASE <<status[o], s>> = <<"broadcasting", "failed">>
  <2>1. credits[o] = 0
    BY <1>2, <1>9 DEF CreditInv, CreditedOnce, StoreTypeOK
  <2>2. Lifecycle!Revoke(o)
    BY <1>3, <1>4, <1>9, <2>1 DEF Lifecycle!Revoke, Lifecycle!Move, Stage, Landed, StageOf
  <2> QED BY <2>2 DEF LifecycleStep, Lifecycle!LifecycleNext
<1> QED BY <1>1, <1>5, <1>6, <1>7, <1>8, <1>9 DEF PlainEdges, StageOf

LEMMA SettlementMaps ==
    ASSUME TypeInv, NoHashYet, Settlement
    PROVE  LifecycleStep
<1>1. PICK o \in Orders, tx \in Txs, s \in PaidStatus :
         /\ status[o] \in {"created", "pending"}
         /\ Executed(tx) /\ PaysFor[tx] = o /\ HashUnused(o, tx)
         /\ status' = [status EXCEPT ![o] = s]
         /\ txHash' = [txHash EXCEPT ![o] = tx]
  BY DEF Settlement
<1>2. StoreTypeOK
  BY TypeParts
<1>3. Stage[o] \in {"open", "taken"} /\ Stage' = [Stage EXCEPT ![o] = "settled"]
  BY <1>1, <1>2 DEF Stage, StageOf, StoreTypeOK, PaidStatus
<1>4. UNCHANGED <<Landed, credits>> /\ tx \in Landed
  BY <1>1 DEF Settlement, Landed, Executed
<1>5. \A p \in Orders : txHash[p] # tx
  BY <1>1, FacilitatorAssumption DEF HashUnused, NoHashYet
<1>6. Lifecycle!Settle(o, tx)
  BY <1>1, <1>3, <1>4, <1>5 DEF Lifecycle!Settle, Lifecycle!Move, Stage, Landed
<1> QED BY <1>6 DEF LifecycleStep, Lifecycle!LifecycleNext

LEMMA CreditingMaps ==
    ASSUME FirstCredit
    PROVE  LifecycleStep
<1>1. PICK o \in TopUps : /\ status[o] = "confirmed" /\ credits[o] = 0
                          /\ credits' = [credits EXCEPT ![o] = 1]
  BY DEF FirstCredit
<1>2. o \in Orders
  BY PaymentAssumption
<1>3. Lifecycle!Credit(o)
  BY <1>1, <1>2 DEF FirstCredit, Lifecycle!Credit, StageOf, Executed
<1> QED BY <1>2, <1>3 DEF LifecycleStep, Lifecycle!LifecycleNext

LEMMA OnChainMaps ==
    ASSUME OnChain
    PROVE  LifecycleStep
<1>1. UNCHANGED <<Stage, txHash, credits>>
  BY DEF OnChain, Stage, StageOf
<1>2. CASE \E tx \in Txs : Executed(tx)' /\ ~Executed(tx)
  <2>1. PICK tx \in Txs : Executed(tx)' /\ ~Executed(tx)
    BY <1>2
  <2>2. Landed' = Landed \cup {tx}
    BY <2>1 DEF OnChain, ExecutedStable, Landed
  <2>3. Lifecycle!Execute(tx)
    BY <1>1, <2>2 DEF Lifecycle!Execute, Stage, Landed
  <2> QED BY <2>3 DEF LifecycleStep, Lifecycle!LifecycleNext
<1>3. CASE ~ \E tx \in Txs : Executed(tx)' /\ ~Executed(tx)
  <2>1. Landed' = Landed
    BY <1>3 DEF OnChain, ExecutedStable, Landed
  <2> QED BY <1>1, <2>1 DEF LifecycleStep, Lifecycle!lifecycleVars, Stage, Landed
<1> QED BY <1>2, <1>3

------------------------------------------------------------------------------
(* Every step has one of the shapes.                                       *)

Shaped == Still \/ PlainMove \/ Settlement \/ FirstCredit \/ OnChain

LEMMA ShapedMaps ==
    ASSUME TypeInv, CreditInv, NoHashYet, Shaped
    PROVE  LifecycleStep
BY StillMaps, PlainMaps, SettlementMaps, CreditingMaps, OnChainMaps DEF Shaped

LEMMA MoveShaped ==
    ASSUME TypeInv, NEW o \in Orders, NEW from, NEW to \in Status,
           MoveIfPossible(o, from, to), <<from, to>> \in PlainEdges,
           UNCHANGED <<txHash, credits, chain>>
    PROVE  Shaped
BY DEF MoveIfPossible, CanMove, Shaped, Still, PlainMove

LEMMA EnvironmentShaped ==
    ASSUME TypeInv, SuccessInv, Environment
    PROVE  Shaped
<1>1. FacilitatorTypeOK /\ FacilitatorStep
  BY TypeParts DEF Environment
<1>2. ExecutedStable
  BY <1>1, FacilitatorSuccess DEF TasksBehave
<1>3. \A s, t \in Txs : Executed(s)' /\ ~Executed(s) /\ Executed(t)' /\ ~Executed(t) => s = t
  <2>1. ASSUME NEW c \in Calls, TaskStep(c), NEW s \in Txs, Executed(s)' PROVE Executed(s)
    <3>1. chain' = chain \/ Submitted(asked[c])
      BY <2>1 DEF TaskStep, TaskProgress, Admit, Broadcast, BroadcastRejected, Poll, GiveUp,
                  Abort
    <3> QED BY <1>1, <2>1, <3>1 DEF Submitted, Executed, FacilitatorTypeOK, ChainTypeOK
  <2>2. CASE ChainNext
    <3>1. PICK tx \in Txs : Land(tx) \/ ExecuteWithError(tx) \/ Drop(tx) \/ Revert(tx)
      BY <2>2 DEF ChainNext
    <3>2. ASSUME NEW s \in Txs, s # tx PROVE chain'[s] = chain[s]
      BY <1>1, <3>1, <3>2 DEF Land, ExecuteWithError, Drop, Revert, FacilitatorTypeOK, ChainTypeOK
    <3> QED BY <3>2 DEF Executed
  <2>3. CASE SetAccepting
    BY <2>3 DEF SetAccepting, Executed
  <2> QED BY <1>1, <2>1, <2>2, <2>3 DEF FacilitatorStep
<1>4. UNCHANGED <<status, txHash, credits>>
  BY DEF Environment, storeVars
<1>5. OnChain
  BY <1>2, <1>3, <1>4 DEF OnChain
<1> QED BY <1>5 DEF Shaped

LEMMA SubmitShaped ==
    ASSUME TypeInv, PaidInv, NEW h \in Handlers, SubmitStep(h)
    PROVE  Shaped
<1>0. StoreTypeOK /\ BusyHandlers
  BY TypeParts
<1>1. CASE SubmitInvalid(h) \/ SubmitConflict(h)
  BY <1>1 DEF SubmitInvalid, SubmitConflict, facilitatorVars, storeVars, Shaped, Still
<1>2. CASE SubmitAccept(h)
  <2>1. hOrder[h] \in Orders
    BY <1>0, <1>2 DEF SubmitAccept, BusyHandlers
  <2>2. PlainMove
    BY <1>2, <2>1 DEF SubmitAccept, CanMove, SetStatus, PlainMove, PlainEdges, Status,
       facilitatorVars
  <2> QED BY <2>2 DEF Shaped
<1>3. CASE SubmitFailed(h)
  <2>1. hOrder[h] \in Orders
    BY <1>0, <1>3 DEF SubmitFailed, BusyHandlers
  <2> QED BY <1>3, <2>1, MoveShaped DEF SubmitFailed, PlainEdges, Status, facilitatorVars
<1>4. CASE SubmitBroadcasting(h)
  <2>1. hOrder[h] \in Orders /\ hTx[h] \in Txs
    BY <1>0, <1>4 DEF SubmitBroadcasting, BusyHandlers
  <2>2. Executed(hTx[h]) /\ PaysFor[hTx[h]] = hOrder[h]
    BY <1>4 DEF SubmitBroadcasting, PaidInv, WorkInv, SettledLanded, ProvedPays, Proved
  <2>3. Settlement \/ Still
    BY <1>4, <2>1, <2>2 DEF SubmitBroadcasting, CanMove, Settlement, Still, PaidStatus,
       facilitatorVars
  <2> QED BY <2>3 DEF Shaped
<1> QED BY <1>1, <1>2, <1>3, <1>4 DEF SubmitStep

LEMMA SettleShaped ==
    ASSUME NEW h \in Handlers, SettleStep(h)
    PROVE  Shaped
BY DEF SettleStep, SettleCall, SettleUnreachable, SettleSucceeded, SettleRefused, SettleRefusedAtLength, SettleTimeout,
       ReplyLost, facilitatorVars, storeVars, Shaped, Still

LEMMA CheckoutShaped ==
    ASSUME TypeInv, PaidInv, NEW h \in Handlers, CheckoutStep(h)
    PROVE  Shaped
<1>0. StoreTypeOK /\ BusyHandlers
  BY TypeParts
<1>1. CASE CheckoutExpired(h)
  <2>1. hOrder[h] \in Orders
    BY <1>0, <1>1 DEF CheckoutExpired, BusyHandlers
  <2> QED BY <1>1, <2>1, MoveShaped DEF CheckoutExpired, PlainEdges, Status, facilitatorVars
<1>2. CASE CheckoutConfirmed(h)
  <2>1. hOrder[h] \in Orders /\ hTx[h] \in Txs
    BY <1>0, <1>2 DEF CheckoutConfirmed, BusyHandlers
  <2>2. Executed(hTx[h]) /\ PaysFor[hTx[h]] = hOrder[h]
    BY <1>2 DEF CheckoutConfirmed, PaidInv, WorkInv, SettledLanded, ProvedPays, Proved
  <2>3. Settlement \/ Still
    BY <1>2, <2>1, <2>2 DEF CheckoutConfirmed, Settlement, Still, PaidStatus, facilitatorVars
  <2> QED BY <2>3 DEF Shaped
<1>3. CASE \/ CheckoutReplay(h) \/ CheckoutFresh(h) \/ CheckoutDuplicate(h)
           \/ CheckoutInvalid(h) \/ CheckoutProved(h)
  BY <1>3 DEF CheckoutReplay, CheckoutFresh, CheckoutDuplicate, CheckoutInvalid, CheckoutProved,
              facilitatorVars, storeVars, Shaped, Still
<1> QED BY <1>1, <1>2, <1>3 DEF CheckoutStep

LEMMA ConfirmerShaped ==
    ASSUME TypeInv, CreditInv, NEW c \in Confirmers, ConfirmerStep(c)
    PROVE  Shaped
<1>0. ProcessTypeOK /\ StoreTypeOK
  BY TypeParts
<1> USE DEF facilitatorVars, storeVars, PlainEdges, Status
<1>1. CASE \/ ConfirmerTick(c) \/ (\E o \in Orders : ConfirmerPoll(c, o))
           \/ ConfirmerCreditFailed(c) \/ ConfirmerEnqueue(c)
  BY <1>1 DEF ConfirmerTick, ConfirmerPoll, ConfirmerCreditFailed, ConfirmerEnqueue,
              Shaped, Still
<1>2. CASE ConfirmerCredit(c)
  <2>1. cur[c] \in TopUps /\ status[cur[c]] = "confirmed" /\ credits[cur[c]] = 0
    BY <1>2 DEF ConfirmerCredit, CreditInv, CrediterOwnsOrder, Crediting
  <2>2. credits' = [credits EXCEPT ![cur[c]] = 1]
    BY <1>2, <2>1 DEF ConfirmerCredit
  <2> QED BY <1>2, <2>1, <2>2 DEF ConfirmerCredit, FirstCredit, Shaped
<1>3. CASE ConfirmerFail(c) \/ ConfirmerConfirm(c) \/ ConfirmerCredited(c)
  <2>1. CASE cur[c] \in Orders
    BY <1>3, <2>1, MoveShaped DEF ConfirmerFail, ConfirmerConfirm, ConfirmerCredited
  <2>2. CASE cur[c] = NoOrder
    <3>1. status' = status
      BY <1>0, <1>3, <2>2, PaymentAssumption
         DEF ConfirmerFail, ConfirmerConfirm, ConfirmerCredited, MoveIfPossible, StoreTypeOK
    <3> QED BY <1>3, <3>1 DEF ConfirmerFail, ConfirmerConfirm, ConfirmerCredited, Shaped, Still
  <2> QED BY <1>0, <1>3, <2>1, <2>2 DEF ProcessTypeOK
<1> QED BY <1>1, <1>2, <1>3 DEF ConfirmerStep

LEMMA RequestShaped ==
    ASSUME TypeInv, Request
    PROVE  Shaped
<1>0. StoreTypeOK
  BY TypeParts
<1>1. ASSUME NEW o \in Orders, status[o] \in {"absent", "created"}, SetStatus(o, "created"),
             UNCHANGED <<txHash, credits, chain>>
      PROVE  Shaped
  <2>1. CASE status[o] = "created"
    BY <1>0, <1>1, <2>1 DEF SetStatus, StoreTypeOK, Shaped, Still
  <2>2. CASE status[o] = "absent"
    BY <1>1, <2>2 DEF SetStatus, Shaped, PlainMove, PlainEdges, Status
  <2> QED BY <1>1, <2>1, <2>2
<1>2. ASSUME NEW o \in Orders, CreatePayment(o) PROVE Shaped
  BY <1>1, <1>2 DEF CreatePayment, facilitatorVars
<1>3. ASSUME NEW h \in Handlers, NEW o \in Orders, NEW tx \in Txs, SubmitRead(h, o, tx)
      PROVE  Shaped
  BY <1>3 DEF SubmitRead, facilitatorVars, storeVars, Shaped, Still
<1>4. ASSUME NEW h \in Handlers, NEW o \in Orders, NEW tx \in Txs, CheckoutRead(h, o, tx)
      PROVE  Shaped
  BY <1>1, <1>4 DEF CheckoutRead, facilitatorVars
<1> QED BY <1>2, <1>3, <1>4 DEF Request

LEMMA StepShaped ==
    ASSUME TypeInv, SuccessInv, PaidInv, CreditInv, [PaymentNext]_vars
    PROVE  Shaped
<1>1. CASE Crash \/ (\E o \in Orders : DeadlinePasses(o)) \/ UNCHANGED vars
  BY <1>1 DEF Crash, DeadlinePasses, vars, facilitatorVars, storeVars, Shaped, Still
<1> QED BY <1>1, EnvironmentShaped, SubmitShaped, SettleShaped, CheckoutShaped,
           ConfirmerShaped, RequestShaped DEF PaymentNext, HandlerStep

------------------------------------------------------------------------------
(* The shapes keep unsettled orders without a hash. *)
LEMMA NoHashStep ==
    ASSUME TypeInv, NoHashYet, Shaped
    PROVE  NoHashYet'
<1>0. StoreTypeOK
  BY TypeParts
<1>1. CASE Still \/ FirstCredit \/ OnChain
  BY <1>1, NoHashFrame DEF Still, FirstCredit, OnChain
<1>2. CASE PlainMove
  BY <1>0, <1>2, NoHashFrame DEF PlainMove, PlainEdges, StoreTypeOK
<1>3. CASE Settlement
  BY <1>0, <1>3 DEF Settlement, NoHashYet, PaidStatus, StoreTypeOK
<1> QED BY <1>1, <1>2, <1>3 DEF Shaped

THEOREM NoHashInvariance == PaymentSpec => []NoHashYet
<1>1. TypeInv /\ SuccessInv /\ PaidInv /\ CreditInv /\ NoHashYet /\ [PaymentNext]_vars => NoHashYet'
  BY StepShaped, NoHashStep
<1> QED BY <1>1, NoHashInit, TypeInvariance, SuccessInvariance, PaidInvariance, CreditInvariance,
           PTL DEF PaymentSpec

LEMMA LifecycleStarts == PaymentInit => Lifecycle!LifecycleInit
BY DEF PaymentInit, FacilitatorInit, ChainInit, Lifecycle!LifecycleInit, StageOf, Executed

(* The gateway keeps the promise of PaymentLifecycle, whatever the numbers *)
(* of orders, requests and replicas, with crashes and forks.               *)
THEOREM GatewayImplementsLifecycle == PaymentSpec => ImplementsLifecycle
<1>1. TypeInv /\ SuccessInv /\ PaidInv /\ CreditInv /\ NoHashYet /\ [PaymentNext]_vars
      => LifecycleStep
  BY StepShaped, ShapedMaps
<1> QED BY <1>1, LifecycleStarts, NoHashInvariance, TypeInvariance, SuccessInvariance,
           PaidInvariance, CreditInvariance, PTL
        DEF PaymentSpec, ImplementsLifecycle, Lifecycle!LifecycleSpec, LifecycleStep
==============================================================================
