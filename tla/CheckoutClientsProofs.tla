------------------------ MODULE CheckoutClientsProofs ------------------------
(***************************************************************************)
(* Proofs about CheckoutClients, for any number of calls, orders under way *)
(* and faults: a reported success is a paid order, money moves only in     *)
(* runs that are meant to pay, a green result is the expected one, the     *)
(* console's cards show where the money is, and the gateway its clients    *)
(* see implements PaymentLifecycle.                                        *)
(***************************************************************************)
EXTENDS CheckoutClients, TLAPS

Places == {"none", "asking", "building", "sleeping", "ready", "verifying", "settling",
           "settled", "answered", "done"}
Active == {"asking", "building", "sleeping", "ready", "verifying", "settling", "settled"}
OrderStatus == {"absent", "created", "expired", "confirmed"}
AnyKey == (Calls \cup {Cart, NoCall}) \X {"key", "id"}
Call == [kind : Kinds, key : AnyKey, header : [tx : Calls \cup {NoCall}, nonce : AnyKey,
             form : BOOLEAN, resource : BOOLEAN, network : BOOLEAN], at : Places, reply : Replies,
         gone : BOOLEAN]
Result == [shown : BOOLEAN, ok : BOOLEAN, steps : BOOLEAN]
PageState == [running : BOOLEAN, call : Calls \cup {NoCall}, result : Result,
              header : [tx : Calls \cup {NoCall}, nonce : AnyKey,
                        form : BOOLEAN, resource : BOOLEAN, network : BOOLEAN], idem : AnyKey]
Consoles == DOMAIN Scenarios

TypeInv ==
    /\ orders \in [Keys -> OrderStatus]
    /\ receipts \in [Keys -> Calls \cup {NoCall}]
    /\ late \subseteq Keys
    /\ proofs \in [Calls -> {"none", "verified", "rejected"}]
    /\ executed \subseteq Calls /\ loose \subseteq Calls
    /\ calls \in [Calls -> Call]
    /\ pages \in [Consoles -> PageState]

(* A call that may still act has an order; it has answered when it has a   *)
(* reply.                                                                  *)
KeyInv(c) ==
    /\ calls[c].at \in Active \/ calls[c].kind # "haba" \/ calls[c].reply = "paid" =>
           calls[c].key \in Keys
    /\ calls[c].reply # "none" => calls[c].at \in {"answered", "done"}

(* What a call's header is worth. *)
HeaderInv(c) ==
    LET h == calls[c].header
        s == calls[c].kind
    IN  /\ s = "tamper-resource" => ~h.resource
        /\ s = "tamper-network" => ~h.network
        /\ s \in {"malformed", "direct-verify"} => ~h.form
        /\ s \in {"tamper-resource", "tamper-network"} /\ calls[c].at = "ready" => h.form
        /\ s = "expired" /\ calls[c].at = "ready" => calls[c].key \in late
        /\ s = "replay" => h.tx \in Calls /\ proofs[h.tx] # "none"
        /\ s # "replay" /\ h.form => h.tx = c
        /\ s = "malformed" => calls[c].at \notin {"asking", "building", "sleeping"}
        /\ s = "replay" => calls[c].at \notin {"asking", "building", "sleeping"}
        /\ calls[c].at = "sleeping" => s = "expired"

(* A call past the checks of the gateway carries its own transaction, and  *)
(* is one that is meant to pay.                                            *)
PastInv(c) ==
    /\ calls[c].at \in {"verifying", "settling", "settled"} =>
           \/ calls[c].kind = "direct-verify" /\ calls[c].at = "verifying"
           \/ calls[c].kind \in Pays /\ calls[c].header.tx = c /\ proofs[c] = "verified"
    /\ calls[c].kind = "direct-verify" => calls[c].at \in {"verifying", "answered", "done"}
    /\ calls[c].at = "settled" => c \in executed

(* What the replies of a call say. *)
ReplyInv(c) ==
    LET r == calls[c].reply
        s == calls[c].kind
    IN  /\ r = "paid" => /\ s \in Pays /\ calls[c].header.tx = c /\ proofs[c] = "verified"
                         /\ orders[calls[c].key] = "confirmed"
                         /\ receipts[calls[c].key] = c
                         /\ c \in executed
        /\ r # "invalid"
        /\ s = "direct-verify" => r \in {"none", "unauthorized"}
        /\ r \in {"conflict", "VERIFY_FAILED"} => s \in Pays
        /\ s = "malformed" => r \in {"none", "lost", "X_PAYMENT_INVALID"}
        /\ s \in {"tamper-resource", "tamper-network"} =>
               r \in {"none", "unchallenged", "lost", "unbuilt", "REQUIREMENTS_MISMATCH"}

(* Money that moved, or may still move. *)
MoneyInv(c) ==
    c \in executed \cup loose =>
        /\ calls[c].kind \in Pays
        /\ \/ calls[c].at = "settled"
           \/ /\ calls[c].at \in {"answered", "done"}
              /\ calls[c].reply \in {"paid", "conflict", "unsettled"}

CallInv(c) == KeyInv(c) /\ HeaderInv(c) /\ PastInv(c) /\ ReplyInv(c) /\ MoneyInv(c)

(* A page runs a call, remembers a header that was verified, and is green  *)
(* only for what it expects.                                               *)
PageInv(p) ==
    /\ pages[p].running => pages[p].call \in Calls
    /\ pages[p].header # NoHeader =>
           /\ pages[p].header.tx \in Calls
           /\ proofs[pages[p].header.tx] # "none"
           /\ pages[p].idem \in Keys
    /\ pages[p].result.ok =>
           /\ pages[p].call \in Calls
           /\ calls[pages[p].call].at = "done" /\ ~calls[pages[p].call].gone
           /\ calls[pages[p].call].reply \in Expected(calls[pages[p].call].kind)
           /\ calls[pages[p].call].kind # "direct-verify"

ClientsInv == TypeInv /\ (\A c \in Calls : CallInv(c)) /\ (\A p \in Consoles : PageInv(p))

------------------------------------------------------------------------------
(* What a step of one call leaves of the others and of the pages.          *)

(* Nothing that was decided is taken back. *)
Monotone ==
    /\ \A k \in Keys : orders[k] = "confirmed" => orders'[k] = "confirmed" /\ receipts'[k] = receipts[k]
    /\ \A t \in Calls : proofs[t] # "none" => proofs'[t] = proofs[t]
    /\ late \subseteq late'
    /\ executed \subseteq executed'

LEMMA CallKept ==
    ASSUME TypeInv, TypeInv', Monotone, NEW d \in Calls, CallInv(d), calls'[d] = calls[d],
           d \in executed' \cup loose' => d \in executed \cup loose
    PROVE  CallInv(d)'
<1>0. calls[d] \in Call
  BY DEF TypeInv
<1>1. KeyInv(d)'
  BY DEF CallInv, KeyInv
<1>2. HeaderInv(d)'
  BY <1>0 DEF CallInv, HeaderInv, Monotone, TypeInv
<1>3. PastInv(d)'
  BY DEF CallInv, PastInv, Monotone, TypeInv
<1>4. ReplyInv(d)'
  <2>1. CASE calls[d].reply = "paid"
    <3>1. calls[d].key \in Keys
      BY <2>1 DEF CallInv, KeyInv
    <3>2. QED
      BY <3>1, <2>1 DEF CallInv, ReplyInv, Monotone, TypeInv
  <2>2. CASE calls[d].reply # "paid"
    BY <2>2 DEF CallInv, ReplyInv
  <2>3. QED
    BY <2>1, <2>2
<1>5. MoneyInv(d)'
  BY DEF CallInv, MoneyInv
<1>6. QED
  BY <1>1, <1>2, <1>3, <1>4, <1>5 DEF CallInv

LEMMA PageKept ==
    ASSUME TypeInv, TypeInv', Monotone, NEW p \in Consoles, PageInv(p), pages'[p] = pages[p],
           \A c \in Calls : calls[c].at = "done" => calls'[c] = calls[c]
    PROVE  PageInv(p)'
BY DEF PageInv, Monotone, TypeInv, Expected

LEMMA Going ==
    ASSUME TypeInv, NEW c \in Calls, NEW at \in Places, Goto(c, at)
    PROVE  /\ calls' \in [Calls -> Call]
           /\ calls'[c] = [calls[c] EXCEPT !.at = at]
           /\ \A d \in Calls \ {c} : calls'[d] = calls[d]
BY DEF TypeInv, Goto, Call

LEMMA Replying ==
    ASSUME TypeInv, NEW c \in Calls, NEW r \in Replies, Reply(c, r)
    PROVE  /\ calls' \in [Calls -> Call]
           /\ calls'[c] = [calls[c] EXCEPT !.at = "answered", !.reply = r]
           /\ \A d \in Calls \ {c} : calls'[d] = calls[d]
<1>1. calls[c] \in Call
  BY DEF TypeInv
<1>2. calls'[c] = [calls[c] EXCEPT !.at = "answered", !.reply = r]
  BY <1>1 DEF TypeInv, Reply, Call
<1>3. calls'[c] \in Call
  BY <1>1, <1>2 DEF Call, Places
<1>4. QED
  BY <1>2, <1>3 DEF TypeInv, Reply

(* A step of one call that is not over, without a page. *)
LEMMA CallStep ==
    ASSUME ClientsInv, TypeInv', Monotone, NEW c \in Calls, calls[c].at # "done", CallInv(c)',
           pages' = pages,
           \A d \in Calls \ {c} : /\ calls'[d] = calls[d]
                                  /\ d \in executed' \cup loose' => d \in executed \cup loose
    PROVE  ClientsInv'
<1>1. \A d \in Calls : CallInv(d)'
  <2> TAKE d \in Calls
  <2>1. CASE d = c
    BY <2>1
  <2>2. CASE d # c
    BY <2>2, CallKept DEF ClientsInv
  <2>3. QED
    BY <2>1, <2>2
<1>2. \A p \in Consoles : PageInv(p)'
  <2> TAKE p \in Consoles
  <2>1. \A d \in Calls : calls[d].at = "done" => calls'[d] = calls[d]
    OBVIOUS
  <2>2. QED
    BY <2>1, PageKept DEF ClientsInv
<1>3. QED
  BY <1>1, <1>2 DEF ClientsInv

------------------------------------------------------------------------------
(* The steps of a call.                                                    *)

LEMMA OpenedType ==
    ASSUME TypeInv, NEW k
    PROVE  /\ Opened(k) \in [Keys -> OrderStatus]
           /\ \A j \in Keys : orders[j] = "confirmed" => Opened(k)[j] = "confirmed"
           /\ \A j \in Keys : Opened(k)[j] = "confirmed" => orders[j] = "confirmed"
BY DEF TypeInv, Opened, OrderStatus

LEMMA AskStep ==
    ASSUME ClientsInv, NEW c \in Calls, Ask(c)
    PROVE  ClientsInv'
<1>0. TypeInv /\ CallInv(c) /\ calls[c] \in Call
  BY DEF ClientsInv, TypeInv
<1>1. orders' \in [Keys -> OrderStatus] /\ Monotone
  BY <1>0, OpenedType DEF Ask, TypeInv, Monotone, weaVars
<1>2. CASE Goto(c, "building")
  <2>1. /\ calls' \in [Calls -> Call]
        /\ calls'[c] = [calls[c] EXCEPT !.at = "building"]
        /\ \A d \in Calls \ {c} : calls'[d] = calls[d]
    BY <1>0, <1>2, Going DEF Places
  <2>2. TypeInv'
    BY <1>0, <1>1, <2>1 DEF Ask, TypeInv, weaVars
  <2>3. CallInv(c)'
    BY <1>0, <2>1 DEF Ask, weaVars, Call, CallInv, KeyInv, Active, HeaderInv, PastInv, ReplyInv, MoneyInv
  <2>4. QED
    BY <1>0, <1>1, <2>1, <2>2, <2>3, CallStep DEF Ask, weaVars
<1>3. ASSUME NEW r \in {"unchallenged", "lost"}, Reply(c, r)
      PROVE  ClientsInv'
  <2>1. /\ calls' \in [Calls -> Call]
        /\ calls'[c] = [calls[c] EXCEPT !.at = "answered", !.reply = r]
        /\ \A d \in Calls \ {c} : calls'[d] = calls[d]
    BY <1>0, <1>3, Replying DEF Replies, Status
  <2>2. TypeInv'
    BY <1>0, <1>1, <2>1 DEF Ask, TypeInv, weaVars
  <2>3. CallInv(c)'
    BY <1>0, <2>1 DEF Ask, weaVars, Call, CallInv, KeyInv, Active, HeaderInv, PastInv, ReplyInv, MoneyInv
  <2>4. QED
    BY <1>0, <1>1, <2>1, <2>2, <2>3, CallStep DEF Ask, weaVars
<1>4. QED
  BY <1>2, <1>3 DEF Ask

LEMMA BuildStep ==
    ASSUME ClientsInv, NEW c \in Calls, Build(c)
    PROVE  ClientsInv'
<1>0. TypeInv /\ CallInv(c) /\ calls[c] \in Call /\ calls[c].key \in Keys
  BY DEF ClientsInv, TypeInv, Build, CallInv, KeyInv, Active
<1>1. Monotone
  BY DEF Build, Monotone, gatewayVars, weaVars
<1> DEFINE built == [tx |-> c, nonce |-> calls[c].key,
                     form |-> TRUE, resource |-> TRUE, network |-> TRUE]
           h == Tamper(calls[c].kind, built)
           at == IF calls[c].kind = "expired" THEN "sleeping" ELSE "ready"
<1>2. CASE calls' = [calls EXCEPT ![c].header = h, ![c].at = at]
  <2>1. /\ h.tx = c /\ h.form
        /\ calls[c].kind = "tamper-resource" => ~h.resource
        /\ calls[c].kind = "tamper-network" => ~h.network
        /\ h \in [tx : Calls \cup {NoCall}, nonce : AnyKey,
                  form : BOOLEAN, resource : BOOLEAN, network : BOOLEAN]
    BY <1>0 DEF Tamper, Call
  <2> HIDE DEF h
  <2>2. /\ calls'[c] = [calls[c] EXCEPT !.header = h, !.at = at]
        /\ \A d \in Calls \ {c} : calls'[d] = calls[d]
    BY <1>0, <1>2 DEF TypeInv
  <2>3. calls' \in [Calls -> Call]
    BY <1>0, <1>2, <2>1 DEF TypeInv, Call, Places
  <2>4. TypeInv'
    BY <1>0, <2>3 DEF Build, TypeInv, gatewayVars, weaVars
  <2>5. CallInv(c)'
    BY <1>0, <2>1, <2>2 DEF Build, gatewayVars, weaVars, Call, CallInv, KeyInv, Active, HeaderInv, PastInv, ReplyInv, MoneyInv
  <2>6. QED
    BY <1>0, <1>1, <2>2, <2>4, <2>5, CallStep DEF Build, weaVars
<1>3. ASSUME NEW r \in {"unbuilt", "lost"}, Reply(c, r)
      PROVE  ClientsInv'
  <2>1. /\ calls' \in [Calls -> Call]
        /\ calls'[c] = [calls[c] EXCEPT !.at = "answered", !.reply = r]
        /\ \A d \in Calls \ {c} : calls'[d] = calls[d]
    BY <1>0, <1>3, Replying DEF Replies, Status
  <2>2. TypeInv'
    BY <1>0, <2>1 DEF Build, TypeInv, gatewayVars, weaVars
  <2>3. CallInv(c)'
    BY <1>0, <2>1 DEF Build, gatewayVars, weaVars, Call, CallInv, KeyInv, Active, HeaderInv, PastInv, ReplyInv, MoneyInv
  <2>4. QED
    BY <1>0, <1>1, <2>1, <2>2, <2>3, CallStep DEF Build, weaVars
<1>4. QED
  BY <1>2, <1>3 DEF Build

LEMMA SleepStep ==
    ASSUME ClientsInv, NEW c \in Calls, Sleep(c)
    PROVE  ClientsInv'
<1>0. TypeInv /\ CallInv(c) /\ calls[c] \in Call /\ calls[c].key \in Keys
  BY DEF ClientsInv, TypeInv, Sleep, CallInv, KeyInv, Active
<1>1. Monotone
  BY DEF Sleep, Monotone, weaVars
<1>2. /\ calls' \in [Calls -> Call]
      /\ calls'[c] = [calls[c] EXCEPT !.at = "ready"]
      /\ \A d \in Calls \ {c} : calls'[d] = calls[d]
  BY <1>0, Going DEF Sleep, Places
<1>3. TypeInv'
  BY <1>0, <1>2 DEF Sleep, TypeInv, weaVars
<1>4. CallInv(c)'
  BY <1>0, <1>2 DEF Sleep, weaVars, Call, CallInv, KeyInv, Active, HeaderInv, PastInv, ReplyInv, MoneyInv
<1>5. QED
  BY <1>0, <1>1, <1>2, <1>3, <1>4, CallStep DEF Sleep, weaVars

LEMMA SubmitStep ==
    ASSUME ClientsInv, NEW c \in Calls, Submit(c)
    PROVE  ClientsInv'
<1> DEFINE k == calls[c].key
           h == calls[c].header
           v == Verdict(k, h)
<1>0. TypeInv /\ CallInv(c) /\ calls[c] \in Call /\ k \in Keys
  BY DEF ClientsInv, TypeInv, Submit, CallInv, KeyInv, Active
<1>1. /\ v \in {"X_PAYMENT_INVALID", "REQUIREMENTS_MISMATCH", "ORDER_ALREADY_CONSUMED", "EXPIRED",
                "REPLAY", "PROOF_INVALID", "paid"}
      /\ v = "X_PAYMENT_INVALID" <=> ~h.form
      /\ v = "REQUIREMENTS_MISMATCH" <=> h.form /\ ~(h.resource /\ h.network)
      /\ v = "EXPIRED" => Opened(k)[k] = "created"
      /\ v \in {"PROOF_INVALID", "paid"} => h.form /\ proofs[h.tx] = "none"
      /\ v = "paid" => k \notin late
  BY <1>0 DEF Verdict, Matches, Call
<1>2. v \in {"PROOF_INVALID", "paid"} => h.tx = c /\ calls[c].kind # "replay"
  BY <1>0, <1>1 DEF CallInv, HeaderInv, Call
<1>3. v = "paid" => calls[c].kind \in Pays
  BY <1>0, <1>1, <1>2 DEF CallInv, HeaderInv, PastInv, Submit, Call, Kinds, Attacks, Pays
<1>4. orders' \in [Keys -> OrderStatus]
  BY <1>0, OpenedType DEF Submit, TypeInv, OrderStatus
<1>5. \A j \in Keys : orders[j] = "confirmed" => orders'[j] = "confirmed"
  BY <1>0, <1>1, OpenedType DEF Submit, TypeInv
<1>6. /\ proofs' \in [Calls -> {"none", "verified", "rejected"}]
      /\ \A t \in Calls : proofs[t] # "none" => proofs'[t] = proofs[t]
      /\ v = "paid" => proofs'[c] = "verified"
  BY <1>0, <1>1, <1>2 DEF Submit, TypeInv
<1>7. Monotone
  BY <1>5, <1>6 DEF Submit, Monotone, weaVars
<1>8. CASE v = "paid"
  <2>1. /\ calls' \in [Calls -> Call]
        /\ calls'[c] = [calls[c] EXCEPT !.at = "verifying"]
        /\ \A d \in Calls \ {c} : calls'[d] = calls[d]
    BY <1>0, <1>8, Going DEF Submit, Places
  <2>2. TypeInv'
    BY <1>0, <1>4, <1>6, <2>1 DEF Submit, TypeInv, weaVars
  <2>3. (KeyInv(c) /\ ReplyInv(c) /\ MoneyInv(c))'
    BY <1>0, <1>3, <2>1 DEF Submit, weaVars, Call, CallInv, KeyInv, ReplyInv, MoneyInv
  <2>4. (HeaderInv(c) /\ PastInv(c))'
    BY <1>0, <1>1, <1>2, <1>3, <1>6, <1>8, <2>1 DEF Submit, weaVars, Call, CallInv, HeaderInv, PastInv, Pays
  <2>5. QED
    BY <1>0, <1>7, <2>1, <2>2, <2>3, <2>4, CallStep DEF Submit, weaVars, CallInv
<1>9. CASE v # "paid"
  <2>1. /\ calls' \in [Calls -> Call]
        /\ calls'[c] = [calls[c] EXCEPT !.at = "answered", !.reply = v]
        /\ \A d \in Calls \ {c} : calls'[d] = calls[d]
    BY <1>0, <1>1, <1>9, Replying DEF Submit, Replies, Status
  <2>2. TypeInv'
    BY <1>0, <1>4, <1>6, <2>1 DEF Submit, TypeInv, weaVars
  <2>3. (KeyInv(c) /\ MoneyInv(c))'
    BY <1>0, <1>9, <2>1 DEF Submit, weaVars, Call, CallInv, KeyInv, MoneyInv
  <2>4. HeaderInv(c)'
    BY <1>0, <1>6, <2>1 DEF Submit, weaVars, Call, CallInv, HeaderInv, TypeInv
  <2>5. PastInv(c)'
    BY <1>0, <2>1 DEF Submit, weaVars, Call, CallInv, PastInv
  <2>6. ReplyInv(c)'
    BY <1>0, <1>1, <1>9, <2>1 DEF Submit, weaVars, Call, CallInv, HeaderInv, PastInv, ReplyInv
  <2>7. QED
    BY <1>0, <1>7, <2>1, <2>2, <2>3, <2>4, <2>5, <2>6, CallStep DEF Submit, weaVars, CallInv
<1>10. QED
  BY <1>8, <1>9

LEMMA SubmitLostStep ==
    ASSUME ClientsInv, NEW c \in Calls, SubmitLost(c)
    PROVE  ClientsInv'
<1>0. TypeInv /\ CallInv(c) /\ calls[c] \in Call /\ calls[c].key \in Keys
  BY DEF ClientsInv, TypeInv, SubmitLost, CallInv, KeyInv, Active
<1>1. Monotone
  BY DEF SubmitLost, Monotone, gatewayVars, weaVars
<1>2. /\ calls' \in [Calls -> Call]
      /\ calls'[c] = [calls[c] EXCEPT !.at = "answered", !.reply = "lost"]
      /\ \A d \in Calls \ {c} : calls'[d] = calls[d]
  BY <1>0, Replying DEF SubmitLost, Replies, Status
<1>3. TypeInv'
  BY <1>0, <1>2 DEF SubmitLost, TypeInv, gatewayVars, weaVars
<1>4. (KeyInv(c) /\ PastInv(c) /\ ReplyInv(c) /\ MoneyInv(c))'
  BY <1>0, <1>2 DEF SubmitLost, gatewayVars, weaVars, Call, CallInv, KeyInv, PastInv, ReplyInv, MoneyInv
<1>5. HeaderInv(c)'
  BY <1>0, <1>2 DEF SubmitLost, gatewayVars, weaVars, Call, CallInv, HeaderInv
<1>6. QED
  BY <1>0, <1>1, <1>2, <1>3, <1>4, <1>5, CallStep DEF SubmitLost, weaVars, CallInv

LEMMA LoseAnswerStep ==
    ASSUME ClientsInv, NEW c \in Calls, LoseAnswer(c)
    PROVE  ClientsInv'
<1>0. TypeInv /\ CallInv(c) /\ calls[c] \in Call /\ calls[c].at # "done"
  BY DEF ClientsInv, TypeInv, LoseAnswer
<1>1. Monotone
  BY DEF LoseAnswer, Monotone, gatewayVars, weaVars
<1>2. /\ calls' \in [Calls -> Call]
      /\ calls'[c] = [calls[c] EXCEPT !.gone = TRUE]
      /\ \A d \in Calls \ {c} : calls'[d] = calls[d]
  BY <1>0 DEF LoseAnswer, TypeInv, Call
<1>3. TypeInv'
  BY <1>0, <1>2 DEF LoseAnswer, TypeInv, gatewayVars, weaVars
<1>4. /\ calls'[c].kind = calls[c].kind /\ calls'[c].key = calls[c].key
      /\ calls'[c].header = calls[c].header /\ calls'[c].at = calls[c].at
      /\ calls'[c].reply = calls[c].reply
  BY <1>0, <1>2 DEF Call
<1>5. (KeyInv(c) /\ PastInv(c) /\ ReplyInv(c) /\ MoneyInv(c))'
  BY <1>0, <1>4 DEF LoseAnswer, gatewayVars, weaVars, CallInv, KeyInv, PastInv, ReplyInv, MoneyInv
<1>6. HeaderInv(c)'
  BY <1>0, <1>4 DEF LoseAnswer, gatewayVars, weaVars, CallInv, HeaderInv
<1>7. QED
  BY <1>0, <1>1, <1>2, <1>3, <1>5, <1>6, CallStep DEF LoseAnswer, weaVars, CallInv

LEMMA VerifyStep ==
    ASSUME ClientsInv, NEW c \in Calls, Verify(c)
    PROVE  ClientsInv'
<1>0. TypeInv /\ CallInv(c) /\ calls[c] \in Call /\ calls[c].key \in Keys
  BY DEF ClientsInv, TypeInv, Verify, CallInv, KeyInv, Active
<1>1. Monotone
  BY DEF Verify, Monotone, gatewayVars, weaVars
<1>2. CASE Authorized(c) /\ Goto(c, "settling")
  <2>1. /\ calls' \in [Calls -> Call]
        /\ calls'[c] = [calls[c] EXCEPT !.at = "settling"]
        /\ \A d \in Calls \ {c} : calls'[d] = calls[d]
    BY <1>0, <1>2, Going DEF Places
  <2>2. TypeInv'
    BY <1>0, <2>1 DEF Verify, TypeInv, gatewayVars, weaVars
  <2>3. CallInv(c)'
    BY <1>0, <1>2, <2>1 DEF Verify, Authorized, gatewayVars, weaVars, Call, CallInv, KeyInv, HeaderInv, PastInv, ReplyInv, MoneyInv, Pays
  <2>4. QED
    BY <1>0, <1>1, <2>1, <2>2, <2>3, CallStep DEF Verify, weaVars
<1>3. ASSUME NEW r \in {"unauthorized", "VERIFY_FAILED", "unsettled"}, Reply(c, r),
             r = "unauthorized" <=> ~Authorized(c)
      PROVE  ClientsInv'
  <2>1. /\ calls' \in [Calls -> Call]
        /\ calls'[c] = [calls[c] EXCEPT !.at = "answered", !.reply = r]
        /\ \A d \in Calls \ {c} : calls'[d] = calls[d]
    BY <1>0, <1>3, Replying DEF Replies, Status
  <2>2. TypeInv'
    BY <1>0, <2>1 DEF Verify, TypeInv, gatewayVars, weaVars
  <2>3. (KeyInv(c) /\ HeaderInv(c) /\ PastInv(c))'
    BY <1>0, <1>3, <2>1 DEF Verify, gatewayVars, weaVars, Call, CallInv, KeyInv, HeaderInv, PastInv
  <2>4. (ReplyInv(c) /\ MoneyInv(c))'
    BY <1>0, <1>3, <2>1 DEF Verify, Authorized, gatewayVars, weaVars, Call, CallInv, PastInv, ReplyInv, MoneyInv, Pays
  <2>5. QED
    BY <1>0, <1>1, <2>1, <2>2, <2>3, <2>4, CallStep DEF Verify, weaVars, CallInv
<1>4. QED
  <2>1. CASE ~Authorized(c) /\ Reply(c, "unauthorized")
    BY <1>3, <2>1
  <2>2. CASE Authorized(c) /\ \E r \in {"VERIFY_FAILED", "unsettled"} : Reply(c, r)
    BY <1>3, <2>2
  <2>3. QED
    BY <1>2, <2>1, <2>2 DEF Verify

LEMMA SettleStep ==
    ASSUME ClientsInv, NEW c \in Calls, Settle(c)
    PROVE  ClientsInv'
<1>0. /\ TypeInv /\ CallInv(c) /\ calls[c] \in Call /\ calls[c].key \in Keys
      /\ calls[c].kind \in Pays /\ calls[c].header.tx = c
  BY DEF ClientsInv, TypeInv, Settle, CallInv, KeyInv, PastInv, Active
<1>1. Monotone
  BY DEF Settle, Monotone, gatewayVars
<1>2. CASE executed' = executed \cup {c} /\ Goto(c, "settled") /\ loose' = loose
  <2>1. /\ calls' \in [Calls -> Call]
        /\ calls'[c] = [calls[c] EXCEPT !.at = "settled"]
        /\ \A d \in Calls \ {c} : calls'[d] = calls[d]
    BY <1>0, <1>2, Going DEF Places
  <2>2. TypeInv'
    BY <1>0, <1>2, <2>1 DEF Settle, TypeInv, gatewayVars
  <2>3. CallInv(c)'
    BY <1>0, <1>2, <2>1 DEF Settle, gatewayVars, Call, CallInv, KeyInv, HeaderInv, PastInv, ReplyInv, MoneyInv
  <2>4. QED
    BY <1>0, <1>1, <1>2, <2>1, <2>2, <2>3, CallStep DEF Settle
<1>3. CASE loose' \in {loose, loose \cup {c}} /\ Reply(c, "unsettled") /\ executed' = executed
  <2>1. /\ calls' \in [Calls -> Call]
        /\ calls'[c] = [calls[c] EXCEPT !.at = "answered", !.reply = "unsettled"]
        /\ \A d \in Calls \ {c} : calls'[d] = calls[d]
    BY <1>0, <1>3, Replying DEF Replies, Status
  <2>2. TypeInv'
    BY <1>0, <1>3, <2>1 DEF Settle, TypeInv, gatewayVars
  <2>3. (KeyInv(c) /\ HeaderInv(c) /\ PastInv(c))'
    BY <1>0, <2>1 DEF Settle, gatewayVars, Call, CallInv, KeyInv, HeaderInv, PastInv
  <2>4. (ReplyInv(c) /\ MoneyInv(c))'
    BY <1>0, <2>1 DEF Settle, gatewayVars, Call, ReplyInv, MoneyInv, Pays
  <2>5. QED
    BY <1>0, <1>1, <1>3, <2>1, <2>2, <2>3, <2>4, CallStep DEF Settle, CallInv
<1>4. QED
  BY <1>0, <1>2, <1>3 DEF Settle

LEMMA FinishStep ==
    ASSUME ClientsInv, NEW c \in Calls, Finish(c)
    PROVE  ClientsInv'
<1> DEFINE k == calls[c].key
<1>0. /\ TypeInv /\ CallInv(c) /\ calls[c] \in Call /\ k \in Keys
      /\ calls[c].kind \in Pays /\ calls[c].header.tx = c /\ proofs[c] = "verified"
      /\ c \in executed
  BY DEF ClientsInv, TypeInv, Finish, CallInv, KeyInv, PastInv, Active
<1>1. CASE orders[k] = "created"
  <2>1. /\ calls' \in [Calls -> Call]
        /\ calls'[c] = [calls[c] EXCEPT !.at = "answered", !.reply = "paid"]
        /\ \A d \in Calls \ {c} : calls'[d] = calls[d]
    BY <1>0, <1>1, Replying DEF Finish, Replies, Status
  <2>2. TypeInv'
    BY <1>0, <1>1, <2>1 DEF Finish, TypeInv, OrderStatus, weaVars
  <2>3. Monotone
    BY <1>0, <1>1 DEF Finish, Monotone, TypeInv, weaVars
  <2>4. CallInv(c)'
    BY <1>0, <1>1, <2>1 DEF Finish, TypeInv, weaVars, Call, CallInv, KeyInv, HeaderInv, PastInv, ReplyInv, MoneyInv, Pays
  <2>5. QED
    BY <1>0, <2>1, <2>2, <2>3, <2>4, CallStep DEF Finish, weaVars
<1>2. CASE orders[k] # "created"
  <2>1. /\ calls' \in [Calls -> Call]
        /\ calls'[c] = [calls[c] EXCEPT !.at = "answered", !.reply = "conflict"]
        /\ \A d \in Calls \ {c} : calls'[d] = calls[d]
    BY <1>0, <1>2, Replying DEF Finish, Replies, Status
  <2>2. TypeInv'
    BY <1>0, <1>2, <2>1 DEF Finish, TypeInv, weaVars
  <2>3. Monotone
    BY <1>0, <1>2 DEF Finish, Monotone, weaVars
  <2>4. CallInv(c)'
    BY <1>0, <1>2, <2>1 DEF Finish, weaVars, Call, CallInv, KeyInv, HeaderInv, PastInv, ReplyInv, MoneyInv, Pays
  <2>5. QED
    BY <1>0, <2>1, <2>2, <2>3, <2>4, CallStep DEF Finish, weaVars
<1>3. QED
  BY <1>1, <1>2

(* A step that touches neither calls nor pages. *)
LEMMA QuietStep ==
    ASSUME ClientsInv, TypeInv', Monotone, calls' = calls, pages' = pages,
           executed' \cup loose' \subseteq executed \cup loose
    PROVE  ClientsInv'
<1>1. ASSUME NEW d \in Calls
      PROVE  CallInv(d)'
  <2>1. TypeInv /\ CallInv(d)
    BY DEF ClientsInv
  <2>2. calls'[d] = calls[d] /\ (d \in executed' \cup loose' => d \in executed \cup loose)
    OBVIOUS
  <2>3. QED
    BY <2>1, <2>2, CallKept
<1>2. ASSUME NEW p \in Consoles
      PROVE  PageInv(p)'
  <2>1. TypeInv /\ PageInv(p)
    BY DEF ClientsInv
  <2>2. \A c \in Calls : calls[c].at = "done" => calls'[c] = calls[c]
    OBVIOUS
  <2>3. pages'[p] = pages[p]
    OBVIOUS
  <2>4. QED
    BY <2>1, <2>2, <2>3, PageKept
<1>3. QED
  BY <1>1, <1>2 DEF ClientsInv

LEMMA LandStep ==
    ASSUME ClientsInv, NEW c \in Calls, Land(c)
    PROVE  ClientsInv'
<1>1. Monotone /\ TypeInv'
  BY DEF ClientsInv, Land, Monotone, TypeInv, gatewayVars
<1>2. QED
  BY <1>1, QuietStep DEF Land

LEMMA DeadlineStep ==
    ASSUME ClientsInv, NEW k \in Keys, Deadline(k)
    PROVE  ClientsInv'
<1>1. Monotone /\ TypeInv'
  BY DEF ClientsInv, Deadline, Monotone, TypeInv, weaVars
<1>2. QED
  BY <1>1, QuietStep DEF Deadline, weaVars

LEMMA OrderAnsweredStep ==
    ASSUME ClientsInv, NEW c \in Calls, OrderAnswered(c)
    PROVE  ClientsInv'
<1>0. TypeInv /\ CallInv(c) /\ calls[c] \in Call
  BY DEF ClientsInv, TypeInv
<1>1. /\ calls' \in [Calls -> Call]
      /\ calls'[c] = [calls[c] EXCEPT !.at = "done"]
      /\ \A d \in Calls \ {c} : calls'[d] = calls[d]
  BY <1>0 DEF OrderAnswered, Delivered, TypeInv, Call, Places
<1>2. TypeInv' /\ Monotone
  BY <1>0, <1>1 DEF OrderAnswered, TypeInv, Monotone, gatewayVars, weaVars
<1>3. CallInv(c)'
  BY <1>0, <1>1 DEF OrderAnswered, gatewayVars, weaVars, Call, CallInv, KeyInv, Active, HeaderInv, PastInv, ReplyInv, MoneyInv
<1>4. QED
  BY <1>0, <1>1, <1>2, <1>3, CallStep DEF OrderAnswered, weaVars

LEMMA UnusedCall ==
    ASSUME Unused # {}
    PROVE  /\ (CHOOSE u \in Unused : TRUE) \in Calls
           /\ calls[CHOOSE u \in Unused : TRUE].at = "none"
BY DEF Unused

LEMMA KeyFacts ==
    ASSUME NEW c \in Calls
    PROVE  /\ <<Cart, "key">> \in Keys /\ <<c, "key">> \in Keys /\ <<c, "id">> \in Keys
           /\ NoKey \in AnyKey /\ Keys \subseteq AnyKey
BY DEF Keys, NoKey, AnyKey

LEMMA NoHeaderType ==
    /\ NoHeader \in [tx : Calls \cup {NoCall}, nonce : AnyKey,
                     form : BOOLEAN, resource : BOOLEAN, network : BOOLEAN]
    /\ ~NoHeader.form
BY DEF NoHeader, NoKey, AnyKey

LEMMA PlaceOrderStep ==
    ASSUME ClientsInv, PlaceOrder
    PROVE  ClientsInv'
<1>0. /\ TypeInv
      /\ orders' = orders /\ receipts' = receipts /\ late' = late /\ proofs' = proofs
      /\ executed' = executed /\ loose' = loose /\ pages' = pages
  BY DEF ClientsInv, PlaceOrder, gatewayVars, weaVars
<1>1. PICK c \in Calls :
          /\ calls[c].at = "none"
          /\ \E new \in {[Idle EXCEPT !.key = <<Cart, "key">>, !.at = "asking"],
                         [Idle EXCEPT !.key = <<c, "key">>, !.at = "asking"],
                         [Idle EXCEPT !.at = "answered", !.reply = "bad_request"]} :
                 calls' = [calls EXCEPT ![c] = new]
  BY UnusedCall DEF PlaceOrder
<1>2. PICK new \in {[Idle EXCEPT !.key = <<Cart, "key">>, !.at = "asking"],
                   [Idle EXCEPT !.key = <<c, "key">>, !.at = "asking"],
                   [Idle EXCEPT !.at = "answered", !.reply = "bad_request"]} :
                 calls' = [calls EXCEPT ![c] = new]
  BY <1>1
<1>3. /\ new \in Call /\ new.kind = "haba" /\ new.at \in {"asking", "answered"}
      /\ new.at = "asking" => new.key \in Keys /\ new.reply = "none"
      /\ new.at = "answered" => new.reply = "bad_request"
      /\ new.header = NoHeader
  <2>0. Idle = [kind |-> "haba", key |-> NoKey, header |-> NoHeader, at |-> "none", reply |-> "none",
                gone |-> FALSE]
    BY DEF Idle
  <2>1. CASE new = [Idle EXCEPT !.key = <<Cart, "key">>, !.at = "asking"]
    BY <2>0, <2>1, KeyFacts, NoHeaderType DEF Call, Kinds, Places, Replies, Status
  <2>2. CASE new = [Idle EXCEPT !.key = <<c, "key">>, !.at = "asking"]
    BY <2>0, <2>2, KeyFacts, NoHeaderType DEF Call, Kinds, Places, Replies, Status
  <2>3. CASE new = [Idle EXCEPT !.at = "answered", !.reply = "bad_request"]
    BY <2>0, <2>3, KeyFacts, NoHeaderType DEF Call, Kinds, Places, Replies, Status
  <2>4. QED
    BY <1>2, <2>1, <2>2, <2>3
<1>4. /\ calls' \in [Calls -> Call]
      /\ calls'[c] = new
      /\ \A d \in Calls \ {c} : calls'[d] = calls[d]
  BY <1>0, <1>2, <1>3 DEF TypeInv
<1>5. TypeInv' /\ Monotone /\ CallInv(c)
  BY <1>0, <1>4 DEF TypeInv, Monotone, ClientsInv
<1>6. CallInv(c)'
  BY <1>0, <1>1, <1>3, <1>4, <1>5, NoHeaderType DEF CallInv, KeyInv, Active, HeaderInv, PastInv, ReplyInv, MoneyInv
<1>7. QED
  BY <1>0, <1>1, <1>4, <1>5, <1>6, CallStep

------------------------------------------------------------------------------
(* The steps of a page.                                                    *)

(* What a status of HTTP leaves open of the reply. *)
LEMMA StatusFacts ==
    ASSUME NEW r \in Replies
    PROVE  /\ Status[r] = 200 => r \in {"paid", "invalid"}
           /\ Status[r] = 402 => r \in {"X_PAYMENT_INVALID", "REQUIREMENTS_MISMATCH",
                                        "PROOF_INVALID", "VERIFY_FAILED"}
           /\ Status[r] = 409 => r \in {"ORDER_ALREADY_CONSUMED", "REPLAY", "conflict"}
BY DEF Replies, Status

(* A route that reports success has seen what its scenario is about. *)
LEMMA OkExpected ==
    ASSUME TypeInv, NEW c \in Calls, CallInv(c), Ok(c)
    PROVE  /\ ~calls[c].gone
           /\ calls[c].reply \in Expected(calls[c].kind)
           /\ calls[c].kind # "direct-verify"
<1> DEFINE s == calls[c].kind
<1>0. /\ calls[c] \in Call /\ s \in Kinds /\ calls[c].reply \in Replies
      /\ calls[c].gone \in BOOLEAN
  BY DEF TypeInv, Call
<1>1. PICK r \in Replies : r = Heard(c) /\ (calls[c].gone => r = "lost")
                          /\ (~calls[c].gone => r = calls[c].reply)
  BY <1>0 DEF Heard, Replies, Status
<1>2. r # "lost" => ~calls[c].gone /\ calls[c].reply = r
  BY <1>0, <1>1
<1>3. Status["lost"] = 500
  BY DEF Status
<1>4. CASE s \in {"haba", "normal", "trigger-payment"}
  <2>1. Status[r] = 200
    BY <1>1, <1>4 DEF Ok, HabaOk, NormalOk, TriggerPaymentOk
  <2>2. r = "paid" /\ ~calls[c].gone /\ calls[c].reply = r
    BY <1>2, <1>4, <2>1, StatusFacts DEF CallInv, ReplyInv
  <2>3. QED
    BY <1>4, <2>2 DEF Expected
<1>5. CASE s = "replay"
  <2>1. Status[r] = 409
    BY <1>1, <1>5 DEF Ok, ReplayOk
  <2>2. r \in {"REPLAY", "ORDER_ALREADY_CONSUMED"} /\ ~calls[c].gone /\ calls[c].reply = r
    BY <1>2, <1>5, <2>1, StatusFacts DEF CallInv, ReplyInv, Pays
  <2>3. QED
    BY <1>5, <2>2 DEF Expected
<1>6. CASE s = "expired"
  <2>1. r = "EXPIRED"
    BY <1>1, <1>6 DEF Ok, ExpiredOk
  <2>2. QED
    BY <1>2, <1>6, <2>1 DEF Expected
<1>7. CASE s \in {"tamper-resource", "tamper-network"}
  <2>1. Status[r] = 402
    BY <1>1, <1>7 DEF Ok, TamperResourceOk, TamperNetworkOk
  <2>2. r = "REQUIREMENTS_MISMATCH" /\ ~calls[c].gone /\ calls[c].reply = r
    BY <1>2, <1>7, <2>1, StatusFacts DEF CallInv, ReplyInv
  <2>3. QED
    BY <1>7, <2>2 DEF Expected
<1>8. CASE s = "malformed"
  <2>1. Status[r] = 402
    BY <1>1, <1>8 DEF Ok, MalformedOk
  <2>2. r = "X_PAYMENT_INVALID" /\ ~calls[c].gone /\ calls[c].reply = r
    BY <1>2, <1>8, <2>1, StatusFacts DEF CallInv, ReplyInv
  <2>3. QED
    BY <1>8, <2>2 DEF Expected
<1>9. s # "direct-verify"
  <2> SUFFICES ASSUME s = "direct-verify"
               PROVE  FALSE
    OBVIOUS
  <2>1. r = "invalid"
    BY <1>1 DEF Ok, DirectVerifyOk
  <2>2. QED
    BY <1>2, <2>1 DEF CallInv, ReplyInv
<1>10. QED
  BY <1>0, <1>4, <1>5, <1>6, <1>7, <1>8, <1>9 DEF Kinds, Attacks

LEMMA OkBoolean ==
    ASSUME TypeInv, NEW c \in Calls
    PROVE  Ok(c) \in BOOLEAN /\ HasSteps(c) \in BOOLEAN
<1>1. calls[c].kind \in Kinds
  BY DEF TypeInv, Call
<1>2. HasSteps(c) \in BOOLEAN
  BY DEF HasSteps
<1>3. CASE calls[c].kind = "haba"
  BY <1>2, <1>3 DEF Ok, HabaOk
<1>4. CASE calls[c].kind = "normal"
  BY <1>2, <1>4 DEF Ok, NormalOk
<1>5. CASE calls[c].kind = "replay"
  BY <1>2, <1>5 DEF Ok, ReplayOk
<1>6. CASE calls[c].kind = "expired"
  BY <1>2, <1>6 DEF Ok, ExpiredOk
<1>7. CASE calls[c].kind = "tamper-resource"
  BY <1>2, <1>7 DEF Ok, TamperResourceOk
<1>8. CASE calls[c].kind = "tamper-network"
  BY <1>2, <1>8 DEF Ok, TamperNetworkOk
<1>9. CASE calls[c].kind = "malformed"
  BY <1>2, <1>9 DEF Ok, MalformedOk
<1>10. CASE calls[c].kind = "trigger-payment"
  BY <1>2, <1>10 DEF Ok, TriggerPaymentOk
<1>11. CASE calls[c].kind = "direct-verify"
  BY <1>2, <1>11 DEF Ok, DirectVerifyOk
<1>12. QED
  BY <1>1, <1>3, <1>4, <1>5, <1>6, <1>7, <1>8, <1>9, <1>10, <1>11 DEF Kinds, Attacks

(* A step of a page and of at most one call, which is not over. *)
LEMMA PageStep ==
    ASSUME ClientsInv, TypeInv', Monotone, NEW p \in Consoles, PageInv(p)',
           \A q \in Consoles \ {p} : pages'[q] = pages[q],
           NEW c, c \in Calls => CallInv(c)' /\ calls[c].at # "done",
           \A d \in Calls \ {c} : calls'[d] = calls[d],
           executed' \cup loose' \subseteq executed \cup loose
    PROVE  ClientsInv'
<1>0. TypeInv
  BY DEF ClientsInv
<1>1. ASSUME NEW d \in Calls
      PROVE  CallInv(d)'
  <2>1. CASE d = c
    BY <2>1
  <2>2. CASE d # c
    <3>1. CallInv(d) /\ calls'[d] = calls[d] /\ (d \in executed' \cup loose' => d \in executed \cup loose)
      BY <2>2 DEF ClientsInv
    <3>2. QED
      BY <1>0, <3>1, CallKept
  <2>3. QED
    BY <2>1, <2>2
<1>2. ASSUME NEW q \in Consoles
      PROVE  PageInv(q)'
  <2>1. CASE q = p
    BY <2>1
  <2>2. CASE q # p
    <3>1. PageInv(q) /\ pages'[q] = pages[q]
      BY <2>2 DEF ClientsInv
    <3>2. \A d \in Calls : calls[d].at = "done" => calls'[d] = calls[d]
      OBVIOUS
    <3>3. QED
      BY <1>0, <3>1, <3>2, PageKept
  <2>3. QED
    BY <2>1, <2>2
<1>3. QED
  BY <1>1, <1>2 DEF ClientsInv

(* A call that has been answered ends; one that has not goes on. *)
LEMMA Delivering ==
    ASSUME TypeInv, NEW c \in Calls, calls' = Delivered(c)
    PROVE  /\ calls' \in [Calls -> Call]
           /\ calls[c].at = "answered" => calls'[c] = [calls[c] EXCEPT !.at = "done"]
           /\ calls[c].at # "answered" => calls'[c] = calls[c]
           /\ \A d \in Calls \ {c} : calls'[d] = calls[d]
<1>1. calls[c] \in Call
  BY DEF TypeInv
<1>2. CASE calls[c].at = "answered"
  BY <1>1, <1>2 DEF TypeInv, Delivered, Call, Places
<1>3. CASE calls[c].at # "answered"
  <2>1. [calls[c] EXCEPT !.at = calls[c].at] = calls[c]
    BY <1>1 DEF Call
  <2>2. QED
    BY <1>1, <1>3, <2>1 DEF TypeInv, Delivered
<1>4. QED
  BY <1>2, <1>3

LEMMA RunScenarioStep ==
    ASSUME ClientsInv, NEW p \in Consoles, NEW s, RunScenario(p, s)
    PROVE  ClientsInv'
<1>0. /\ TypeInv /\ PageInv(p) /\ pages[p] \in PageState
      /\ orders' = orders /\ receipts' = receipts /\ late' = late /\ proofs' = proofs
      /\ executed' = executed /\ loose' = loose
  BY DEF ClientsInv, TypeInv, RunScenario, gatewayVars, weaVars
<1>1. PICK c \in Calls :
          /\ calls[c].at = "none"
          /\ calls' = [calls EXCEPT ![c] =
                 [Idle EXCEPT !.kind = s, !.at = Begins(s),
                              !.key = IF s = "replay" THEN pages[p].idem ELSE <<c, "key">>,
                              !.header = IF s = "replay" THEN pages[p].header ELSE NoHeader]]
          /\ pages' = [pages EXCEPT ![p].running = TRUE, ![p].call = c, ![p].result = NoResult]
  BY UnusedCall DEF RunScenario
<1>2. /\ s \in Kinds \ {"haba"}
      /\ s = "replay" => /\ pages[p].header.tx \in Calls
                         /\ proofs[pages[p].header.tx] # "none"
                         /\ pages[p].idem \in Keys
  <2>1. s \in Kinds \ {"haba"}
    <3>1. s \in Scenarios[p] /\ p \in {"x402", "wea"}
      BY DEF RunScenario, Consoles, Scenarios
    <3>2. s \in {"normal"} \cup Attacks \/ s \in {"trigger-payment", "direct-verify"}
      BY <3>1 DEF Scenarios
    <3>3. QED
      BY <3>2 DEF Kinds, Attacks
  <2>2. s = "replay" => pages[p].header # NoHeader
    BY DEF RunScenario, CanRun
  <2>3. QED
    BY <1>0, <2>1, <2>2 DEF PageInv
<1> DEFINE key == IF s = "replay" THEN pages[p].idem ELSE <<c, "key">>
           header == IF s = "replay" THEN pages[p].header ELSE NoHeader
           new == [kind |-> s, key |-> key, header |-> header, at |-> Begins(s), reply |-> "none",
                   gone |-> FALSE]
<1>3. key \in Keys /\ key \in AnyKey
  BY <1>2, KeyFacts
<1>4. /\ header \in [tx : Calls \cup {NoCall}, nonce : AnyKey,
                     form : BOOLEAN, resource : BOOLEAN, network : BOOLEAN]
      /\ s # "replay" => ~header.form /\ header = NoHeader
      /\ s = "replay" => header.tx \in Calls /\ proofs[header.tx] # "none"
  BY <1>0, <1>2, NoHeaderType DEF PageState
<1>5. /\ Begins(s) \in Places
      /\ Begins(s) = "ready" <=> s \in {"replay", "malformed"}
      /\ Begins(s) = "verifying" <=> s = "direct-verify"
      /\ Begins(s) \in {"ready", "verifying", "asking"}
  BY DEF Begins, Places
<1>6. /\ calls'[c] = new
      /\ \A d \in Calls \ {c} : calls'[d] = calls[d]
  BY <1>0, <1>1 DEF TypeInv, Idle
<1> HIDE DEF key, header
<1>7. new \in Call
  BY <1>2, <1>3, <1>4, <1>5 DEF Call, Replies, Status
<1>8. calls' \in [Calls -> Call]
  BY <1>0, <1>1, <1>6, <1>7 DEF TypeInv
<1>9. /\ pages'[p] = [pages[p] EXCEPT !.running = TRUE, !.call = c, !.result = NoResult]
      /\ \A q \in Consoles \ {p} : pages'[q] = pages[q]
      /\ pages' \in [Consoles -> PageState]
  BY <1>0, <1>1 DEF TypeInv, PageState, Result, NoResult
<1>10. TypeInv' /\ Monotone
  BY <1>0, <1>8, <1>9 DEF TypeInv, Monotone
<1>11. PageInv(p)'
  BY <1>0, <1>9 DEF PageInv, PageState, NoResult
<1>12. CallInv(c)
  BY DEF ClientsInv
<1>13. (KeyInv(c) /\ PastInv(c) /\ ReplyInv(c) /\ MoneyInv(c))'
  <2>1. /\ calls'[c].kind = s /\ calls'[c].key = key /\ calls'[c].at = Begins(s)
        /\ calls'[c].reply = "none"
    BY <1>6
  <2>2. KeyInv(c)'
    BY <1>3, <2>1 DEF KeyInv
  <2>3. PastInv(c)'
    BY <1>5, <2>1 DEF PastInv
  <2>4. ReplyInv(c)'
    BY <2>1 DEF ReplyInv
  <2>5. MoneyInv(c)'
    BY <1>0, <1>1, <1>12 DEF CallInv, MoneyInv
  <2>6. QED
    BY <2>2, <2>3, <2>4, <2>5
<1>14. HeaderInv(c)'
  <2>1. calls'[c].kind = s /\ calls'[c].header = header /\ calls'[c].at = Begins(s)
    BY <1>6
  <2>2. s # "replay" => ~header.resource /\ ~header.network
    BY <1>4 DEF NoHeader
  <2>3. QED
    BY <1>0, <1>2, <1>4, <1>5, <2>1, <2>2 DEF HeaderInv
<1>15. QED
  BY <1>0, <1>1, <1>6, <1>9, <1>10, <1>11, <1>13, <1>14, PageStep DEF CallInv

LEMMA ScenarioAnsweredStep ==
    ASSUME ClientsInv, NEW p \in Consoles, ScenarioAnswered(p)
    PROVE  ClientsInv'
<1>0. /\ TypeInv /\ PageInv(p) /\ pages[p] \in PageState
      /\ pages[p].call \in Calls
      /\ calls[pages[p].call].at = "answered" \/ calls[pages[p].call].gone
      /\ orders' = orders /\ receipts' = receipts /\ late' = late /\ proofs' = proofs
      /\ executed' = executed /\ loose' = loose
  BY DEF ClientsInv, TypeInv, ScenarioAnswered, PageInv, gatewayVars, weaVars
<1>1. PICK c \in Calls : c = pages[p].call
  BY <1>0
<1>2. /\ CallInv(c) /\ calls[c] \in Call
      /\ Ok(c) \in BOOLEAN /\ HasSteps(c) \in BOOLEAN
      /\ Ok(c) => /\ calls[c].at = "answered" /\ ~calls[c].gone
                  /\ calls[c].reply \in Expected(calls[c].kind)
                  /\ calls[c].kind # "direct-verify"
  BY <1>0, <1>1, OkExpected, OkBoolean DEF ClientsInv, TypeInv
<1> DEFINE Shown == [pages[p] EXCEPT !.running = FALSE,
                         !.result = [shown |-> TRUE, ok |-> Ok(c), steps |-> HasSteps(c)]]
           remembers == calls[c].kind = "normal" /\ Ok(c)
           Left == [Shown EXCEPT !.header = calls[c].header, !.idem = <<calls[c].key[1], "id">>]
<1>3. /\ calls' = Delivered(c)
      /\ pages' = [pages EXCEPT ![p] = IF remembers THEN Left ELSE Shown]
  BY <1>1 DEF ScenarioAnswered
<1>4. /\ calls' \in [Calls -> Call]
      /\ calls[c].at = "answered" => calls'[c] = [calls[c] EXCEPT !.at = "done"]
      /\ calls[c].at # "answered" => calls'[c] = calls[c]
      /\ \A d \in Calls \ {c} : calls'[d] = calls[d]
  BY <1>0, <1>3, Delivering
<1>5. remembers => /\ calls[c].header.tx = c /\ proofs[c] # "none"
                   /\ <<calls[c].key[1], "id">> \in Keys
  <2>1. remembers => calls[c].reply = "paid"
    BY <1>2 DEF Expected
  <2>2. calls[c].kind # "haba" => calls[c].key \in Keys
    BY <1>2 DEF CallInv, KeyInv
  <2>3. QED
    BY <1>2, <2>1, <2>2 DEF CallInv, ReplyInv, Keys
<1>6. Shown \in PageState
  BY <1>0, <1>2 DEF PageState, Result
<1>7. remembers => Left \in PageState
  BY <1>2, <1>5, <1>6, KeyFacts DEF PageState, Call
<1>8. /\ pages'[p] = IF remembers THEN Left ELSE Shown
      /\ \A q \in Consoles \ {p} : pages'[q] = pages[q]
      /\ pages' \in [Consoles -> PageState]
  BY <1>0, <1>3, <1>6, <1>7 DEF TypeInv
<1>9. TypeInv' /\ Monotone
  BY <1>0, <1>4, <1>8 DEF TypeInv, Monotone
<1>10. CallInv(c)'
  <2>1. CASE calls[c].at = "answered"
    BY <1>0, <1>2, <1>4, <2>1 DEF Call, CallInv, KeyInv, Active, HeaderInv, PastInv, ReplyInv, MoneyInv
  <2>2. CASE calls[c].at # "answered"
    BY <1>0, <1>2, <1>4, <1>9, <2>2, CallKept
  <2>3. QED
    BY <2>1, <2>2
<1>11. PageInv(p)'
  <2>1. /\ pages'[p].running = FALSE
        /\ pages'[p].call = c
        /\ pages'[p].result.ok = Ok(c)
    BY <1>0, <1>1, <1>8 DEF PageState
  <2>2. pages'[p].header # NoHeader =>
            /\ pages'[p].header.tx \in Calls
            /\ proofs[pages'[p].header.tx] # "none"
            /\ pages'[p].idem \in Keys
    <3>1. CASE remembers
      BY <1>0, <1>5, <1>8, <3>1 DEF PageState
    <3>2. CASE ~remembers
      BY <1>0, <1>8, <3>2 DEF PageState, PageInv
    <3>3. QED
      BY <3>1, <3>2
  <2>3. Ok(c) => /\ calls'[c].at = "done" /\ ~calls'[c].gone
                 /\ calls'[c].reply \in Expected(calls'[c].kind)
                 /\ calls'[c].kind # "direct-verify"
    BY <1>2, <1>4 DEF Call
  <2>4. QED
    BY <1>0, <2>1, <2>2, <2>3 DEF PageInv
<1>12. CASE calls[c].at # "done"
  BY <1>0, <1>4, <1>8, <1>9, <1>10, <1>11, <1>12, PageStep
<1>13. CASE calls[c].at = "done"
  <2>1. \A d \in Calls \ {NoCall} : calls'[d] = calls[d]
    BY <1>4, <1>13
  <2>2. NoCall \notin Calls
    BY ClientsAssumption
  <2>3. QED
    BY <1>0, <1>8, <1>9, <1>11, <2>1, <2>2, PageStep
<1>14. QED
  BY <1>12, <1>13

LEMMA ConnectionLostStep ==
    ASSUME ClientsInv, NEW p \in Consoles, ConnectionLost(p)
    PROVE  ClientsInv'
<1>0. /\ TypeInv /\ PageInv(p) /\ pages[p] \in PageState
      /\ orders' = orders /\ receipts' = receipts /\ late' = late /\ proofs' = proofs
      /\ executed' = executed /\ loose' = loose /\ calls' = calls
  BY DEF ClientsInv, TypeInv, ConnectionLost, gatewayVars, weaVars
<1>1. /\ pages'[p] = [pages[p] EXCEPT !.running = FALSE, !.call = NoCall,
                          !.result = [shown |-> TRUE, ok |-> FALSE, steps |-> TRUE]]
      /\ \A q \in Consoles \ {p} : pages'[q] = pages[q]
      /\ pages' \in [Consoles -> PageState]
  BY <1>0 DEF ConnectionLost, TypeInv, PageState, Result
<1>2. TypeInv' /\ Monotone
  BY <1>0, <1>1 DEF TypeInv, Monotone
<1>3. PageInv(p)'
  BY <1>0, <1>1 DEF PageInv, PageState
<1>4. NoCall \notin Calls
  BY ClientsAssumption
<1>5. QED
  BY <1>0, <1>1, <1>2, <1>3, <1>4, PageStep

LEMMA ReloadStep ==
    ASSUME ClientsInv, NEW p \in Consoles, Reload(p)
    PROVE  ClientsInv'
<1>0. /\ TypeInv
      /\ orders' = orders /\ receipts' = receipts /\ late' = late /\ proofs' = proofs
      /\ executed' = executed /\ loose' = loose /\ calls' = calls
  BY DEF ClientsInv, Reload, gatewayVars, weaVars
<1>1. NewPage \in PageState /\ ~NewPage.running /\ NewPage.header = NoHeader /\ ~NewPage.result.ok
  BY NoHeaderType DEF NewPage, PageState, Result, NoResult, NoKey, AnyKey
<1>2. /\ pages'[p] = NewPage
      /\ \A q \in Consoles \ {p} : pages'[q] = pages[q]
      /\ pages' \in [Consoles -> PageState]
  BY <1>0, <1>1 DEF Reload, TypeInv
<1>3. TypeInv' /\ Monotone
  BY <1>0, <1>2 DEF TypeInv, Monotone
<1>4. PageInv(p)'
  BY <1>1, <1>2 DEF PageInv
<1>5. NoCall \notin Calls
  BY ClientsAssumption
<1>6. QED
  BY <1>0, <1>2, <1>3, <1>4, <1>5, PageStep

------------------------------------------------------------------------------
LEMMA InitInv ==
    ASSUME ClientsInit
    PROVE  ClientsInv
<1>0. NoHeader.tx = NoCall /\ ~NoHeader.form /\ ~NoHeader.resource /\ ~NoHeader.network
  BY DEF NoHeader
<1>1. /\ Idle.kind = "haba" /\ Idle.at = "none" /\ Idle.reply = "none" /\ Idle.header = NoHeader
      /\ Idle \in Call
  BY NoHeaderType DEF Idle, Call, NoKey, AnyKey, Kinds, Places, Replies, Status
<1>2. NewPage \in PageState /\ ~NewPage.running /\ NewPage.header = NoHeader /\ ~NewPage.result.ok
  BY NoHeaderType DEF NewPage, PageState, Result, NoResult, NoKey, AnyKey
<1>3. TypeInv
  BY <1>1, <1>2 DEF ClientsInit, TypeInv, OrderStatus, Consoles
<1>4. ASSUME NEW c \in Calls
      PROVE  CallInv(c)
  <2>1. calls[c] = Idle /\ c \notin executed \cup loose
    BY DEF ClientsInit
  <2>2. QED
    BY <1>0, <1>1, <2>1 DEF CallInv, KeyInv, Active, HeaderInv, PastInv, ReplyInv, MoneyInv
<1>5. ASSUME NEW p \in Consoles
      PROVE  PageInv(p)
  BY <1>2 DEF ClientsInit, PageInv, Consoles
<1>6. QED
  BY <1>3, <1>4, <1>5 DEF ClientsInv

LEMMA StepInv ==
    ASSUME ClientsInv, [ClientsNext]_vars
    PROVE  ClientsInv'
<1>1. CASE PlaceOrder
  BY <1>1, PlaceOrderStep
<1>2. ASSUME NEW p \in Consoles, Page(p)
      PROVE  ClientsInv'
  BY <1>2, RunScenarioStep, ScenarioAnsweredStep, ConnectionLostStep, ReloadStep DEF Page
<1>3. ASSUME NEW c \in Calls, Client(c)
      PROVE  ClientsInv'
  BY <1>3, AskStep, BuildStep, SleepStep, SubmitStep, SubmitLostStep DEF Client
<1>4. ASSUME NEW c \in Calls, Services(c)
      PROVE  ClientsInv'
  BY <1>4, VerifyStep, SettleStep, FinishStep DEF Services
<1>5. ASSUME NEW c \in Calls, LoseAnswer(c) \/ OrderAnswered(c) \/ Land(c)
      PROVE  ClientsInv'
  BY <1>5, LoseAnswerStep, OrderAnsweredStep, LandStep
<1>6. ASSUME NEW k \in Keys, Deadline(k)
      PROVE  ClientsInv'
  BY <1>6, DeadlineStep
<1>7. CASE UNCHANGED vars
  <2>1. TypeInv' /\ Monotone
    BY <1>7 DEF ClientsInv, TypeInv, Monotone, vars, gatewayVars, weaVars
  <2>2. QED
    BY <1>7, <2>1, QuietStep DEF vars, weaVars
<1>8. QED
  BY <1>1, <1>2, <1>3, <1>4, <1>5, <1>6, <1>7 DEF ClientsNext, Consoles

(* What every reachable state of the calls and the pages satisfies, for    *)
(* any number of calls, shared keys, open calls and faults.                *)
THEOREM ClientsInvariant == ClientsSpec => []ClientsInv
<1>1. ClientsInit => ClientsInv
  BY InitInv
<1>2. ClientsInv /\ [ClientsNext]_vars => ClientsInv'
  BY StepInv
<1>3. QED
  BY <1>1, <1>2, PTL DEF ClientsSpec

(* A client that reports a payment has paid for its order, and no second   *)
(* client of the same key reports one: checkout/order/route.ts and the     *)
(* scenario routes, whatever the gateway, the WEA and their callers do.    *)
THEOREM SuccessMeansPaid == ClientsSpec => []SuccessIsPaid
<1>1. ASSUME ClientsInv
      PROVE  SuccessIsPaid
  <2> SUFFICES ASSUME NEW c \in Calls, Ended(c), calls[c].kind \in Pays, Ok(c)
               PROVE  /\ orders[calls[c].key] = "confirmed"
                      /\ receipts[calls[c].key] = c
                      /\ c \in executed
    BY DEF SuccessIsPaid
  <2>1. TypeInv /\ CallInv(c)
    BY <1>1 DEF ClientsInv
  <2>2. calls[c].reply = "paid"
    BY <2>1, OkExpected DEF Expected, Pays
  <2>3. QED
    BY <2>1, <2>2 DEF CallInv, ReplyInv
<1>2. QED
  BY <1>1, ClientsInvariant, PTL

(* Only runs meant to pay move money.  A client that heard any refusal of  *)
(* the gateway's checks has not been charged: with money out it heard that *)
(* it paid, that settling failed or came too late, or nothing at all, when *)
(* the fetch of x402-client.ts:159 threw; HABA's error then has the code   *)
(* of a gateway error, of a rejected retry, or none.                       *)
THEOREM MoneyMovesOnPurpose == ClientsSpec => []ChargedOnlyBy
<1>1. ASSUME ClientsInv
      PROVE  ChargedOnlyBy
  <2> SUFFICES ASSUME NEW c \in executed \cup loose
               PROVE  /\ calls[c].kind \in Pays
                      /\ Ended(c) => Heard(c) \in {"paid", "conflict", "unsettled", "lost"}
                      /\ Ended(c) /\ ~Ok(c) =>
                            HabaError(Heard(c)) \in {"GATEWAY_ERROR", "RETRY_REJECTED", "no code"}
    BY DEF ChargedOnlyBy
  <2>1. c \in Calls /\ CallInv(c)
    BY <1>1 DEF ClientsInv, TypeInv
  <2>2. calls[c].kind \in Pays
    BY <2>1 DEF CallInv, MoneyInv
  <2>3. Ended(c) => Heard(c) \in {"paid", "conflict", "unsettled", "lost"}
    BY <2>1 DEF CallInv, MoneyInv, Ended, Heard
  <2>4. Heard(c) \in {"paid", "conflict", "unsettled", "lost"} =>
            HabaError(Heard(c)) \in {"GATEWAY_ERROR", "RETRY_REJECTED", "no code"}
    BY DEF HabaError, Status
  <2>5. QED
    BY <2>2, <2>3, <2>4
<1>2. QED
  BY <1>1, ClientsInvariant, PTL

(* A green result on a console is the refusal, or the payment, that the    *)
(* scenario is about, although its route looks at the HTTP status alone;   *)
(* direct-verify, which the WEA's internal_auth_middleware answers, never  *)
(* is green.                                                               *)
THEOREM GreenIsExpected == ClientsSpec => []GreenMeansExpected
<1>1. ASSUME ClientsInv
      PROVE  GreenMeansExpected
  <2> SUFFICES ASSUME NEW p \in DOMAIN Scenarios, ResultPill(p) = "Success"
               PROVE  /\ Heard(pages[p].call) \in Expected(calls[pages[p].call].kind)
                      /\ calls[pages[p].call].kind # "direct-verify"
    BY DEF GreenMeansExpected
  <2>1. PageInv(p)
    BY <1>1 DEF ClientsInv, Consoles
  <2>2. pages[p].result.ok
    BY DEF ResultPill
  <2>3. QED
    BY <2>1, <2>2 DEF PageInv, Heard
<1>2. QED
  BY <1>1, ClientsInvariant, PTL

------------------------------------------------------------------------------
(* Orders, proofs and money.                                               *)

Before == {"none", "asking", "building", "sleeping", "ready"}

(* A transaction is proved, and may be out, only for an order that was     *)
(* opened for its call.                                                    *)
LifeCall(c) ==
    /\ calls[c].at = "none" => calls[c].key = NoKey /\ calls[c].reply = "none"
    /\ calls[c].at \in Before => proofs[c] = "none"
    /\ calls[c].at \in {"building", "sleeping", "ready"}
       /\ calls[c].kind \notin {"replay", "malformed"} => orders[calls[c].key] # "absent"
    /\ proofs[c] = "verified" => calls[c].key \in Keys /\ orders[calls[c].key] # "absent"
    /\ c \in executed \cup loose => proofs[c] = "verified"

(* A receipt names a call of the order that the gateway answered as paid,  *)
(* whether or not its client heard.                                        *)
LifeOrder(k) ==
    /\ k \in late => orders[k] # "absent"
    /\ receipts[k] # NoCall =>
           /\ orders[k] = "confirmed"
           /\ calls[receipts[k]].reply = "paid"
           /\ calls[receipts[k]].key = k
           /\ proofs[receipts[k]] = "verified"

LifeInv == (\A c \in Calls : LifeCall(c)) /\ (\A k \in Keys : LifeOrder(k))

------------------------------------------------------------------------------
(* LifeInv is kept.                                                        *)

(* What no step takes back, of the orders and of the calls. *)
Forward ==
    /\ \A k \in Keys : orders[k] # "absent" => orders'[k] # "absent"
    /\ \A k \in Keys : orders[k] = "confirmed" => orders'[k] = "confirmed"
    /\ \A t \in Calls : proofs[t] # "none" => proofs'[t] = proofs[t]
    /\ \A t \in Calls : calls[t].at # "none" => calls'[t].key = calls[t].key
    /\ \A t \in Calls : calls[t].reply = "paid" => calls'[t].reply = "paid"

Untouched(d) ==
    /\ calls'[d] = calls[d]
    /\ proofs'[d] = proofs[d]
    /\ d \in executed' \cup loose' => d \in executed \cup loose

LEMMA LifeCallKept ==
    ASSUME ClientsInv, LifeInv, Forward, NEW d \in Calls, Untouched(d)
    PROVE  LifeCall(d)'
<1>1. CallInv(d) /\ LifeCall(d)
  BY DEF ClientsInv, LifeInv
<1>2. calls[d].at \in {"building", "sleeping", "ready"} => calls[d].key \in Keys
  BY <1>1 DEF CallInv, KeyInv, Active
<1>3. QED
  BY <1>1, <1>2 DEF LifeCall, Forward, Untouched

LEMMA LifeOrderKept ==
    ASSUME ClientsInv, LifeInv, Forward, NEW k \in Keys, receipts'[k] = receipts[k],
           k \in late' => k \in late \/ orders'[k] # "absent"
    PROVE  LifeOrder(k)'
<1>1. LifeOrder(k)
  BY DEF LifeInv
<1>2. k \in late' => orders'[k] # "absent"
  BY <1>1 DEF LifeOrder, Forward
<1>3. CASE receipts[k] # NoCall
  <2>1. PICK d \in Calls : d = receipts[k]
    BY <1>3 DEF ClientsInv, TypeInv
  <2>2. calls[d].reply = "paid" /\ calls[d].key = k /\ proofs[d] = "verified"
        /\ orders[k] = "confirmed"
    BY <1>1, <1>3, <2>1 DEF LifeOrder
  <2>3. calls[d].at # "none"
    BY <2>2 DEF ClientsInv, CallInv, KeyInv
  <2>4. QED
    BY <1>2, <2>1, <2>2, <2>3 DEF LifeOrder, Forward
<1>4. CASE receipts[k] = NoCall
  BY <1>2, <1>4 DEF LifeOrder
<1>5. QED
  BY <1>3, <1>4

LEMMA LifeStep ==
    ASSUME ClientsInv, LifeInv, Forward,
           \A d \in Calls : Untouched(d) \/ LifeCall(d)',
           \A k \in Keys : \/ receipts'[k] = receipts[k]
                              /\ (k \in late' => k \in late \/ orders'[k] # "absent")
                           \/ LifeOrder(k)'
    PROVE  LifeInv'
BY LifeCallKept, LifeOrderKept DEF LifeInv

(* A step of one call that keeps its key, its kind and its header. *)
Keeps(c) ==
    /\ calls'[c].key = calls[c].key
    /\ calls'[c].kind = calls[c].kind
    /\ calls'[c].header = calls[c].header
    /\ \A d \in Calls \ {c} : calls'[d] = calls[d]

LEMMA GoingOn ==
    ASSUME TypeInv, NEW c \in Calls, NEW at \in Places, Goto(c, at)
    PROVE  Keeps(c) /\ calls'[c].at = at /\ calls'[c].reply = calls[c].reply
<1>1. calls[c] \in Call
  BY DEF TypeInv
<1>2. calls'[c] = [calls[c] EXCEPT !.at = at] /\ \A d \in Calls \ {c} : calls'[d] = calls[d]
  BY Going
<1>3. QED
  BY <1>1, <1>2 DEF Call, Keeps

LEMMA ReplyingOn ==
    ASSUME TypeInv, NEW c \in Calls, NEW r \in Replies, Reply(c, r)
    PROVE  Keeps(c) /\ calls'[c].at = "answered" /\ calls'[c].reply = r
<1>1. calls[c] \in Call
  BY DEF TypeInv
<1>2. /\ calls'[c] = [calls[c] EXCEPT !.at = "answered", !.reply = r]
      /\ \A d \in Calls \ {c} : calls'[d] = calls[d]
  BY Replying
<1>3. QED
  BY <1>1, <1>2 DEF Call, Keeps

LEMMA MoveLife ==
    ASSUME ClientsInv, LifeInv, Monotone, NEW c \in Calls, Keeps(c), LifeCall(c)',
           calls[c].reply = "paid" => calls'[c].reply = "paid",
           receipts' = receipts,
           \A k \in Keys : orders[k] # "absent" => orders'[k] # "absent",
           \A k \in Keys : k \in late' => k \in late \/ orders'[k] # "absent",
           \A d \in Calls \ {c} : /\ proofs'[d] = proofs[d]
                                  /\ d \in executed' \cup loose' => d \in executed \cup loose
    PROVE  LifeInv'
<1>1. Forward
  BY DEF Forward, Monotone, Keeps
<1>2. \A d \in Calls : Untouched(d) \/ LifeCall(d)'
  BY DEF Untouched, Keeps
<1>3. QED
  BY <1>1, <1>2, LifeStep

LEMMA AskLife ==
    ASSUME ClientsInv, LifeInv, NEW c \in Calls, Ask(c)
    PROVE  LifeInv'
<1>0. /\ TypeInv /\ CallInv(c) /\ LifeCall(c) /\ calls[c] \in Call /\ calls[c].key \in Keys
      /\ calls[c].reply # "paid" /\ calls[c].at = "asking"
  BY DEF ClientsInv, LifeInv, TypeInv, Ask, CallInv, KeyInv, Active
<1>1. /\ orders' \in [Keys -> OrderStatus] /\ Monotone
      /\ \A k \in Keys : orders[k] # "absent" => orders'[k] # "absent"
  BY <1>0, OpenedType DEF Ask, TypeInv, Monotone, weaVars, Opened
<1>2. /\ receipts' = receipts /\ late' = late /\ proofs' = proofs /\ executed' = executed /\ loose' = loose
  BY DEF Ask, weaVars
<1>3. CASE orders' = Opened(calls[c].key) /\ Goto(c, "building")
  <2>1. Keeps(c) /\ calls'[c].at = "building"
    BY <1>0, <1>3, GoingOn DEF Places
  <2>2. orders'[calls[c].key] # "absent"
    BY <1>0, <1>3 DEF Opened, TypeInv
  <2>3. LifeCall(c)'
    BY <1>0, <1>2, <2>1, <2>2 DEF LifeCall, Before, Keeps
  <2>4. QED
    BY <1>0, <1>1, <1>2, <2>1, <2>3, MoveLife
<1>4. ASSUME NEW r \in {"unchallenged", "lost"}, Reply(c, r)
      PROVE  LifeInv'
  <2>1. Keeps(c) /\ calls'[c].at = "answered"
    BY <1>0, <1>4, ReplyingOn DEF Replies, Status
  <2>2. LifeCall(c)'
    BY <1>0, <1>1, <1>2, <2>1 DEF LifeCall, Before, Keeps
  <2>3. QED
    BY <1>0, <1>1, <1>2, <2>1, <2>2, MoveLife
<1>5. QED
  BY <1>3, <1>4 DEF Ask

LEMMA BuildLife ==
    ASSUME ClientsInv, LifeInv, NEW c \in Calls, Build(c)
    PROVE  LifeInv'
<1>0. /\ TypeInv /\ CallInv(c) /\ LifeCall(c) /\ calls[c] \in Call /\ calls[c].key \in Keys
      /\ calls[c].reply # "paid" /\ calls[c].at = "building"
  BY DEF ClientsInv, LifeInv, TypeInv, Build, CallInv, KeyInv, Active
<1>1. /\ orders' = orders /\ receipts' = receipts /\ late' = late /\ proofs' = proofs
      /\ executed' = executed /\ loose' = loose /\ Monotone
  BY DEF Build, gatewayVars, weaVars, Monotone
<1> DEFINE built == [tx |-> c, nonce |-> calls[c].key,
                     form |-> TRUE, resource |-> TRUE, network |-> TRUE]
           h == Tamper(calls[c].kind, built)
           at == IF calls[c].kind = "expired" THEN "sleeping" ELSE "ready"
<1>2. CASE calls' = [calls EXCEPT ![c].header = h, ![c].at = at]
  <2> HIDE DEF h
  <2>1. /\ calls'[c] = [calls[c] EXCEPT !.header = h, !.at = at]
        /\ \A d \in Calls \ {c} : calls'[d] = calls[d]
    BY <1>0, <1>2 DEF TypeInv
  <2>2. /\ calls'[c].key = calls[c].key /\ calls'[c].kind = calls[c].kind
        /\ calls'[c].at = at /\ calls'[c].reply = calls[c].reply
    BY <1>0, <2>1 DEF Call
  <2>3. LifeCall(c)'
    BY <1>0, <1>1, <2>2 DEF LifeCall, Before, CallInv, HeaderInv
  <2>4. Forward
    BY <1>1, <2>1, <2>2 DEF Forward
  <2>5. \A d \in Calls : Untouched(d) \/ LifeCall(d)'
    BY <1>1, <2>1, <2>3 DEF Untouched
  <2>6. QED
    BY <1>1, <2>4, <2>5, LifeStep
<1>3. ASSUME NEW r \in {"unbuilt", "lost"}, Reply(c, r)
      PROVE  LifeInv'
  <2>1. Keeps(c) /\ calls'[c].at = "answered"
    BY <1>0, <1>3, ReplyingOn DEF Replies, Status
  <2>2. LifeCall(c)'
    BY <1>0, <1>1, <2>1 DEF LifeCall, Before, Keeps
  <2>3. QED
    BY <1>0, <1>1, <2>1, <2>2, MoveLife
<1>4. QED
  BY <1>2, <1>3 DEF Build

LEMMA SleepLife ==
    ASSUME ClientsInv, LifeInv, NEW c \in Calls, Sleep(c)
    PROVE  LifeInv'
<1>0. /\ TypeInv /\ CallInv(c) /\ LifeCall(c) /\ calls[c].key \in Keys
      /\ calls[c].reply # "paid" /\ calls[c].at = "sleeping" /\ calls[c].kind = "expired"
  BY DEF ClientsInv, LifeInv, Sleep, CallInv, KeyInv, HeaderInv, Active
<1>1. /\ orders' = orders /\ receipts' = receipts /\ proofs' = proofs
      /\ executed' = executed /\ loose' = loose /\ Monotone
      /\ late' = late \cup {calls[c].key}
  BY DEF Sleep, weaVars, Monotone
<1>2. Keeps(c) /\ calls'[c].at = "ready" /\ calls'[c].reply = calls[c].reply
  BY <1>0, GoingOn DEF Sleep, Places
<1>3. LifeCall(c)'
  BY <1>0, <1>1, <1>2 DEF LifeCall, Before, Keeps
<1>4. orders'[calls[c].key] # "absent"
  BY <1>0, <1>1 DEF LifeCall
<1>5. QED
  BY <1>0, <1>1, <1>2, <1>3, <1>4, MoveLife

LEMMA DeadlineLife ==
    ASSUME ClientsInv, LifeInv, NEW k \in Keys, Deadline(k)
    PROVE  LifeInv'
<1>1. /\ orders' = orders /\ receipts' = receipts /\ proofs' = proofs /\ calls' = calls
      /\ executed' = executed /\ loose' = loose
      /\ late' = late \cup {k} /\ orders[k] = "created"
  BY DEF Deadline, weaVars
<1>2. Forward /\ \A d \in Calls : Untouched(d)
  BY <1>1 DEF Forward, Untouched
<1>3. QED
  BY <1>1, <1>2, LifeStep

(* What a submission makes of an order, of a proof and of its call. *)
LEMMA SubmitFacts ==
    ASSUME ClientsInv, NEW c \in Calls, Submit(c),
           NEW k, k = calls[c].key, NEW v, v = Verdict(k, calls[c].header)
    PROVE  /\ k \in Keys
           /\ calls[c].at = "ready" /\ calls[c].reply = "none"
           /\ Keeps(c)
           /\ calls'[c].at = IF v = "paid" THEN "verifying" ELSE "answered"
           /\ calls'[c].reply = IF v = "paid" THEN "none" ELSE v
           /\ v \in {"paid", "PROOF_INVALID"} =>
                 proofs[c] = "none" /\ calls[c].kind \notin {"replay", "malformed"}
           /\ v = "paid" => calls[c].kind \in Pays /\ proofs' = [proofs EXCEPT ![c] = "verified"]
           /\ v = "PROOF_INVALID" => proofs' = [proofs EXCEPT ![c] = "rejected"]
           /\ v \notin {"paid", "PROOF_INVALID"} => proofs' = proofs
           /\ v \in {"paid", "EXPIRED"} => Opened(k)[k] = "created"
           /\ v = "EXPIRED" => k \in late
           /\ orders' = [Opened(k) EXCEPT ![k] = IF v = "EXPIRED" THEN "expired" ELSE @]
<1> DEFINE h == calls[c].header
<1>0. /\ TypeInv /\ CallInv(c) /\ calls[c] \in Call /\ k \in Keys /\ calls[c].at = "ready"
      /\ calls[c].reply = "none"
  BY DEF ClientsInv, TypeInv, Submit, CallInv, KeyInv, Active
<1>1. /\ v \in {"X_PAYMENT_INVALID", "REQUIREMENTS_MISMATCH", "ORDER_ALREADY_CONSUMED", "EXPIRED",
                "REPLAY", "PROOF_INVALID", "paid"}
      /\ v \in {"paid", "EXPIRED"} => Opened(k)[k] = "created"
      /\ v = "EXPIRED" => k \in late
      /\ v = "paid" => k \notin late /\ h.resource /\ h.network
      /\ v \in {"PROOF_INVALID", "paid"} => h.form /\ proofs[h.tx] = "none"
  BY <1>0 DEF Verdict, Matches, Call
<1>2. v \in {"PROOF_INVALID", "paid"} => h.tx = c /\ calls[c].kind \notin {"replay", "malformed"}
  BY <1>0, <1>1 DEF CallInv, HeaderInv, Call
<1>3. v = "paid" => calls[c].kind \in Pays
  BY <1>0, <1>1, <1>2 DEF CallInv, HeaderInv, PastInv, Call, Kinds, Attacks, Pays
<1>4. /\ v = "paid" => proofs' = [proofs EXCEPT ![c] = "verified"]
      /\ v = "PROOF_INVALID" => proofs' = [proofs EXCEPT ![c] = "rejected"]
      /\ v \notin {"paid", "PROOF_INVALID"} => proofs' = proofs
  BY <1>2 DEF Submit
<1>5. orders' = [Opened(k) EXCEPT ![k] = IF v = "EXPIRED" THEN "expired" ELSE @]
  BY DEF Submit
<1>6. CASE v = "paid"
  <2>1. Keeps(c) /\ calls'[c].at = "verifying" /\ calls'[c].reply = calls[c].reply
    BY <1>0, <1>6, GoingOn DEF Submit, Places
  <2>2. QED
    BY <1>0, <1>1, <1>2, <1>3, <1>4, <1>5, <1>6, <2>1
<1>7. CASE v # "paid"
  <2>1. Keeps(c) /\ calls'[c].at = "answered" /\ calls'[c].reply = v
    BY <1>0, <1>1, <1>7, ReplyingOn DEF Submit, Replies, Status
  <2>2. QED
    BY <1>0, <1>1, <1>2, <1>3, <1>4, <1>5, <1>7, <2>1
<1>8. QED
  BY <1>6, <1>7

LEMMA SubmitLife ==
    ASSUME ClientsInv, LifeInv, NEW c \in Calls, Submit(c)
    PROVE  LifeInv'
<1> DEFINE k == calls[c].key
           v == Verdict(k, calls[c].header)
<1>0. /\ TypeInv /\ CallInv(c) /\ LifeCall(c)
      /\ receipts' = receipts /\ late' = late /\ executed' = executed /\ loose' = loose
  BY DEF ClientsInv, LifeInv, Submit, weaVars
<1>1. /\ k \in Keys
      /\ calls[c].at = "ready" /\ calls[c].reply = "none"
      /\ Keeps(c)
      /\ calls'[c].at = IF v = "paid" THEN "verifying" ELSE "answered"
      /\ v \in {"paid", "PROOF_INVALID"} =>
            proofs[c] = "none" /\ calls[c].kind \notin {"replay", "malformed"}
      /\ v = "paid" => proofs' = [proofs EXCEPT ![c] = "verified"]
      /\ v = "PROOF_INVALID" => proofs' = [proofs EXCEPT ![c] = "rejected"]
      /\ v \notin {"paid", "PROOF_INVALID"} => proofs' = proofs
      /\ v \in {"paid", "EXPIRED"} => Opened(k)[k] = "created"
      /\ orders' = [Opened(k) EXCEPT ![k] = IF v = "EXPIRED" THEN "expired" ELSE @]
  BY SubmitFacts
<1> HIDE DEF v, k
<1>2. /\ \A d \in Calls \ {c} : proofs'[d] = proofs[d]
      /\ proofs[c] # "none" => proofs'[c] = proofs[c]
      /\ proofs'[c] = "verified" => proofs[c] = "verified" \/ v = "paid"
      /\ proofs[c] = "none" => c \notin executed \cup loose
  BY <1>0, <1>1 DEF TypeInv, LifeCall
<1>3. /\ \A j \in Keys : orders[j] = "confirmed" => orders'[j] = "confirmed"
      /\ \A j \in Keys : orders[j] # "absent" => orders'[j] # "absent"
      /\ orders'[k] # "absent"
  BY <1>0, <1>1 DEF TypeInv, Opened
<1>4. Monotone
  BY <1>0, <1>2, <1>3 DEF Monotone
<1>5. LifeCall(c)'
  BY <1>0, <1>1, <1>2, <1>3 DEF LifeCall, Before, Keeps, k
<1>6. QED
  BY <1>0, <1>1, <1>2, <1>3, <1>4, <1>5, MoveLife

(* The client stops listening, before or after its request got through. *)
LEMMA LoseFacts ==
    ASSUME ClientsInv, NEW c \in Calls, LoseAnswer(c)
    PROVE  /\ Keeps(c) /\ calls[c].at # "none"
           /\ calls'[c].at = calls[c].at /\ calls'[c].reply = calls[c].reply
           /\ orders' = orders /\ receipts' = receipts /\ late' = late /\ proofs' = proofs
           /\ executed' = executed /\ loose' = loose
<1>1. calls[c] \in Call
  BY DEF ClientsInv, TypeInv
<1>2. /\ calls'[c] = [calls[c] EXCEPT !.gone = TRUE]
      /\ \A d \in Calls \ {c} : calls'[d] = calls[d]
  BY DEF LoseAnswer, ClientsInv, TypeInv
<1>3. QED
  BY <1>1, <1>2 DEF LoseAnswer, Call, Keeps, gatewayVars, weaVars

LEMMA SubmitLostFacts ==
    ASSUME ClientsInv, NEW c \in Calls, SubmitLost(c)
    PROVE  /\ calls[c].at = "ready" /\ calls[c].reply # "paid"
           /\ Keeps(c) /\ calls'[c].at = "answered"
           /\ orders' = orders /\ receipts' = receipts /\ late' = late /\ proofs' = proofs
           /\ executed' = executed /\ loose' = loose
<1>1. TypeInv /\ CallInv(c) /\ calls[c].at = "ready"
  BY DEF ClientsInv, SubmitLost
<1>2. Keeps(c) /\ calls'[c].at = "answered"
  BY <1>1, ReplyingOn DEF SubmitLost, Replies, Status
<1>3. calls[c].reply # "paid"
  BY <1>1 DEF CallInv, KeyInv
<1>4. QED
  BY <1>1, <1>2, <1>3 DEF SubmitLost, gatewayVars, weaVars

LEMMA LostLife ==
    ASSUME ClientsInv, LifeInv, NEW c \in Calls, SubmitLost(c) \/ LoseAnswer(c)
    PROVE  LifeInv'
<1>1. /\ LifeCall(c) /\ Keeps(c)
      /\ calls[c].at # "none"
      /\ calls'[c].at = calls[c].at \/ calls'[c].at = "answered"
      /\ calls[c].reply = "paid" => calls'[c].reply = "paid"
      /\ orders' = orders /\ receipts' = receipts /\ late' = late /\ proofs' = proofs
      /\ executed' = executed /\ loose' = loose
  BY SubmitLostFacts, LoseFacts DEF LifeInv
<1>2. LifeCall(c)'
  BY <1>1 DEF LifeCall, Before, Keeps
<1>3. Monotone
  BY <1>1 DEF Monotone
<1>4. QED
  BY <1>1, <1>2, <1>3, MoveLife

LEMMA VerifyFacts ==
    ASSUME ClientsInv, NEW c \in Calls, Verify(c)
    PROVE  /\ calls[c].at = "verifying" /\ calls[c].reply = "none" /\ calls[c].key \in Keys
           /\ \/ calls[c].kind = "direct-verify"
              \/ calls[c].kind \in Pays /\ proofs[c] = "verified"
           /\ Keeps(c) /\ Monotone
           /\ orders' = orders /\ receipts' = receipts /\ late' = late /\ proofs' = proofs
           /\ executed' = executed /\ loose' = loose
           /\ \/ /\ calls[c].kind # "direct-verify"
                 /\ calls'[c].at = "settling" /\ calls'[c].reply = "none"
              \/ calls'[c].at = "answered" /\ calls'[c].reply \notin {"none", "paid"}
<1>0. /\ TypeInv /\ CallInv(c)
      /\ calls[c].at = "verifying" /\ calls[c].reply = "none" /\ calls[c].key \in Keys
  BY DEF ClientsInv, Verify, CallInv, KeyInv, Active
<1>1. /\ orders' = orders /\ receipts' = receipts /\ late' = late /\ proofs' = proofs
      /\ executed' = executed /\ loose' = loose /\ Monotone
  BY DEF Verify, gatewayVars, weaVars, Monotone
<1>2. calls[c].kind = "direct-verify" \/ (calls[c].kind \in Pays /\ proofs[c] = "verified")
  BY <1>0 DEF CallInv, PastInv
<1>3. CASE Authorized(c) /\ Goto(c, "settling")
  <2>1. Keeps(c) /\ calls'[c].at = "settling" /\ calls'[c].reply = "none"
    BY <1>0, <1>3, GoingOn DEF Places
  <2>2. QED
    BY <1>0, <1>1, <1>2, <1>3, <2>1 DEF Authorized
<1>4. ASSUME NEW r \in {"unauthorized", "VERIFY_FAILED", "unsettled"}, Reply(c, r)
      PROVE  /\ Keeps(c)
             /\ calls'[c].at = "answered" /\ calls'[c].reply \notin {"none", "paid"}
  <2>1. Keeps(c) /\ calls'[c].at = "answered" /\ calls'[c].reply = r
    BY <1>0, <1>4, ReplyingOn DEF Replies, Status
  <2>2. QED
    BY <1>4, <2>1
<1>5. QED
  BY <1>0, <1>1, <1>2, <1>3, <1>4 DEF Verify

LEMMA VerifyLife ==
    ASSUME ClientsInv, LifeInv, NEW c \in Calls, Verify(c)
    PROVE  LifeInv'
<1>1. /\ LifeCall(c) /\ calls[c].at = "verifying" /\ calls[c].reply = "none"
      /\ calls[c].key \in Keys /\ Keeps(c) /\ Monotone
      /\ orders' = orders /\ receipts' = receipts /\ late' = late /\ proofs' = proofs
      /\ executed' = executed /\ loose' = loose
      /\ calls'[c].at \in {"settling", "answered"}
  BY VerifyFacts DEF LifeInv
<1>2. LifeCall(c)'
  BY <1>1 DEF LifeCall, Before, Keeps
<1>3. QED
  BY <1>1, <1>2, MoveLife

LEMMA SettleFacts ==
    ASSUME ClientsInv, NEW c \in Calls, Settle(c)
    PROVE  /\ calls[c].at = "settling" /\ calls[c].reply = "none" /\ calls[c].key \in Keys
           /\ calls[c].kind \in Pays /\ calls[c].header.tx = c /\ proofs[c] = "verified"
           /\ Keeps(c) /\ Monotone
           /\ orders' = orders /\ receipts' = receipts /\ late' = late /\ proofs' = proofs
           /\ \/ /\ executed' = executed \cup {c} /\ loose' = loose
                 /\ calls'[c].at = "settled"
              \/ /\ executed' = executed /\ loose' \in {loose, loose \cup {c}}
                 /\ calls'[c].at = "answered"
<1>0. /\ TypeInv /\ CallInv(c)
      /\ calls[c].at = "settling" /\ calls[c].reply = "none" /\ calls[c].key \in Keys
      /\ calls[c].kind \in Pays /\ calls[c].header.tx = c /\ proofs[c] = "verified"
  BY DEF ClientsInv, Settle, CallInv, KeyInv, PastInv, Active
<1>1. /\ orders' = orders /\ receipts' = receipts /\ late' = late /\ proofs' = proofs /\ Monotone
  BY DEF Settle, gatewayVars, Monotone
<1>2. CASE executed' = executed \cup {c} /\ Goto(c, "settled") /\ loose' = loose
  <2>1. Keeps(c) /\ calls'[c].at = "settled"
    BY <1>0, <1>2, GoingOn DEF Places
  <2>2. QED
    BY <1>0, <1>1, <1>2, <2>1
<1>3. CASE loose' \in {loose, loose \cup {c}} /\ Reply(c, "unsettled") /\ executed' = executed
  <2>1. Keeps(c) /\ calls'[c].at = "answered"
    BY <1>0, <1>3, ReplyingOn DEF Replies, Status
  <2>2. QED
    BY <1>0, <1>1, <1>3, <2>1
<1>4. QED
  BY <1>0, <1>2, <1>3 DEF Settle

LEMMA SettleLife ==
    ASSUME ClientsInv, LifeInv, NEW c \in Calls, Settle(c)
    PROVE  LifeInv'
<1>1. /\ LifeCall(c) /\ calls[c].at = "settling" /\ calls[c].reply = "none"
      /\ calls[c].key \in Keys /\ Keeps(c) /\ Monotone /\ proofs[c] = "verified"
      /\ orders' = orders /\ receipts' = receipts /\ late' = late /\ proofs' = proofs
      /\ calls'[c].at \in {"settled", "answered"}
      /\ \A d \in Calls \ {c} : d \in executed' \cup loose' => d \in executed \cup loose
  BY SettleFacts DEF LifeInv
<1>2. LifeCall(c)'
  BY <1>1 DEF LifeCall, Before, Keeps
<1>3. QED
  BY <1>1, <1>2, MoveLife

LEMMA FinishFacts ==
    ASSUME ClientsInv, NEW c \in Calls, Finish(c), NEW k, k = calls[c].key
    PROVE  /\ calls[c].at = "settled" /\ calls[c].reply = "none" /\ k \in Keys
           /\ proofs[c] = "verified" /\ c \in executed
           /\ Keeps(c) /\ calls'[c].at = "answered"
           /\ late' = late /\ proofs' = proofs
           /\ executed' = executed /\ loose' = loose
           /\ \/ /\ orders[k] = "created" /\ orders' = [orders EXCEPT ![k] = "confirmed"]
                 /\ receipts' = [receipts EXCEPT ![k] = c] /\ calls'[c].reply = "paid"
              \/ /\ orders[k] # "created" /\ orders' = orders /\ receipts' = receipts
                 /\ calls'[c].reply = "conflict"
<1>0. /\ TypeInv /\ CallInv(c)
      /\ calls[c].at = "settled" /\ calls[c].reply = "none" /\ k \in Keys
      /\ calls[c].header.tx = c /\ proofs[c] = "verified" /\ c \in executed
  BY DEF ClientsInv, Finish, CallInv, KeyInv, PastInv, Active
<1>1. /\ late' = late /\ proofs' = proofs
      /\ executed' = executed /\ loose' = loose
  BY DEF Finish, weaVars
<1>2. CASE orders[k] = "created"
  <2>1. Keeps(c) /\ calls'[c].at = "answered" /\ calls'[c].reply = "paid"
    BY <1>0, <1>2, ReplyingOn DEF Finish, Replies, Status
  <2>2. orders' = [orders EXCEPT ![k] = "confirmed"] /\ receipts' = [receipts EXCEPT ![k] = c]
    BY <1>0, <1>2 DEF Finish
  <2>3. QED
    BY <1>0, <1>1, <1>2, <2>1, <2>2
<1>3. CASE orders[k] # "created"
  <2>1. Keeps(c) /\ calls'[c].at = "answered" /\ calls'[c].reply = "conflict"
    BY <1>0, <1>3, ReplyingOn DEF Finish, Replies, Status
  <2>2. orders' = orders /\ receipts' = receipts
    BY <1>3 DEF Finish
  <2>3. QED
    BY <1>0, <1>1, <1>3, <2>1, <2>2
<1>4. QED
  BY <1>2, <1>3

LEMMA FinishLife ==
    ASSUME ClientsInv, LifeInv, NEW c \in Calls, Finish(c)
    PROVE  LifeInv'
<1>0. PICK k \in Keys : k = calls[c].key
  BY FinishFacts
<1>1. /\ TypeInv /\ LifeCall(c)
      /\ calls[c].at = "settled" /\ calls[c].reply = "none"
      /\ proofs[c] = "verified"
      /\ Keeps(c) /\ calls'[c].at = "answered"
      /\ late' = late /\ proofs' = proofs
      /\ executed' = executed /\ loose' = loose
      /\ \/ /\ orders[k] = "created" /\ orders' = [orders EXCEPT ![k] = "confirmed"]
            /\ receipts' = [receipts EXCEPT ![k] = c] /\ calls'[c].reply = "paid"
         \/ /\ orders[k] # "created" /\ orders' = orders /\ receipts' = receipts
            /\ calls'[c].reply = "conflict"
  BY <1>0, FinishFacts DEF LifeInv, ClientsInv
<1>2. CASE orders[k] # "created"
  <2>1. LifeCall(c)'
    BY <1>1, <1>2 DEF LifeCall, Before, Keeps
  <2>2. orders' = orders /\ receipts' = receipts /\ Monotone
    BY <1>1, <1>2 DEF Monotone
  <2>3. QED
    BY <1>1, <2>1, <2>2, MoveLife
<1>3. CASE orders[k] = "created"
  <2>1. /\ orders' = [orders EXCEPT ![k] = "confirmed"] /\ receipts' = [receipts EXCEPT ![k] = c]
        /\ calls'[c].reply = "paid" /\ calls'[c].key = k
    BY <1>0, <1>1, <1>3 DEF Keeps
  <2>2. /\ orders'[k] = "confirmed" /\ receipts'[k] = c
        /\ \A j \in Keys \ {k} : orders'[j] = orders[j] /\ receipts'[j] = receipts[j]
    BY <1>1, <2>1 DEF TypeInv
  <2>3. LifeCall(c)'
    BY <1>1, <2>1, <2>2 DEF LifeCall, Before
  <2>4. LifeOrder(k)'
    BY <1>1, <2>1, <2>2 DEF LifeOrder
  <2>5. Forward
    BY <1>1, <1>3, <2>1, <2>2 DEF Forward, Keeps
  <2>6. \A d \in Calls : Untouched(d) \/ LifeCall(d)'
    BY <1>1, <2>3 DEF Untouched, Keeps
  <2>7. \A j \in Keys : \/ receipts'[j] = receipts[j]
                           /\ (j \in late' => j \in late \/ orders'[j] # "absent")
                        \/ LifeOrder(j)'
    BY <1>1, <2>2, <2>4
  <2>8. QED
    BY <2>5, <2>6, <2>7, LifeStep
<1>4. QED
  BY <1>2, <1>3

LEMMA LandLife ==
    ASSUME ClientsInv, LifeInv, NEW c \in Calls, Land(c)
    PROVE  LifeInv'
<1>1. /\ orders' = orders /\ receipts' = receipts /\ proofs' = proofs /\ calls' = calls
      /\ late' = late /\ executed' \cup loose' \subseteq executed \cup loose
  BY DEF Land, gatewayVars
<1>2. Forward /\ \A d \in Calls : Untouched(d)
  BY <1>1 DEF Forward, Untouched
<1>3. QED
  BY <1>1, <1>2, LifeStep

(* An answer is read, or given up on. *)
LEMMA DeliveredOn ==
    ASSUME TypeInv, NEW c \in Calls, calls' = Delivered(c)
    PROVE  /\ Keeps(c) /\ calls'[c].reply = calls[c].reply
           /\ calls'[c].at = IF calls[c].at = "answered" THEN "done" ELSE calls[c].at
<1>1. calls[c] \in Call
  BY DEF TypeInv
<1>2. CASE calls[c].at = "answered"
  <2>1. calls'[c] = [calls[c] EXCEPT !.at = "done"] /\ \A d \in Calls \ {c} : calls'[d] = calls[d]
    BY <1>2, Delivering
  <2>2. QED
    BY <1>1, <1>2, <2>1 DEF Call, Keeps
<1>3. CASE calls[c].at # "answered"
  <2>1. calls'[c] = calls[c] /\ \A d \in Calls \ {c} : calls'[d] = calls[d]
    BY <1>3, Delivering
  <2>2. QED
    BY <1>3, <2>1 DEF Keeps
<1>4. QED
  BY <1>2, <1>3

LEMMA DeliveredLife ==
    ASSUME ClientsInv, LifeInv, NEW c \in Calls, calls' = Delivered(c),
           UNCHANGED <<gatewayVars, weaVars>>
    PROVE  LifeInv'
<1>1. /\ TypeInv /\ LifeCall(c) /\ Monotone
      /\ orders' = orders /\ receipts' = receipts /\ late' = late /\ proofs' = proofs
      /\ executed' = executed /\ loose' = loose
  BY DEF ClientsInv, LifeInv, Monotone, gatewayVars, weaVars
<1>2. /\ Keeps(c) /\ calls'[c].reply = calls[c].reply
      /\ calls'[c].at = IF calls[c].at = "answered" THEN "done" ELSE calls[c].at
  BY <1>1, DeliveredOn
<1>3. LifeCall(c)'
  BY <1>1, <1>2 DEF LifeCall, Before, Keeps
<1>4. QED
  BY <1>1, <1>2, <1>3, MoveLife

(* A call that has not begun begins. *)
LEMMA BeginLife ==
    ASSUME ClientsInv, LifeInv, NEW c \in Calls, calls[c].at = "none", NEW new \in Call,
           calls' = [calls EXCEPT ![c] = new],
           new.at \in {"asking", "ready", "verifying", "answered"},
           new.at = "ready" => new.kind \in {"replay", "malformed"},
           UNCHANGED <<gatewayVars, weaVars>>
    PROVE  LifeInv'
<1>1. /\ TypeInv /\ LifeCall(c) /\ CallInv(c)
      /\ orders' = orders /\ receipts' = receipts /\ late' = late /\ proofs' = proofs
      /\ executed' = executed /\ loose' = loose
  BY DEF ClientsInv, LifeInv, gatewayVars, weaVars
<1>2. calls'[c] = new /\ \A d \in Calls \ {c} : calls'[d] = calls[d]
  BY <1>1 DEF TypeInv
<1>3. calls[c].reply # "paid" /\ proofs[c] = "none" /\ c \notin executed \cup loose
  BY <1>1 DEF LifeCall, Before
<1>4. LifeCall(c)'
  BY <1>1, <1>2, <1>3 DEF LifeCall, Before
<1>5. Forward
  BY <1>1, <1>2, <1>3 DEF Forward
<1>6. \A d \in Calls : Untouched(d) \/ LifeCall(d)'
  BY <1>1, <1>2, <1>4 DEF Untouched
<1>7. QED
  BY <1>1, <1>5, <1>6, LifeStep

(* What a click, or a call of HABA's route, begins. *)
LEMMA BeginFacts ==
    ASSUME ClientsInv, PlaceOrder \/ \E p \in Consoles, s \in Kinds : RunScenario(p, s)
    PROVE  /\ \E c \in Calls, new \in Call :
                 /\ calls[c].at = "none"
                 /\ calls' = [calls EXCEPT ![c] = new]
                 /\ new.at \in {"asking", "ready", "verifying", "answered"}
                 /\ new.at = "ready" => new.kind \in {"replay", "malformed"}
                 /\ new.at = "verifying" => new.kind = "direct-verify" /\ new.key = <<c, "key">>
           /\ UNCHANGED <<gatewayVars, weaVars>>
<1>0. TypeInv
  BY DEF ClientsInv
<1>1. CASE PlaceOrder
  <2>1. PICK c \in Calls :
            /\ calls[c].at = "none"
            /\ \E new \in {[Idle EXCEPT !.key = <<Cart, "key">>, !.at = "asking"],
                           [Idle EXCEPT !.key = <<c, "key">>, !.at = "asking"],
                           [Idle EXCEPT !.at = "answered", !.reply = "bad_request"]} :
                   calls' = [calls EXCEPT ![c] = new]
    BY <1>1, UnusedCall DEF PlaceOrder
  <2>2. PICK new \in {[Idle EXCEPT !.key = <<Cart, "key">>, !.at = "asking"],
                      [Idle EXCEPT !.key = <<c, "key">>, !.at = "asking"],
                      [Idle EXCEPT !.at = "answered", !.reply = "bad_request"]} :
                   calls' = [calls EXCEPT ![c] = new]
    BY <2>1
  <2>3. Idle = [kind |-> "haba", key |-> NoKey, header |-> NoHeader, at |-> "none", reply |-> "none",
                gone |-> FALSE]
    BY DEF Idle
  <2>4. new \in Call /\ new.at \in {"asking", "answered"}
    <3>1. CASE new = [Idle EXCEPT !.key = <<Cart, "key">>, !.at = "asking"]
      BY <2>3, <3>1, KeyFacts, NoHeaderType DEF Call, Kinds, Places, Replies, Status
    <3>2. CASE new = [Idle EXCEPT !.key = <<c, "key">>, !.at = "asking"]
      BY <2>3, <3>2, KeyFacts, NoHeaderType DEF Call, Kinds, Places, Replies, Status
    <3>3. CASE new = [Idle EXCEPT !.at = "answered", !.reply = "bad_request"]
      BY <2>3, <3>3, KeyFacts, NoHeaderType DEF Call, Kinds, Places, Replies, Status
    <3>4. QED
      BY <2>2, <3>1, <3>2, <3>3
  <2>5. UNCHANGED <<gatewayVars, weaVars>>
    BY <1>1 DEF PlaceOrder
  <2>6. QED
    BY <2>1, <2>2, <2>4, <2>5
<1>2. ASSUME NEW p \in Consoles, NEW s \in Kinds, RunScenario(p, s)
      PROVE  /\ \E c \in Calls, new \in Call :
                   /\ calls[c].at = "none"
                   /\ calls' = [calls EXCEPT ![c] = new]
                   /\ new.at \in {"asking", "ready", "verifying", "answered"}
                   /\ new.at = "ready" => new.kind \in {"replay", "malformed"}
                   /\ new.at = "verifying" => new.kind = "direct-verify" /\ new.key = <<c, "key">>
             /\ UNCHANGED <<gatewayVars, weaVars>>
  <2>1. PICK c \in Calls :
            /\ calls[c].at = "none"
            /\ calls' = [calls EXCEPT ![c] =
                   [Idle EXCEPT !.kind = s, !.at = Begins(s),
                                !.key = IF s = "replay" THEN pages[p].idem ELSE <<c, "key">>,
                                !.header = IF s = "replay" THEN pages[p].header ELSE NoHeader]]
    BY <1>2, UnusedCall DEF RunScenario
  <2> DEFINE key == IF s = "replay" THEN pages[p].idem ELSE <<c, "key">>
             header == IF s = "replay" THEN pages[p].header ELSE NoHeader
             new == [Idle EXCEPT !.kind = s, !.at = Begins(s), !.key = key, !.header = header]
  <2>2. calls' = [calls EXCEPT ![c] = new]
    BY <2>1
  <2>3. /\ key \in AnyKey
        /\ header \in [tx : Calls \cup {NoCall}, nonce : AnyKey,
                       form : BOOLEAN, resource : BOOLEAN, network : BOOLEAN]
        /\ s # "replay" => key = <<c, "key">>
    BY <1>0, KeyFacts, NoHeaderType DEF TypeInv, PageState
  <2> HIDE DEF key, header
  <2>4. /\ Begins(s) \in Places
        /\ Begins(s) \in {"asking", "ready", "verifying"}
        /\ Begins(s) = "ready" => s \in {"replay", "malformed"}
        /\ Begins(s) = "verifying" => s = "direct-verify"
    BY DEF Begins, Places
  <2>5. Idle = [kind |-> "haba", key |-> NoKey, header |-> NoHeader, at |-> "none", reply |-> "none",
                gone |-> FALSE]
    BY DEF Idle
  <2>6. new \in Call /\ new.at = Begins(s) /\ new.kind = s /\ new.key = key
    BY <2>3, <2>4, <2>5 DEF Call, Replies, Status
  <2> HIDE DEF new
  <2>7. UNCHANGED <<gatewayVars, weaVars>>
    BY <1>2 DEF RunScenario
  <2>8. /\ new \in Call
        /\ calls[c].at = "none"
        /\ calls' = [calls EXCEPT ![c] = new]
        /\ new.at \in {"asking", "ready", "verifying", "answered"}
        /\ new.at = "ready" => new.kind \in {"replay", "malformed"}
        /\ new.at = "verifying" => new.kind = "direct-verify" /\ new.key = <<c, "key">>
    <3>1. s = "direct-verify" => key = <<c, "key">>
      BY <2>3
    <3>2. calls[c].at = "none"
      BY <2>1
    <3>3. QED
      BY <2>2, <2>4, <2>6, <3>1, <3>2
  <2>9. QED
    BY <2>7, <2>8
<1>3. QED
  BY <1>1, <1>2

LEMMA ScenarioKinds ==
    ASSUME NEW p \in Consoles, NEW s \in Scenarios[p]
    PROVE  s \in Kinds
<1>1. Scenarios[p] = {"normal"} \cup Attacks \/ Scenarios[p] = {"trigger-payment", "direct-verify"}
  BY DEF Consoles, Scenarios
<1>2. QED
  BY <1>1 DEF Kinds, Attacks

LEMMA BeginningLife ==
    ASSUME ClientsInv, LifeInv, PlaceOrder \/ \E p \in Consoles, s \in Kinds : RunScenario(p, s)
    PROVE  LifeInv'
<1>1. PICK c \in Calls, new \in Call :
          /\ calls[c].at = "none"
          /\ calls' = [calls EXCEPT ![c] = new]
          /\ new.at \in {"asking", "ready", "verifying", "answered"}
          /\ new.at = "ready" => new.kind \in {"replay", "malformed"}
  BY BeginFacts
<1>2. UNCHANGED <<gatewayVars, weaVars>>
  BY BeginFacts
<1>3. QED
  BY <1>1, <1>2, BeginLife

(* Nothing of what LifeInv is about changes. *)
LEMMA StillLife ==
    ASSUME ClientsInv, LifeInv, UNCHANGED <<gatewayVars, weaVars>>, calls' = calls
    PROVE  LifeInv'
<1>1. /\ orders' = orders /\ receipts' = receipts /\ late' = late /\ proofs' = proofs
      /\ executed' = executed /\ loose' = loose
  BY DEF gatewayVars, weaVars
<1>2. Forward /\ \A d \in Calls : Untouched(d)
  BY <1>1 DEF Forward, Untouched
<1>3. QED
  BY <1>1, <1>2, LifeStep

LEMMA StepLife ==
    ASSUME ClientsInv, LifeInv, [ClientsNext]_vars
    PROVE  LifeInv'
<1>1. CASE PlaceOrder
  BY <1>1, BeginningLife
<1>2. ASSUME NEW p \in Consoles, Page(p)
      PROVE  LifeInv'
  <2>1. ASSUME NEW s \in Scenarios[p], RunScenario(p, s)
        PROVE  LifeInv'
    BY <2>1, ScenarioKinds, BeginningLife
  <2>2. CASE ScenarioAnswered(p)
    <3>1. pages[p].call \in Calls
      BY <2>2 DEF ScenarioAnswered, ClientsInv, PageInv
    <3>2. calls' = Delivered(pages[p].call) /\ UNCHANGED <<gatewayVars, weaVars>>
      BY <2>2 DEF ScenarioAnswered
    <3>3. QED
      BY <3>1, <3>2, DeliveredLife
  <2>3. CASE ConnectionLost(p) \/ Reload(p)
    BY <2>3, StillLife DEF ConnectionLost, Reload
  <2>4. QED
    BY <1>2, <2>1, <2>2, <2>3 DEF Page
<1>3. ASSUME NEW c \in Calls, Client(c)
      PROVE  LifeInv'
  BY <1>3, AskLife, BuildLife, SleepLife, SubmitLife, LostLife DEF Client
<1>4. ASSUME NEW c \in Calls, Services(c)
      PROVE  LifeInv'
  BY <1>4, VerifyLife, SettleLife, FinishLife DEF Services
<1>5. ASSUME NEW c \in Calls, LoseAnswer(c) \/ OrderAnswered(c)
      PROVE  LifeInv'
  BY <1>5, LostLife, DeliveredLife DEF OrderAnswered
<1>6. ASSUME NEW c \in Calls, Land(c)
      PROVE  LifeInv'
  BY <1>6, LandLife
<1>7. ASSUME NEW k \in Keys, Deadline(k)
      PROVE  LifeInv'
  BY <1>7, DeadlineLife
<1>8. CASE UNCHANGED vars
  BY <1>8, StillLife DEF vars
<1>9. QED
  BY <1>1, <1>2, <1>3, <1>4, <1>5, <1>6, <1>7, <1>8 DEF ClientsNext, Consoles

LEMMA InitLife ==
    ASSUME ClientsInit
    PROVE  LifeInv
<1>1. ASSUME NEW c \in Calls
      PROVE  LifeCall(c)
  <2>1. calls[c] = Idle /\ proofs[c] = "none" /\ c \notin executed \cup loose
    BY DEF ClientsInit
  <2>2. Idle.at = "none" /\ Idle.key = NoKey /\ Idle.reply = "none"
    BY DEF Idle
  <2>3. QED
    BY <2>1, <2>2 DEF LifeCall
<1>2. ASSUME NEW k \in Keys
      PROVE  LifeOrder(k)
  BY DEF ClientsInit, LifeOrder
<1>3. QED
  BY <1>1, <1>2 DEF LifeInv

(* A transaction is proved, executed or out only for an order that was     *)
(* opened for its call, and a receipt names a call of its order that the   *)
(* gateway answered as paid, although its client may never have heard.     *)
THEOREM LifeInvariant == ClientsSpec => [](ClientsInv /\ LifeInv)
<1>1. ClientsInit => ClientsInv /\ LifeInv
  BY InitInv, InitLife
<1>2. ClientsInv /\ LifeInv /\ [ClientsNext]_vars => ClientsInv' /\ LifeInv'
  BY StepInv, StepLife
<1>3. QED
  BY <1>1, <1>2, PTL DEF ClientsSpec

------------------------------------------------------------------------------
(* CheckoutClients implements PaymentLifecycle: what a step may do to an   *)
(* order, to a receipt and on the chain, and the abstract step it is.      *)

Stages == [k \in Keys |-> Stage(k)]
ReceiptMap == [k \in Keys |-> IF receipts[k] = NoCall THEN NoTx ELSE Tx(receipts[k])]
Landed == {Tx(c) : c \in executed}
Taken(k) == \E c \in Calls : proofs[c] = "verified" /\ calls[c].key = k

LifecycleStep == [Lifecycle!LifecycleNext]_(Lifecycle!lifecycleVars)

(* A call that has begun keeps its key, and so names the same transaction. *)
KeysStay == \A d \in Calls : calls[d].at # "none" => calls'[d].key = calls[d].key

(* No proof becomes a verified one. *)
NoneVerified == \A d \in Calls : proofs'[d] = "verified" <=> proofs[d] = "verified"

LEMMA SameMaps ==
    ASSUME Stages' = Stages, ReceiptMap' = ReceiptMap, Landed' = Landed
    PROVE  LifecycleStep
BY DEF LifecycleStep, Lifecycle!lifecycleVars, Stages, ReceiptMap, Landed

LEMMA MoveMaps ==
    ASSUME NEW k \in Keys, NEW to, Stages' = [Stages EXCEPT ![k] = to],
           <<Stages[k], to>> \in {<<"absent", "open">>, <<"open", "taken">>,
                                  <<"open", "closed">>, <<"taken", "closed">>},
           ReceiptMap' = ReceiptMap, Landed' = Landed
    PROVE  LifecycleStep
<1>1. CASE <<Stages[k], to>> = <<"absent", "open">>
  <2>1. Lifecycle!Open(k)
    BY <1>1 DEF Lifecycle!Open, Lifecycle!Move, Stages, ReceiptMap, Landed
  <2> QED BY <2>1 DEF LifecycleStep, Lifecycle!LifecycleNext
<1>2. CASE <<Stages[k], to>> = <<"open", "taken">>
  <2>1. Lifecycle!Take(k)
    BY <1>2 DEF Lifecycle!Take, Lifecycle!Move, Stages, ReceiptMap, Landed
  <2> QED BY <2>1 DEF LifecycleStep, Lifecycle!LifecycleNext
<1>3. CASE <<Stages[k], to>> \in {<<"open", "closed">>, <<"taken", "closed">>}
  <2>1. Lifecycle!Close(k)
    BY <1>3 DEF Lifecycle!Close, Lifecycle!Move, Stages, ReceiptMap, Landed
  <2> QED BY <2>1 DEF LifecycleStep, Lifecycle!LifecycleNext
<1> QED BY <1>1, <1>2, <1>3

LEMMA ExecuteMaps ==
    ASSUME NEW tx \in Calls \X Keys, Stages' = Stages, ReceiptMap' = ReceiptMap,
           Landed' = Landed \cup {tx}
    PROVE  LifecycleStep
<1>1. Lifecycle!Execute(tx)
  BY DEF Lifecycle!Execute, Stages, ReceiptMap, Landed
<1> QED BY <1>1 DEF LifecycleStep, Lifecycle!LifecycleNext

LEMMA SettleMaps ==
    ASSUME NEW k \in Keys, NEW c \in Calls, Tx(c) = <<c, k>>, Tx(c) \in Landed,
           Stages[k] \in {"open", "taken"}, Stages' = [Stages EXCEPT ![k] = "settled"],
           \A p \in Keys : ReceiptMap[p] # Tx(c),
           ReceiptMap' = [ReceiptMap EXCEPT ![k] = Tx(c)], Landed' = Landed
    PROVE  LifecycleStep
<1>1. PICK tx \in Calls \X Keys : tx = Tx(c)
  OBVIOUS
<1>2. [t \in Calls \X Keys |-> t[2]][tx] = k
  BY <1>1
<1>3. /\ tx \in Landed /\ \A p \in Keys : ReceiptMap[p] # tx
      /\ ReceiptMap' = [ReceiptMap EXCEPT ![k] = tx]
  BY <1>1
<1>4. Lifecycle!Settle(k, tx)
  BY <1>2, <1>3 DEF Lifecycle!Settle, Lifecycle!Move, Stages, ReceiptMap, Landed
<1> QED BY <1>4 DEF LifecycleStep, Lifecycle!LifecycleNext

(* Which of the mapped state a step leaves alone. *)
LEMMA TakenSame ==
    ASSUME LifeInv, KeysStay, NoneVerified, NEW k
    PROVE  Taken(k)' <=> Taken(k)
BY DEF LifeInv, LifeCall, Before, KeysStay, NoneVerified, Taken

LEMMA StageSame ==
    ASSUME NEW k \in Keys, orders'[k] = orders[k], Taken(k)' <=> Taken(k)
    PROVE  Stage(k)' = Stage(k)
BY DEF Stage, Taken

LEMMA ReceiptsSame ==
    ASSUME ClientsInv, LifeInv, KeysStay, receipts' = receipts
    PROVE  ReceiptMap' = ReceiptMap
<1>1. ASSUME NEW k \in Keys, receipts[k] # NoCall
      PROVE  Tx(receipts[k])' = Tx(receipts[k])
  <2>1. receipts[k] \in Calls /\ proofs[receipts[k]] = "verified"
    BY <1>1 DEF ClientsInv, TypeInv, LifeInv, LifeOrder
  <2>2. calls[receipts[k]].at # "none"
    BY <2>1 DEF LifeInv, LifeCall, Before
  <2>3. QED
    BY <2>1, <2>2 DEF KeysStay, Tx
<1>2. QED
  BY <1>1 DEF ReceiptMap

LEMMA ExecutedTx ==
    ASSUME ClientsInv, LifeInv, KeysStay, NEW c \in executed \cup loose
    PROVE  /\ c \in Calls /\ calls[c].key \in Keys
           /\ Tx(c)' = Tx(c) /\ Tx(c) = <<c, calls[c].key>> /\ Tx(c) \in Calls \X Keys
<1>1. c \in Calls /\ proofs[c] = "verified"
  BY DEF ClientsInv, TypeInv, LifeInv, LifeCall
<1>2. calls[c].key \in Keys /\ calls[c].at # "none"
  BY <1>1 DEF LifeInv, LifeCall, Before
<1>3. QED
  BY <1>1, <1>2 DEF KeysStay, Tx

LEMMA LandedSame ==
    ASSUME ClientsInv, LifeInv, KeysStay, executed' = executed
    PROVE  Landed' = Landed
BY ExecutedTx DEF Landed

LEMMA LandedMore ==
    ASSUME ClientsInv, LifeInv, KeysStay, NEW c \in Calls, executed' = executed \cup {c},
           Tx(c)' = Tx(c)
    PROVE  Landed' = Landed \cup {Tx(c)}
BY ExecutedTx DEF Landed

(* Steps that are no abstract step, or open an order. *)
LEMMA QuietMaps ==
    ASSUME ClientsInv, LifeInv, KeysStay, NoneVerified,
           orders' = orders, receipts' = receipts, executed' = executed
    PROVE  LifecycleStep
<1>1. Stages' = Stages
  BY TakenSame, StageSame DEF Stages
<1>2. QED
  BY <1>1, ReceiptsSame, LandedSame, SameMaps

LEMMA OpenMaps ==
    ASSUME ClientsInv, LifeInv, KeysStay, NoneVerified, NEW k \in Keys,
           orders' = Opened(k), receipts' = receipts, executed' = executed
    PROVE  LifecycleStep
<1>1. CASE orders[k] # "absent"
  <2>1. orders' = orders
    BY <1>1 DEF Opened, ClientsInv, TypeInv
  <2>2. QED
    BY <2>1, QuietMaps
<1>2. CASE orders[k] = "absent"
  <2>1. orders'[k] = "created" /\ \A j \in Keys \ {k} : orders'[j] = orders[j]
    BY <1>2 DEF Opened, ClientsInv, TypeInv
  <2>2. ~Taken(k)
    BY <1>2 DEF LifeInv, LifeCall, Taken
  <2>3. ~Taken(k)'
    BY <2>2, TakenSame
  <2>4. Stage(k) = "absent" /\ Stage(k)' = "open"
    BY <1>2, <2>1, <2>3 DEF Stage, Taken
  <2>5. \A j \in Keys \ {k} : Stage(j)' = Stage(j)
    BY <2>1, TakenSame, StageSame
  <2>6. Stages' = [Stages EXCEPT ![k] = "open"]
    BY <2>4, <2>5 DEF Stages
  <2>7. <<Stages[k], "open">> = <<"absent", "open">>
    BY <2>4 DEF Stages
  <2>8. QED
    BY <2>6, <2>7, ReceiptsSame, LandedSame, MoveMaps
<1>3. QED
  BY <1>1, <1>2

LEMMA KeepsKeys ==
    ASSUME NEW c \in Calls, Keeps(c)
    PROVE  KeysStay
BY DEF Keeps, KeysStay

LEMMA AskRefines ==
    ASSUME ClientsInv, LifeInv, NEW c \in Calls, Ask(c)
    PROVE  LifecycleStep
<1>1. /\ TypeInv /\ CallInv(c) /\ calls[c].key \in Keys
      /\ receipts' = receipts /\ proofs' = proofs /\ executed' = executed
      /\ orders' \in {orders, Opened(calls[c].key)}
  BY DEF ClientsInv, Ask, CallInv, KeyInv, Active, weaVars
<1>2. Keeps(c)
  BY <1>1, GoingOn, ReplyingOn DEF Ask, Places, Replies, Status
<1>3. KeysStay /\ NoneVerified
  BY <1>1, <1>2, KeepsKeys DEF NoneVerified
<1>4. QED
  BY <1>1, <1>3, QuietMaps, OpenMaps

LEMMA BuildFacts ==
    ASSUME ClientsInv, NEW c \in Calls, Build(c)
    PROVE  /\ calls'[c].at \in {"sleeping", "ready", "answered"}
           /\ calls'[c].key = calls[c].key
           /\ \A d \in Calls \ {c} : calls'[d] = calls[d]
<1>0. TypeInv /\ calls[c] \in Call
  BY DEF ClientsInv, TypeInv
<1>1. ASSUME NEW h, NEW at \in {"sleeping", "ready"},
             calls' = [calls EXCEPT ![c].header = h, ![c].at = at]
      PROVE  /\ calls'[c].at = at /\ calls'[c].key = calls[c].key
             /\ \A d \in Calls \ {c} : calls'[d] = calls[d]
  <2>1. /\ calls'[c] = [calls[c] EXCEPT !.header = h, !.at = at]
        /\ \A d \in Calls \ {c} : calls'[d] = calls[d]
    BY <1>0, <1>1 DEF TypeInv
  <2>2. QED
    BY <1>0, <2>1 DEF Call
<1>2. ASSUME NEW r \in {"unbuilt", "lost"}, Reply(c, r)
      PROVE  calls'[c].at = "answered" /\ Keeps(c)
  BY <1>0, <1>2, ReplyingOn DEF Replies, Status
<1>3. QED
  BY <1>1, <1>2 DEF Build, Keeps

LEMMA BuildRefines ==
    ASSUME ClientsInv, LifeInv, NEW c \in Calls, Build(c)
    PROVE  LifecycleStep
<1>1. TypeInv /\ orders' = orders /\ receipts' = receipts /\ proofs' = proofs /\ executed' = executed
  BY DEF ClientsInv, Build, gatewayVars, weaVars
<1>2. KeysStay
  BY BuildFacts DEF KeysStay
<1>3. QED
  BY <1>1, <1>2, QuietMaps DEF NoneVerified

LEMMA SubmitRefines ==
    ASSUME ClientsInv, LifeInv, NEW c \in Calls, Submit(c)
    PROVE  LifecycleStep
<1>0. PICK k : k = calls[c].key
  OBVIOUS
<1>1. PICK v : v = Verdict(k, calls[c].header)
  OBVIOUS
<1>2. /\ TypeInv /\ LifeCall(c)
      /\ receipts' = receipts /\ executed' = executed
  BY DEF ClientsInv, LifeInv, Submit, weaVars
<1>3. /\ k \in Keys /\ calls[c].at = "ready" /\ Keeps(c)
      /\ v \in {"paid", "PROOF_INVALID"} =>
            proofs[c] = "none" /\ calls[c].kind \notin {"replay", "malformed"}
      /\ v = "paid" => proofs' = [proofs EXCEPT ![c] = "verified"]
      /\ v = "PROOF_INVALID" => proofs' = [proofs EXCEPT ![c] = "rejected"]
      /\ v \notin {"paid", "PROOF_INVALID"} => proofs' = proofs
      /\ v \in {"paid", "EXPIRED"} => Opened(k)[k] = "created"
      /\ v = "EXPIRED" => k \in late
      /\ orders' = [Opened(k) EXCEPT ![k] = IF v = "EXPIRED" THEN "expired" ELSE @]
  BY <1>0, <1>1, SubmitFacts
<1>4. KeysStay
  BY <1>3, KeepsKeys
<1>5. CASE v = "paid"
  <2>1. orders[k] # "absent"
    BY <1>0, <1>2, <1>3, <1>5 DEF LifeCall
  <2>2. orders[k] = "created" /\ orders' = orders
    BY <1>2, <1>3, <1>5, <2>1 DEF Opened, TypeInv
  <2>3. proofs'[c] = "verified" /\ calls'[c].key = k /\ proofs[c] = "none"
        /\ \A d \in Calls \ {c} : proofs'[d] = proofs[d] /\ calls'[d] = calls[d]
    BY <1>0, <1>2, <1>3, <1>5 DEF TypeInv, Keeps
  <2>4. Taken(k)' /\ \A j \in Keys \ {k} : Taken(j)' <=> Taken(j)
    BY <2>3 DEF Taken
  <2>5. \A j \in Keys \ {k} : Stage(j)' = Stage(j)
    BY <2>2, <2>4, StageSame
  <2>6. Stage(k)' = "taken" /\ Stage(k) = IF Taken(k) THEN "taken" ELSE "open"
    BY <2>2, <2>4 DEF Stage, Taken
  <2>7. CASE Taken(k)
    <3>1. Stages' = Stages
      BY <2>5, <2>6, <2>7 DEF Stages
    <3>2. QED
      BY <1>2, <1>4, <3>1, ReceiptsSame, LandedSame, SameMaps
  <2>8. CASE ~Taken(k)
    <3>1. Stages' = [Stages EXCEPT ![k] = "taken"] /\ Stages[k] = "open"
      BY <1>3, <2>5, <2>6, <2>8 DEF Stages
    <3>2. QED
      BY <1>2, <1>3, <1>4, <3>1, ReceiptsSame, LandedSame, MoveMaps
  <2>9. QED
    BY <2>7, <2>8
<1>6. CASE v # "paid"
  <2>1. NoneVerified
    BY <1>2, <1>3, <1>6 DEF NoneVerified, TypeInv
  <2>2. CASE v = "EXPIRED"
    <3>1. orders[k] # "absent"
      BY <1>3, <2>2 DEF LifeInv, LifeOrder
    <3>2. /\ orders[k] = "created" /\ orders'[k] = "expired"
          /\ \A j \in Keys \ {k} : orders'[j] = orders[j]
      BY <1>2, <1>3, <2>2, <3>1 DEF Opened, TypeInv
    <3>3. \A j \in Keys \ {k} : Stage(j)' = Stage(j)
      BY <1>4, <2>1, <3>2, TakenSame, StageSame
    <3>4. Stage(k)' = "closed" /\ Stage(k) \in {"open", "taken"}
      BY <3>2 DEF Stage
    <3>5. Stages' = [Stages EXCEPT ![k] = "closed"] /\ Stages[k] \in {"open", "taken"}
      BY <1>3, <3>3, <3>4 DEF Stages
    <3>6. QED
      BY <1>2, <1>3, <1>4, <3>5, ReceiptsSame, LandedSame, MoveMaps
  <2>3. CASE v # "EXPIRED"
    <3>1. orders' = Opened(k)
      BY <1>2, <1>3, <2>3 DEF Opened, TypeInv
    <3>2. QED
      BY <1>2, <1>3, <1>4, <2>1, <3>1, OpenMaps
  <2>4. QED
    BY <2>2, <2>3
<1>7. QED
  BY <1>5, <1>6

LEMMA SettleRefines ==
    ASSUME ClientsInv, LifeInv, NEW c \in Calls, Settle(c)
    PROVE  LifecycleStep
<1>1. /\ calls[c].key \in Keys /\ Keeps(c)
      /\ orders' = orders /\ receipts' = receipts /\ proofs' = proofs
      /\ executed' \in {executed, executed \cup {c}}
  BY SettleFacts
<1>2. KeysStay /\ NoneVerified
  BY <1>1, KeepsKeys DEF NoneVerified
<1>3. CASE executed' = executed
  BY <1>1, <1>2, <1>3, QuietMaps
<1>4. CASE executed' = executed \cup {c}
  <2>1. Stages' = Stages
    BY <1>1, <1>2, TakenSame, StageSame DEF Stages
  <2>2. Tx(c)' = Tx(c) /\ Tx(c) \in Calls \X Keys
    BY <1>1 DEF Keeps, Tx
  <2>3. Landed' = Landed \cup {Tx(c)}
    BY <1>2, <1>4, <2>2, LandedMore
  <2>4. QED
    BY <1>1, <1>2, <2>1, <2>2, <2>3, ReceiptsSame, ExecuteMaps
<1>5. QED
  BY <1>1, <1>3, <1>4

LEMMA LandRefines ==
    ASSUME ClientsInv, LifeInv, NEW c \in Calls, Land(c)
    PROVE  LifecycleStep
<1>1. /\ orders' = orders /\ receipts' = receipts /\ proofs' = proofs /\ calls' = calls
      /\ executed' = executed \cup {c} /\ c \in executed \cup loose
  BY DEF Land, gatewayVars
<1>2. KeysStay /\ NoneVerified
  BY <1>1 DEF KeysStay, NoneVerified
<1>3. Stages' = Stages
  BY <1>1, <1>2, TakenSame, StageSame DEF Stages
<1>4. Tx(c)' = Tx(c) /\ Tx(c) \in Calls \X Keys
  BY <1>1, <1>2, ExecutedTx
<1>5. Landed' = Landed \cup {Tx(c)}
  BY <1>1, <1>2, <1>4, LandedMore
<1>6. QED
  BY <1>1, <1>2, <1>3, <1>4, <1>5, ReceiptsSame, ExecuteMaps

LEMMA FinishRefines ==
    ASSUME ClientsInv, LifeInv, NEW c \in Calls, Finish(c)
    PROVE  LifecycleStep
<1>0. PICK k : k = calls[c].key
  OBVIOUS
<1>1. /\ TypeInv /\ LifeCall(c)
      /\ calls[c].reply = "none" /\ k \in Keys
      /\ c \in executed /\ Keeps(c)
      /\ proofs[c] = "verified" /\ proofs' = proofs /\ executed' = executed
      /\ \/ /\ orders[k] = "created" /\ orders' = [orders EXCEPT ![k] = "confirmed"]
            /\ receipts' = [receipts EXCEPT ![k] = c]
         \/ orders' = orders /\ receipts' = receipts
  BY <1>0, FinishFacts DEF ClientsInv, LifeInv
<1>2. KeysStay /\ NoneVerified
  BY <1>1, KeepsKeys DEF NoneVerified
<1>3. CASE orders' = orders /\ receipts' = receipts
  BY <1>1, <1>2, <1>3, QuietMaps
<1>4. CASE /\ orders[k] = "created" /\ orders' = [orders EXCEPT ![k] = "confirmed"]
           /\ receipts' = [receipts EXCEPT ![k] = c]
  <2>1. /\ orders'[k] = "confirmed" /\ receipts'[k] = c
        /\ \A j \in Keys \ {k} : orders'[j] = orders[j] /\ receipts'[j] = receipts[j]
    BY <1>1, <1>4 DEF TypeInv
  <2>2. \A j \in Keys \ {k} : Stage(j)' = Stage(j)
    BY <1>2, <2>1, TakenSame, StageSame
  <2>3. Stage(k)' = "settled" /\ Stage(k) \in {"open", "taken"}
    BY <1>4, <2>1 DEF Stage
  <2>4. Stages' = [Stages EXCEPT ![k] = "settled"] /\ Stages[k] \in {"open", "taken"}
    BY <1>1, <2>2, <2>3 DEF Stages
  <2>5. Tx(c) = <<c, k>> /\ Tx(c)' = Tx(c) /\ Tx(c) \in Landed
    BY <1>0, <1>1 DEF Tx, Keeps, Landed
  <2>6. ASSUME NEW p \in Keys
        PROVE  ReceiptMap[p] # Tx(c)
    <3>1. receipts[p] # c
      BY <1>1, ClientsAssumption DEF LifeInv, LifeOrder
    <3>2. QED
      BY <2>5, <3>1, ClientsAssumption DEF ReceiptMap, Tx, NoTx
  <2>7. ASSUME NEW j \in Keys \ {k}
        PROVE  ReceiptMap'[j] = ReceiptMap[j]
    <3>1. CASE receipts[j] = NoCall
      BY <2>1, <3>1 DEF ReceiptMap
    <3>2. CASE receipts[j] # NoCall
      <4>1. receipts[j] \in Calls /\ proofs[receipts[j]] = "verified"
        BY <1>1, <3>2 DEF TypeInv, LifeInv, LifeOrder
      <4>2. calls[receipts[j]].at # "none"
        BY <4>1 DEF LifeInv, LifeCall, Before
      <4>3. Tx(receipts[j])' = Tx(receipts[j])
        BY <1>2, <2>1, <4>1, <4>2 DEF KeysStay, Tx
      <4>4. QED
        BY <2>1, <3>2, <4>3 DEF ReceiptMap
    <3>3. QED
      BY <3>1, <3>2
  <2>8. ReceiptMap'[k] = Tx(c)
    <3>1. c # NoCall
      BY ClientsAssumption
    <3>2. Tx(receipts[k])' = Tx(c)
      BY <2>1, <2>5 DEF Tx
    <3>3. QED
      BY <1>1, <2>1, <3>1, <3>2 DEF ReceiptMap
  <2>9. ReceiptMap' = [ReceiptMap EXCEPT ![k] = Tx(c)]
    BY <1>1, <2>7, <2>8 DEF ReceiptMap
  <2>10. QED
    BY <1>1, <1>2, <2>4, <2>5, <2>6, <2>9, LandedSame, SettleMaps
<1>5. QED
  BY <1>1, <1>3, <1>4

LEMMA BeginningRefines ==
    ASSUME ClientsInv, LifeInv, PlaceOrder \/ \E p \in Consoles, s \in Kinds : RunScenario(p, s)
    PROVE  LifecycleStep
<1>1. PICK c \in Calls, new \in Call : calls[c].at = "none" /\ calls' = [calls EXCEPT ![c] = new]
  BY BeginFacts
<1>2. TypeInv /\ orders' = orders /\ receipts' = receipts /\ proofs' = proofs /\ executed' = executed
  BY BeginFacts DEF ClientsInv, gatewayVars, weaVars
<1>3. KeysStay
  BY <1>1, <1>2 DEF KeysStay, TypeInv
<1>4. QED
  BY <1>2, <1>3, QuietMaps DEF NoneVerified

(* A step that leaves the gateway and the WEA alone, but for expiry dates. *)
LEMMA QuietRefines ==
    ASSUME ClientsInv, LifeInv, KeysStay, orders' = orders, receipts' = receipts,
           proofs' = proofs, executed' = executed
    PROVE  LifecycleStep
BY QuietMaps DEF NoneVerified

LEMMA LostRefines ==
    ASSUME ClientsInv, LifeInv, NEW c \in Calls, SubmitLost(c) \/ LoseAnswer(c)
    PROVE  LifecycleStep
BY SubmitLostFacts, LoseFacts, KeepsKeys, QuietRefines

LEMMA StepRefines ==
    ASSUME ClientsInv, LifeInv, [ClientsNext]_vars
    PROVE  LifecycleStep
<1>0. TypeInv
  BY DEF ClientsInv
<1>1. CASE PlaceOrder
  BY <1>1, BeginningRefines
<1>2. ASSUME NEW p \in Consoles, Page(p)
      PROVE  LifecycleStep
  <2>1. ASSUME NEW s \in Scenarios[p], RunScenario(p, s)
        PROVE  LifecycleStep
    BY <2>1, ScenarioKinds, BeginningRefines
  <2>2. CASE ScenarioAnswered(p)
    <3>1. pages[p].call \in Calls
      BY <2>2 DEF ScenarioAnswered, ClientsInv, PageInv
    <3>2. calls' = Delivered(pages[p].call)
      BY <2>2 DEF ScenarioAnswered
    <3>3. KeysStay
      BY <1>0, <3>1, <3>2, DeliveredOn, KeepsKeys
    <3>4. QED
      BY <2>2, <3>3, QuietRefines DEF ScenarioAnswered, gatewayVars, weaVars
  <2>3. CASE ConnectionLost(p) \/ Reload(p)
    BY <2>3, QuietRefines DEF ConnectionLost, Reload, gatewayVars, weaVars, KeysStay
  <2>4. QED
    BY <1>2, <2>1, <2>2, <2>3 DEF Page
<1>3. ASSUME NEW c \in Calls, Sleep(c)
      PROVE  LifecycleStep
  <2>1. KeysStay
    BY <1>0, <1>3, GoingOn, KeepsKeys DEF Sleep, Places
  <2>2. QED
    BY <1>3, <2>1, QuietRefines DEF Sleep, weaVars
<1>4. ASSUME NEW c \in Calls, Client(c)
      PROVE  LifecycleStep
  BY <1>3, <1>4, AskRefines, BuildRefines, SubmitRefines, LostRefines DEF Client
<1>5. ASSUME NEW c \in Calls, Verify(c)
      PROVE  LifecycleStep
  BY <1>5, VerifyFacts, KeepsKeys, QuietRefines
<1>6. ASSUME NEW c \in Calls, Services(c)
      PROVE  LifecycleStep
  BY <1>5, <1>6, SettleRefines, FinishRefines DEF Services
<1>7. ASSUME NEW c \in Calls, OrderAnswered(c)
      PROVE  LifecycleStep
  <2>1. KeysStay
    BY <1>0, <1>7, DeliveredOn, KeepsKeys DEF OrderAnswered
  <2>2. QED
    BY <1>7, <2>1, QuietRefines DEF OrderAnswered, gatewayVars, weaVars
<1>8. ASSUME NEW c \in Calls, Land(c)
      PROVE  LifecycleStep
  BY <1>8, LandRefines
<1>9. ASSUME NEW k \in Keys, Deadline(k)
      PROVE  LifecycleStep
  BY <1>9, QuietRefines DEF Deadline, weaVars, KeysStay
<1>10. CASE UNCHANGED vars
  BY <1>10, QuietRefines DEF vars, gatewayVars, weaVars, KeysStay
<1>11. QED
  BY <1>1, <1>2, <1>4, <1>6, <1>7, <1>8, <1>9, <1>10, LostRefines DEF ClientsNext, Consoles

LEMMA LifecycleStarts ==
    ASSUME ClientsInit
    PROVE  Lifecycle!LifecycleInit
BY DEF ClientsInit, Lifecycle!LifecycleInit, Stage

(* The gateway as its clients see it, however many share a key and         *)
(* whatever gets lost, keeps the promises of PaymentLifecycle.             *)
THEOREM ClientsSeeLifecycle == ClientsSpec => ImplementsLifecycle
<1>1. ClientsInv /\ LifeInv /\ [ClientsNext]_vars => LifecycleStep
  BY StepRefines
<1>2. QED
  BY <1>1, LifecycleStarts, LifeInvariant, PTL
     DEF ClientsSpec, ImplementsLifecycle, Lifecycle!LifecycleSpec, LifecycleStep

------------------------------------------------------------------------------
(* A settled order is not charged again.                                   *)

Over(k) ==
    /\ orders[k] = "confirmed"
    /\ \A c \in Calls : calls[c].key = k =>
          c \notin loose /\ calls[c].at \notin {"verifying", "settling"}

(* What a step may not do to a call of such an order. *)
Uncharged(c) ==
    /\ c \in executed' => c \in executed
    /\ calls'[c].at \notin {"verifying", "settling"}

NoNewCharge == \A k \in Keys : Over(k) => \A c \in Calls : calls[c].key = k => Uncharged(c)

(* A step of one call, which does not begin to be charged by it. *)
LEMMA OneUncharged ==
    ASSUME NEW c, \A d \in Calls \ {c} : calls'[d] = calls[d],
           \A d \in Calls \ {c} : d \in executed' => d \in executed,
           \A k \in Keys : c \in Calls /\ calls[c].key = k /\ Over(k) => Uncharged(c)
    PROVE  NoNewCharge
BY DEF NoNewCharge, Uncharged, Over

LEMMA LostUncharged ==
    ASSUME ClientsInv, NEW c \in Calls, SubmitLost(c) \/ LoseAnswer(c)
    PROVE  NoNewCharge
<1>1. /\ Keeps(c) /\ executed' = executed
      /\ calls'[c].at = calls[c].at \/ calls'[c].at = "answered"
  BY SubmitLostFacts, LoseFacts
<1>2. QED
  BY <1>1, OneUncharged DEF Keeps, Uncharged, Over

LEMMA ClientUncharged ==
    ASSUME ClientsInv, NEW c \in Calls, Client(c)
    PROVE  NoNewCharge
<1>0. TypeInv
  BY DEF ClientsInv
<1>1. CASE Ask(c)
  <2>1. Keeps(c) /\ calls'[c].at \in {"building", "answered"}
    BY <1>0, <1>1, GoingOn, ReplyingOn DEF Ask, Places, Replies, Status
  <2>2. QED
    BY <1>1, <2>1, OneUncharged DEF Ask, weaVars, Keeps, Uncharged
<1>2. CASE Build(c)
  <2>1. /\ calls'[c].at \in {"sleeping", "ready", "answered"}
        /\ \A d \in Calls \ {c} : calls'[d] = calls[d]
    BY <1>2, BuildFacts
  <2>2. QED
    BY <1>2, <2>1, OneUncharged DEF Build, weaVars, Uncharged
<1>3. CASE Sleep(c)
  <2>1. Keeps(c) /\ calls'[c].at = "ready"
    BY <1>0, <1>3, GoingOn DEF Sleep, Places
  <2>2. QED
    BY <1>3, <2>1, OneUncharged DEF Sleep, weaVars, Keeps, Uncharged
<1>4. CASE Submit(c)
  <2>0. PICK k, v : k = calls[c].key /\ v = Verdict(k, calls[c].header)
    OBVIOUS
  <2>1. /\ k \in Keys /\ Keeps(c)
        /\ calls'[c].at = IF v = "paid" THEN "verifying" ELSE "answered"
        /\ v = "paid" => Opened(k)[k] = "created"
    BY <1>4, <2>0, SubmitFacts
  <2>2. v = "paid" => orders[k] # "confirmed"
    BY <1>0, <2>1 DEF Opened, TypeInv
  <2>3. QED
    BY <1>4, <2>0, <2>1, <2>2, OneUncharged DEF Submit, weaVars, Keeps, Uncharged, Over
<1>5. QED
  BY <1>1, <1>2, <1>3, <1>4, LostUncharged DEF Client

LEMMA ServicesUncharged ==
    ASSUME ClientsInv, NEW c \in Calls, Services(c)
    PROVE  NoNewCharge
<1>1. CASE Verify(c)
  BY <1>1, VerifyFacts, OneUncharged DEF Keeps, Over
<1>2. CASE Settle(c)
  BY <1>2, SettleFacts, OneUncharged DEF Keeps, Over
<1>3. CASE Finish(c)
  <2>1. Keeps(c) /\ calls'[c].at = "answered" /\ executed' = executed
    BY <1>3, FinishFacts
  <2>2. QED
    BY <2>1, OneUncharged DEF Keeps, Uncharged
<1>4. QED
  BY <1>1, <1>2, <1>3 DEF Services

LEMMA BeginningUncharged ==
    ASSUME ClientsInv, LifeInv, PlaceOrder \/ \E p \in Consoles, s \in Kinds : RunScenario(p, s)
    PROVE  NoNewCharge
<1>1. PICK c \in Calls, new \in Call : calls[c].at = "none" /\ calls' = [calls EXCEPT ![c] = new]
  BY BeginFacts
<1>2. TypeInv /\ executed' = executed
  BY BeginFacts DEF ClientsInv, weaVars
<1>3. \A d \in Calls \ {c} : calls'[d] = calls[d]
  BY <1>1, <1>2 DEF TypeInv
<1>4. calls[c].key \notin Keys
  BY <1>1, ClientsAssumption DEF LifeInv, LifeCall, NoKey, Keys
<1>5. QED
  BY <1>2, <1>3, <1>4, OneUncharged

LEMMA DeliveredUncharged ==
    ASSUME ClientsInv, NEW c \in Calls, calls' = Delivered(c), executed' = executed
    PROVE  NoNewCharge
<1>1. /\ Keeps(c)
      /\ calls'[c].at = IF calls[c].at = "answered" THEN "done" ELSE calls[c].at
  BY DeliveredOn DEF ClientsInv
<1>2. QED
  BY <1>1, OneUncharged DEF Keeps, Uncharged, Over

LEMMA StillUncharged ==
    ASSUME calls' = calls, \A c \in Calls : c \in executed' => c \in executed \cup loose
    PROVE  NoNewCharge
BY DEF NoNewCharge, Uncharged, Over

LEMMA StepUncharged ==
    ASSUME ClientsInv, LifeInv, ClientsNext
    PROVE  NoNewCharge
<1>1. CASE PlaceOrder
  BY <1>1, BeginningUncharged
<1>2. ASSUME NEW p \in Consoles, Page(p)
      PROVE  NoNewCharge
  <2>1. ASSUME NEW s \in Scenarios[p], RunScenario(p, s)
        PROVE  NoNewCharge
    BY <2>1, ScenarioKinds, BeginningUncharged
  <2>2. CASE ScenarioAnswered(p)
    <3>1. pages[p].call \in Calls
      BY <2>2 DEF ScenarioAnswered, ClientsInv, PageInv
    <3>2. calls' = Delivered(pages[p].call) /\ executed' = executed
      BY <2>2 DEF ScenarioAnswered, weaVars
    <3>3. QED
      BY <3>1, <3>2, DeliveredUncharged
  <2>3. CASE ConnectionLost(p) \/ Reload(p)
    BY <2>3, StillUncharged DEF ConnectionLost, Reload, weaVars
  <2>4. QED
    BY <1>2, <2>1, <2>2, <2>3 DEF Page
<1>3. ASSUME NEW c \in Calls, OrderAnswered(c)
      PROVE  NoNewCharge
  BY <1>3, DeliveredUncharged DEF OrderAnswered, weaVars
<1>4. ASSUME NEW c \in Calls, Land(c)
      PROVE  NoNewCharge
  BY <1>4, StillUncharged DEF Land
<1>5. ASSUME NEW k \in Keys, Deadline(k)
      PROVE  NoNewCharge
  BY <1>5, StillUncharged DEF Deadline, weaVars
<1>6. QED
  BY <1>1, <1>2, <1>3, <1>4, <1>5, ClientUncharged, ServicesUncharged, LostUncharged
     DEF ClientsNext, Consoles

(* An order that is paid, with nothing of it under way, is never charged   *)
(* again: no call of it gets past the gateway's checks, and no             *)
(* transaction of it is executed that was not.                             *)
THEOREM SettledStaysPaidOnce == ClientsSpec => NoChargeAfterSettled
<1> DEFINE Step == \A k \in Keys :
               /\ orders[k] = "confirmed"
               /\ \A c \in Calls : calls[c].key = k =>
                     c \notin loose /\ calls[c].at \notin {"verifying", "settling"}
               => \A c \in Calls : calls[c].key = k =>
                     /\ c \in executed' => c \in executed
                     /\ calls'[c].at \notin {"verifying", "settling"}
<1>1. ClientsInv /\ LifeInv /\ [ClientsNext]_vars => [Step]_vars
  BY StepUncharged DEF NoNewCharge, Uncharged, Over
<1>2. QED
  BY <1>1, LifeInvariant, PTL DEF ClientsSpec, NoChargeAfterSettled

------------------------------------------------------------------------------
(* The console's cards show where the money is: a settled card shows its   *)
(* proof and its colour, and whatever was sent or executed has a verified  *)
(* proof on the card of its order, whatever was lost on the way.           *)
THEOREM ConsolesTellOneStory == ClientsSpec => []CardsShowTheMoney
<1>1. ASSUME ClientsInv, LifeInv
      PROVE  CardsShowTheMoney
  <2>1. ASSUME NEW k \in Keys, "settled" \in Timeline(k)
        PROVE  /\ "proof verified" \in Timeline(k)
               /\ "waiting" \notin Timeline(k)
               /\ Tone(k) = "emerald"
    <3>1. receipts[k] # NoCall
      BY <2>1 DEF Timeline
    <3>2. receipts[k] \in Proofs(k, "verified") /\ orders[k] = "confirmed"
      <4>1. receipts[k] \in Calls
        BY <1>1, <3>1 DEF ClientsInv, TypeInv
      <4>2. LifeOrder(k)
        BY <1>1 DEF LifeInv
      <4>3. QED
        BY <3>1, <4>1, <4>2 DEF LifeOrder, Proofs
    <3>3. Proofs(k, "verified") # {} /\ Proofs(k, "verified") \cup Proofs(k, "rejected") # {}
      BY <3>2
    <3>4. "proof verified" \in Timeline(k) /\ "waiting" \notin Timeline(k)
      BY <3>3 DEF Timeline
    <3>5. Tone(k) = "emerald"
      BY <3>2 DEF Tone
    <3>6. QED
      BY <3>4, <3>5
  <2>2. ASSUME NEW c \in executed \cup loose
        PROVE  "proof verified" \in Timeline(calls[c].key)
    <3>1. c \in Calls /\ proofs[c] = "verified"
      BY <1>1, <2>2 DEF ClientsInv, TypeInv, LifeInv, LifeCall
    <3>2. c \in Proofs(calls[c].key, "verified")
      BY <3>1 DEF Proofs
    <3>3. QED
      BY <3>2 DEF Timeline
  <2>3. QED
    BY <2>1, <2>2 DEF CardsShowTheMoney
<1>2. QED
  BY <1>1, LifeInvariant, PTL
==============================================================================
