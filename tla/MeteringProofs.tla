---------------------------- MODULE MeteringProofs ----------------------------
(***************************************************************************)
(* Proofs about Metering, for any number of calls, attempts, merchants and *)
(* top-ups: the audit table and the ledger agree, an answer is paid for,   *)
(* work is unbilled only by a race, and a call is charged again only if a  *)
(* charged answer was lost.                                                *)
(***************************************************************************)
EXTENDS Metering, FiniteSetTheorems, TLAPS

Stages == {"none", "received", "calling", "answered", "billed", "replied", "delivered", "gone"}
Row == [id : Attempts, status : {"ok", "unbilled", "error"}, cost : Nat]
BookEntry == [type : {"credit", "debit"}, amount : Nat, balance_after : Nat, ref : Refs \cup Attempts]

TypeInv == MeteringTypeOK /\ book \in [Merchants -> Seq(BookEntry)]

(* A debit of the merchant after the first n entries of its book. *)
DebitedSince(m, n) == \E i \in 1..Len(book[m]) : i > n /\ book[m][i].type = "debit"

(* Nothing was charged or written down for an attempt before its debit. *)
Unbilled(a) == Debits(a) = {} /\ \A q \in requests : q.id # a

(* What the ledger holds of an attempt, by where its handler is and what   *)
(* it answered.                                                            *)
ChargeInv(a) ==
    /\ \A i, j \in Debits(a) : i = j
    /\ stage[a] \in {"none", "received", "calling", "answered"} => Unbilled(a)
    /\ stage[a] = "billed" => \E i \in Debits(a) : book[Payer(a)][i].amount = cost[a]
    /\ outcome[a] # "none" <=> stage[a] \in {"replied", "delivered"}
    /\ outcome[a] = "ok" => Debits(a) # {}
    /\ outcome[a] \in {"insufficient", "limited", "provider", "refused"} => Debits(a) = {}

(* What the pre-flight saw is still there, or a debit has taken it. *)
FundsInv(a) ==
    stage[a] \in {"calling", "answered"} =>
        /\ seen[a] <= Len(book[Payer(a)])
        /\ balance[Payer(a)] >= Estimate \/ DebitedSince(Payer(a), seen[a])

(* An attempt that was not sent has no handler, and one that was sent      *)
(* again after its answer arrived had an answer worth another try.         *)
SentInv(a) ==
    /\ a[2] > tries[a[1]] => stage[a] = "none"
    /\ a[2] < tries[a[1]] /\ stage[a] = "delivered" => outcome[a] \in Retryable

ClientInv(c) ==
    /\ client[c] = "idle" => tries[c] = 0
    /\ client[c] # "idle" /\ client[c] # "error" => tries[c] \in 1..MaxTries
    /\ client[c] = "waiting" => stage[Last(c)] # "delivered"
    /\ client[c] \in {"ok", "insufficient"} => outcome[Last(c)] = client[c]
    /\ c \in Habas => tries[c] <= 1

RowInv(q) ==
    IF q.status = "ok" THEN \E i \in Debits(q.id) : book[Payer(q.id)][i].amount = q.cost
                       ELSE Debits(q.id) = {}

AttemptInv(a) == ChargeInv(a) /\ FundsInv(a) /\ SentInv(a)

MeteringInv ==
    /\ TypeInv
    /\ \A a \in Attempts : AttemptInv(a)
    /\ \A c \in Calls : ClientInv(c)
    /\ \A q \in requests : RowInv(q)

------------------------------------------------------------------------------
(* The account book.                                                       *)

LEMMA RecordTypes ==
    ASSUME TypeInv, NEW m \in Merchants, NEW e \in BookEntry, Record(m, e)
    PROVE  balance' \in [Merchants -> Nat] /\ book' \in [Merchants -> Seq(BookEntry)]
<1>1. balance' = [balance EXCEPT ![m] = e.balance_after] /\ e.balance_after \in Nat
  BY DEF Record, BookEntry
<1>2. book' = [book EXCEPT ![m] = Append(@, e)] /\ Append(book[m], e) \in Seq(BookEntry)
  BY DEF Record, TypeInv
<1> QED BY <1>1, <1>2 DEF TypeInv, MeteringTypeOK

(* A new entry leaves the old ones where they are. *)
LEMMA RecordGrows ==
    ASSUME TypeInv, NEW m \in Merchants, NEW e \in BookEntry, Record(m, e), NEW k \in Merchants
    PROVE  /\ Len(book[k]) \in Nat
           /\ k # m => book'[k] = book[k] /\ balance'[k] = balance[k]
           /\ k = m => /\ Len(book'[k]) = Len(book[k]) + 1
                       /\ book'[k][Len(book[k]) + 1] = e
                       /\ balance'[k] = e.balance_after
           /\ \A i \in 1..Len(book[k]) : book'[k][i] = book[k][i]
<1>1. book[k] \in Seq(BookEntry) BY DEF TypeInv
<1>2. balance' = [balance EXCEPT ![m] = e.balance_after] BY DEF Record
<1>3. book' = [book EXCEPT ![m] = Append(@, e)] BY DEF Record
<1>4. CASE k = m
  <2>1. book'[k] = Append(book[k], e) BY <1>3, <1>4 DEF TypeInv
  <2>2. balance'[k] = e.balance_after BY <1>2, <1>4 DEF TypeInv, MeteringTypeOK
  <2> QED BY <1>1, <1>4, <2>1, <2>2
<1>5. CASE k # m
  <2>1. book'[k] = book[k] BY <1>3, <1>5 DEF TypeInv
  <2>2. balance'[k] = balance[k] BY <1>2, <1>5 DEF TypeInv, MeteringTypeOK
  <2> QED BY <1>1, <1>5, <2>1, <2>2
<1> QED BY <1>4, <1>5

LEMMA PayerType == \A a \in Attempts : Payer(a) \in Merchants
BY MeteringAssumption DEF Attempts, Payer

(* An entry that is no debit for b leaves the debits of b as they are. *)
LEMMA OtherEntry ==
    ASSUME TypeInv, NEW m \in Merchants, NEW e \in BookEntry, Record(m, e),
           NEW b \in Attempts, ~(e.type = "debit" /\ e.ref = b)
    PROVE  /\ Debits(b)' = Debits(b)
           /\ \A i \in Debits(b) : book'[Payer(b)][i] = book[Payer(b)][i]
<1> DEFINE k == Payer(b)
<1>0. k \in Merchants BY PayerType
<1> HIDE DEF k
<1>1. /\ Len(book[k]) \in Nat
      /\ k # m => book'[k] = book[k]
      /\ k = m => Len(book'[k]) = Len(book[k]) + 1 /\ book'[k][Len(book[k]) + 1] = e
      /\ \A i \in 1..Len(book[k]) : book'[k][i] = book[k][i]
  BY <1>0, RecordGrows
<1>2. Debits(b) = {i \in 1..Len(book[k]) : book[k][i].type = "debit" /\ book[k][i].ref = b}
  BY DEF Debits, k
<1>3. Debits(b)' = {i \in 1..Len(book'[k]) : book'[k][i].type = "debit" /\ book'[k][i].ref = b}
  BY DEF Debits, k, Payer
<1>4. CASE k = m BY <1>1, <1>2, <1>3, <1>4 DEF k
<1>5. CASE k # m BY <1>1, <1>2, <1>3, <1>5 DEF k
<1> QED BY <1>4, <1>5

(* The debit of an attempt that has none. *)
LEMMA FirstDebit ==
    ASSUME TypeInv, NEW a \in Attempts, Debits(a) = {}, NEW e \in BookEntry,
           Record(Payer(a), e), e.type = "debit", e.ref = a
    PROVE  \E i : Debits(a)' = {i} /\ book'[Payer(a)][i] = e
<1> DEFINE k == Payer(a)
<1>0. k \in Merchants BY PayerType
<1>r. Record(k, e) BY DEF k
<1> HIDE DEF k
<1>1. /\ Len(book[k]) \in Nat
      /\ Len(book'[k]) = Len(book[k]) + 1 /\ book'[k][Len(book[k]) + 1] = e
      /\ \A i \in 1..Len(book[k]) : book'[k][i] = book[k][i]
  BY <1>0, <1>r, RecordGrows
<1>2. Debits(a) = {i \in 1..Len(book[k]) : book[k][i].type = "debit" /\ book[k][i].ref = a}
  BY DEF Debits, k
<1>3. Debits(a)' = {i \in 1..Len(book'[k]) : book'[k][i].type = "debit" /\ book'[k][i].ref = a}
  BY DEF Debits, k, Payer
<1>4. Debits(a)' = {Len(book[k]) + 1}
  <2>1. \A i \in 1..Len(book[k]) : ~(book'[k][i].type = "debit" /\ book'[k][i].ref = a)
    BY <1>1, <1>2
  <2>2. 1..Len(book'[k]) = (1..Len(book[k])) \cup {Len(book[k]) + 1}
    BY <1>1
  <2> QED BY <1>1, <1>3, <2>1, <2>2
<1> QED BY <1>1, <1>4 DEF k

(* What the pre-flight of b saw survives every entry. *)
LEMMA FundsKept ==
    ASSUME TypeInv, NEW m \in Merchants, NEW e \in BookEntry, Record(m, e), NEW b \in Attempts,
           FundsInv(b), stage'[b] = stage[b], seen'[b] = seen[b],
           e.type = "debit" \/ e.balance_after >= balance[m]
    PROVE  FundsInv(b)'
<1> DEFINE k == Payer(b)
<1>0. k \in Merchants BY PayerType
<1> HIDE DEF k
<1>1. /\ Len(book[k]) \in Nat
      /\ k # m => book'[k] = book[k] /\ balance'[k] = balance[k]
      /\ k = m => Len(book'[k]) = Len(book[k]) + 1 /\ book'[k][Len(book[k]) + 1] = e
                  /\ balance'[k] = e.balance_after
      /\ \A i \in 1..Len(book[k]) : book'[k][i] = book[k][i]
  BY <1>0, RecordGrows
<1>2. seen[b] \in Nat /\ balance[k] \in Nat /\ e.balance_after \in Nat
  BY <1>0 DEF TypeInv, MeteringTypeOK, BookEntry
<1>3. SUFFICES ASSUME stage[b] \in {"calling", "answered"}
               PROVE  /\ seen[b] <= Len(book'[k])
                      /\ balance'[k] >= Estimate
                         \/ \E i \in 1..Len(book'[k]) : i > seen[b] /\ book'[k][i].type = "debit"
  BY DEF FundsInv, DebitedSince, k, Payer
<1>4. /\ seen[b] <= Len(book[k])
      /\ balance[k] >= Estimate
         \/ \E i \in 1..Len(book[k]) : i > seen[b] /\ book[k][i].type = "debit"
  BY <1>3 DEF FundsInv, DebitedSince, k
<1>5. CASE k # m BY <1>1, <1>4, <1>5
<1>6. CASE k = m /\ e.type = "debit"
  <2>1. Len(book[k]) + 1 \in 1..Len(book'[k]) /\ Len(book[k]) + 1 > seen[b]
    BY <1>1, <1>2, <1>4, <1>6
  <2> QED BY <1>1, <1>2, <1>4, <1>6, <2>1
<1>7. CASE k = m /\ e.balance_after >= balance[m]
  <2>1. seen[b] <= Len(book'[k]) BY <1>1, <1>2, <1>4, <1>7
  <2>2. CASE balance[k] >= Estimate BY <1>1, <1>2, <1>7, <2>1, <2>2, MeteringAssumption
  <2>3. CASE \E i \in 1..Len(book[k]) : i > seen[b] /\ book[k][i].type = "debit"
    BY <1>1, <1>7, <2>1, <2>3
  <2> QED BY <1>4, <2>2, <2>3
<1> QED BY <1>5, <1>6, <1>7

------------------------------------------------------------------------------
(* A step of one attempt's handler leaves the other attempts alone.        *)

Elsewhere(a) ==
    \A b \in Attempts \ {a} : /\ stage'[b] = stage[b] /\ seen'[b] = seen[b]
                              /\ cost'[b] = cost[b] /\ outcome'[b] = outcome[b]

DebitedFor(a) ==
    \E e \in BookEntry : e.type = "debit" /\ e.ref = a /\ Record(Payer(a), e)

WrittenFor(a) == \A q \in requests' : q \in requests \/ q.id = a

(* A book nobody writes to *)
LEMMA SameDebits ==
    ASSUME UNCHANGED book, NEW b \in Attempts
    PROVE  Debits(b)' = Debits(b) /\ \A i \in Debits(b) : book'[Payer(b)][i] = book[Payer(b)][i]
BY DEF Debits, Payer

LEMMA SameFunds ==
    ASSUME UNCHANGED ledgerVars, NEW b \in Attempts, FundsInv(b),
           stage'[b] = stage[b], seen'[b] = seen[b]
    PROVE  FundsInv(b)'
BY DEF FundsInv, DebitedSince, ledgerVars, Payer

LEMMA OthersKept ==
    ASSUME MeteringInv, NEW a \in Attempts, Elsewhere(a), WrittenFor(a),
           UNCHANGED ledgerVars \/ DebitedFor(a),
           NEW b \in Attempts, b # a
    PROVE  ChargeInv(b)' /\ FundsInv(b)'
<1>1. /\ stage'[b] = stage[b] /\ seen'[b] = seen[b]
      /\ cost'[b] = cost[b] /\ outcome'[b] = outcome[b]
  BY DEF Elsewhere
<1>2. ChargeInv(b) /\ FundsInv(b) /\ TypeInv BY DEF MeteringInv, AttemptInv
<1>3. Debits(b)' = Debits(b) /\ \A i \in Debits(b) : book'[Payer(b)][i] = book[Payer(b)][i]
  <2>1. CASE UNCHANGED ledgerVars BY <2>1, SameDebits DEF ledgerVars
  <2>2. CASE DebitedFor(a)
    <3>1. PICK e \in BookEntry : e.type = "debit" /\ e.ref = a /\ Record(Payer(a), e)
      BY <2>2 DEF DebitedFor
    <3> QED BY <1>2, <3>1, OtherEntry, PayerType
  <2> QED BY <2>1, <2>2
<1>4. FundsInv(b)'
  <2>1. CASE UNCHANGED ledgerVars BY <1>1, <1>2, <2>1, SameFunds
  <2>2. CASE DebitedFor(a)
    <3>1. PICK e \in BookEntry : e.type = "debit" /\ e.ref = a /\ Record(Payer(a), e)
      BY <2>2 DEF DebitedFor
    <3> QED BY <1>1, <1>2, <3>1, FundsKept, PayerType
  <2> QED BY <2>1, <2>2
<1>5. Unbilled(b) => Unbilled(b)' BY <1>3 DEF Unbilled, WrittenFor
<1>6. (\E i \in Debits(b) : book[Payer(b)][i].amount = cost[b])
        => (\E i \in Debits(b) : book[Payer(b)][i].amount = cost[b])'
  BY <1>1, <1>3 DEF Payer
<1>7. ChargeInv(b)'
  BY <1>1, <1>2, <1>3, <1>5, <1>6 DEF ChargeInv
<1> QED BY <1>4, <1>7

(* An audit row written earlier keeps its meaning. *)
LEMMA OldRowsKept ==
    ASSUME MeteringInv, NEW a \in Attempts,
           UNCHANGED ledgerVars \/ DebitedFor(a),
           NEW q \in requests, q.id # a \/ UNCHANGED ledgerVars
    PROVE  RowInv(q)'
<1>1. TypeInv /\ RowInv(q) /\ q.id \in Attempts BY DEF MeteringInv, TypeInv, MeteringTypeOK
<1>2. /\ Debits(q.id)' = Debits(q.id)
      /\ \A i \in Debits(q.id) : book'[Payer(q.id)][i] = book[Payer(q.id)][i]
  <2>1. CASE UNCHANGED ledgerVars BY <1>1, <2>1, SameDebits DEF ledgerVars
  <2>2. CASE DebitedFor(a) /\ q.id # a
    <3>1. PICK e \in BookEntry : e.type = "debit" /\ e.ref = a /\ Record(Payer(a), e)
      BY <2>2 DEF DebitedFor
    <3> QED BY <1>1, <2>2, <3>1, OtherEntry, PayerType
  <2> QED BY <2>1, <2>2
<1> QED BY <1>1, <1>2 DEF RowInv, Payer

(* A step of the handler of a, its own part of the invariant granted. *)
LEMMA HandlerFrame ==
    ASSUME MeteringInv, NEW a \in Attempts,
           stage[a] \in {"received", "calling", "answered", "billed"},
           stage'[a] # "delivered", Elsewhere(a), WrittenFor(a), UNCHANGED clientVars,
           UNCHANGED ledgerVars \/ (DebitedFor(a) /\ Unbilled(a)),
           TypeInv', ChargeInv(a)', FundsInv(a)',
           \A q \in requests' : q \in requests \/ RowInv(q)'
    PROVE  MeteringInv'
<1>1. \A b \in Attempts : ChargeInv(b)' /\ FundsInv(b)' BY OthersKept
<1>2. ASSUME NEW b \in Attempts PROVE SentInv(b)'
  <2>1. SentInv(b) BY DEF MeteringInv, AttemptInv
  <2>2. CASE b = a BY <2>1, <2>2 DEF SentInv, clientVars
  <2>3. CASE b # a BY <2>1, <2>3 DEF SentInv, clientVars, Elsewhere
  <2> QED BY <2>2, <2>3
<1>3. ASSUME NEW c \in Calls PROVE ClientInv(c)'
  <2>1. ClientInv(c) /\ ChargeInv(a) BY DEF MeteringInv, AttemptInv
  <2>2. client' = client /\ tries' = tries BY DEF clientVars
  <2>3. Last(c)' = Last(c) BY <2>2 DEF Last
  <2>4. CASE client[c] \notin {"waiting", "ok", "insufficient"}
    BY <2>1, <2>2, <2>4 DEF ClientInv
  <2>5. CASE client[c] \in {"waiting", "ok", "insufficient"}
    <3>1. Last(c) \in Attempts BY <2>1, <2>5 DEF ClientInv, Last, Attempts
    <3>2. stage'[Last(c)] = "delivered" => Last(c) # a /\ stage[Last(c)] = "delivered"
      BY <3>1 DEF Elsewhere
    <3>3. client[c] # "waiting" => Last(c) # a
      BY <2>1, <2>5 DEF ClientInv, ChargeInv
    <3>4. client[c] # "waiting" => outcome'[Last(c)] = outcome[Last(c)]
      BY <3>1, <3>3 DEF Elsewhere
    <3> QED BY <2>1, <2>2, <2>3, <2>5, <3>2, <3>4 DEF ClientInv
  <2> QED BY <2>4, <2>5
<1>4. ASSUME NEW q \in requests' PROVE RowInv(q)'
  <2>1. CASE q \in requests
    <3>1. q.id # a \/ UNCHANGED ledgerVars BY <2>1 DEF Unbilled
    <3> QED BY <2>1, <3>1, OldRowsKept
  <2> QED BY <2>1
<1> QED BY <1>1, <1>2, <1>3, <1>4 DEF MeteringInv, AttemptInv

------------------------------------------------------------------------------
(* The steps of a handler.                                                 *)

Busy == {"received", "calling", "answered", "billed"}

HandlerTypes ==
    /\ stage \in [Attempts -> Stages]
    /\ seen \in [Attempts -> Nat]
    /\ cost \in [Attempts -> Amounts \cup {0}]
    /\ outcome \in [Attempts -> Outcome]

LEMMA TypeParts ==
    TypeInv <=> /\ balance \in [Merchants -> Nat]
                /\ book \in [Merchants -> Seq(BookEntry)]
                /\ client \in [Calls -> {"idle", "waiting", "ok", "insufficient", "error"}]
                /\ tries \in [Calls -> 0..MaxTries]
                /\ HandlerTypes
                /\ requests \subseteq Row
BY DEF TypeInv, MeteringTypeOK, HandlerTypes, Stages, Row

LEMMA TypeKept ==
    ASSUME balance' \in [Merchants -> Nat], book' \in [Merchants -> Seq(BookEntry)],
           client' \in [Calls -> {"idle", "waiting", "ok", "insufficient", "error"}],
           tries' \in [Calls -> 0..MaxTries], HandlerTypes', requests' \subseteq Row
    PROVE  TypeInv'
BY DEF TypeInv, MeteringTypeOK, HandlerTypes, Stages, Row

(* A step of a handler that leaves the books alone. *)
LEMMA TypeKeptAside ==
    ASSUME TypeInv, UNCHANGED ledgerVars, UNCHANGED clientVars, HandlerTypes', requests' \subseteq Row
    PROVE  TypeInv'
BY TypeParts, TypeKept DEF ledgerVars, clientVars

LEMMA ReplyShape ==
    ASSUME MeteringInv, NEW a \in Attempts, stage[a] \in Busy,
           NEW r \in Outcome \ {"none"}, Reply(a, r)
    PROVE  /\ Elsewhere(a) /\ HandlerTypes'
           /\ \/ stage'[a] = "replied" /\ outcome'[a] = r
              \/ stage'[a] = "gone" /\ outcome'[a] = "none"
<1>1. HandlerTypes BY TypeParts DEF MeteringInv
<1>2. outcome[a] = "none" BY <1>1 DEF MeteringInv, AttemptInv, ChargeInv, HandlerTypes, Busy
<1>3. seen' = [seen EXCEPT ![a] = 0] /\ cost' = [cost EXCEPT ![a] = 0] BY DEF Reply, Forget
<1>4. \/ /\ stage' = [stage EXCEPT ![a] = "replied"]
         /\ outcome' = [outcome EXCEPT ![a] = r]
      \/ /\ stage' = [stage EXCEPT ![a] = "gone"]
         /\ outcome' = outcome
  BY DEF Reply, Proceed
<1>5. Elsewhere(a) BY <1>1, <1>3, <1>4 DEF Elsewhere, HandlerTypes
<1>6. seen' \in [Attempts -> Nat] /\ cost' \in [Attempts -> Amounts \cup {0}]
  BY <1>1, <1>3 DEF HandlerTypes
<1>7. stage' \in [Attempts -> Stages] /\ outcome' \in [Attempts -> Outcome]
  BY <1>1, <1>4 DEF HandlerTypes, Stages
<1>8. HandlerTypes' BY <1>6, <1>7 DEF HandlerTypes
<1>9. \/ stage'[a] = "replied" /\ outcome'[a] = r
      \/ stage'[a] = "gone" /\ outcome'[a] = "none"
  BY <1>1, <1>2, <1>4 DEF HandlerTypes
<1> QED BY <1>5, <1>8, <1>9

LEMMA PersistShape ==
    ASSUME MeteringInv, NEW a \in Attempts, NEW s \in {"ok", "unbilled", "error"}, NEW n \in Nat,
           Persist(a, s, n)
    PROVE  /\ WrittenFor(a) /\ requests' \subseteq Row
           /\ \A q \in requests' : q \in requests \/ (q.id = a /\ q.status = s /\ q.cost = n)
<1>1. requests \subseteq Row BY TypeParts DEF MeteringInv
<1>2. [id |-> a, status |-> s, cost |-> n] \in Row BY DEF Row
<1> QED BY <1>1, <1>2 DEF Persist, WrittenFor

(* An answer that leaves the books as they are: what was charged decides   *)
(* what may be answered and written down.                                  *)
LEMMA ReplyKeeps ==
    ASSUME MeteringInv, NEW a \in Attempts, stage[a] \in Busy,
           NEW r \in Outcome \ {"none"}, Reply(a, r),
           UNCHANGED ledgerVars, UNCHANGED clientVars,
           WrittenFor(a), requests' \subseteq Row,
           \A q \in requests' : q \in requests \/ RowInv(q)',
           r = "ok" => Debits(a) # {},
           r \in {"insufficient", "limited", "provider", "refused"} => Debits(a) = {}
    PROVE  MeteringInv'
<1>1. /\ Elsewhere(a) /\ HandlerTypes'
      /\ \/ stage'[a] = "replied" /\ outcome'[a] = r
         \/ stage'[a] = "gone" /\ outcome'[a] = "none"
  BY ReplyShape
<1>2. TypeInv' BY <1>1, TypeKeptAside DEF MeteringInv
<1>3. Debits(a)' = Debits(a) BY SameDebits DEF ledgerVars
<1>4. ChargeInv(a)'
  BY <1>1, <1>3 DEF MeteringInv, AttemptInv, ChargeInv
<1>5. FundsInv(a)' BY <1>1 DEF FundsInv
<1>6. stage[a] \in {"received", "calling", "answered", "billed"} BY DEF Busy
<1> QED BY <1>1, <1>2, <1>4, <1>5, <1>6, HandlerFrame

LEMMA UnbilledBefore ==
    ASSUME MeteringInv, NEW a \in Attempts, stage[a] \in {"none", "received", "calling", "answered"}
    PROVE  Unbilled(a)
BY DEF MeteringInv, AttemptInv, ChargeInv

LEMMA CostType == ASSUME MeteringInv, NEW a \in Attempts PROVE cost[a] \in Nat
<1>1. cost \in [Attempts -> Amounts \cup {0}] BY DEF MeteringInv, TypeInv, MeteringTypeOK
<1>2. cost[a] \in Amounts \cup {0} BY <1>1
<1>3. \A n \in Amounts : n \in Nat BY MeteringAssumption
<1>4. CASE cost[a] \in Amounts BY <1>3, <1>4
<1>5. CASE cost[a] = 0 BY <1>5
<1> QED BY <1>2, <1>4, <1>5

LEMMA LimitedKeeps == \A a \in Attempts : MeteringInv /\ Limited(a) => MeteringInv'
<1> SUFFICES ASSUME NEW a \in Attempts, MeteringInv, Limited(a) PROVE MeteringInv'
  OBVIOUS
<1>1. stage[a] = "received" /\ stage[a] \in Busy BY DEF Limited, At, Busy
<1>2. PICK r \in {"limited", "refused"} : Reply(a, r) BY DEF Limited
<1>3. UNCHANGED ledgerVars /\ UNCHANGED clientVars /\ requests' = requests BY DEF Limited
<1>4. r \in Outcome \ {"none"} BY DEF Outcome, Retryable
<1>5. Debits(a) = {} BY <1>1, UnbilledBefore DEF Unbilled
<1>6. requests' \subseteq Row /\ WrittenFor(a) BY <1>3, TypeParts DEF MeteringInv, WrittenFor
<1> QED BY <1>1, <1>2, <1>3, <1>4, <1>5, <1>6, ReplyKeeps

LEMMA PreflightKeeps == \A a \in Attempts : MeteringInv /\ Preflight(a) => MeteringInv'
<1> SUFFICES ASSUME NEW a \in Attempts, MeteringInv, Preflight(a) PROVE MeteringInv'
  OBVIOUS
<1>1. stage[a] = "received" /\ stage[a] \in Busy BY DEF Preflight, At, Busy
<1>2. UNCHANGED ledgerVars /\ UNCHANGED clientVars /\ requests' = requests BY DEF Preflight
<1>3. Unbilled(a) BY <1>1, UnbilledBefore
<1>4. requests' \subseteq Row /\ WrittenFor(a) BY <1>2, TypeParts DEF MeteringInv, WrittenFor
<1>5. CASE balance[Payer(a)] >= Estimate
  <2>1. /\ stage' = [stage EXCEPT ![a] = "calling"] /\ outcome' = outcome
        /\ seen' = [seen EXCEPT ![a] = Len(book[Payer(a)])] /\ cost' = cost
    BY <1>5 DEF Preflight, Proceed
  <2>2. HandlerTypes /\ Len(book[Payer(a)]) \in Nat
    BY TypeParts, PayerType DEF MeteringInv
  <2>3. Elsewhere(a) BY <2>1, <2>2 DEF Elsewhere, HandlerTypes
  <2>4. stage'[a] = "calling" /\ seen'[a] = Len(book[Payer(a)]) /\ outcome'[a] = outcome[a]
    BY <2>1, <2>2 DEF HandlerTypes
  <2>5. HandlerTypes'
    <3>1. stage' \in [Attempts -> Stages] BY <2>1, <2>2 DEF HandlerTypes, Stages
    <3>2. seen' \in [Attempts -> Nat] BY <2>1, <2>2 DEF HandlerTypes
    <3> QED BY <2>1, <2>2, <3>1, <3>2 DEF HandlerTypes
  <2>6. TypeInv' BY <1>2, <1>4, <2>5, TypeKeptAside DEF MeteringInv
  <2>7. Debits(a)' = Debits(a) BY <1>2, SameDebits DEF ledgerVars
  <2>8. ChargeInv(a)'
    BY <1>1, <1>2, <1>3, <2>4, <2>7 DEF MeteringInv, AttemptInv, ChargeInv, Unbilled
  <2>9. FundsInv(a)'
    BY <1>2, <1>5, <2>2, <2>4 DEF FundsInv, ledgerVars, Payer
  <2> QED BY <1>1, <1>2, <1>4, <2>3, <2>4, <2>6, <2>8, <2>9, HandlerFrame
<1>6. CASE ~(balance[Payer(a)] >= Estimate)
  <2>1. Reply(a, "insufficient") /\ "insufficient" \in Outcome \ {"none"}
    BY <1>6 DEF Preflight, Outcome
  <2> QED BY <1>1, <1>2, <1>3, <1>4, <2>1, ReplyKeeps DEF Unbilled
<1> QED BY <1>5, <1>6

LEMMA ProviderFailsKeeps == \A a \in Attempts : MeteringInv /\ ProviderFails(a) => MeteringInv'
<1> SUFFICES ASSUME NEW a \in Attempts, MeteringInv, ProviderFails(a) PROVE MeteringInv'
  OBVIOUS
<1>1. stage[a] = "calling" /\ stage[a] \in Busy BY DEF ProviderFails, At, Busy
<1>2. PICK r \in {"provider", "refused", "insufficient"} : Reply(a, r) BY DEF ProviderFails
<1>3. UNCHANGED ledgerVars /\ UNCHANGED clientVars BY DEF ProviderFails
<1>4. r \in Outcome \ {"none"} BY DEF Outcome, Retryable
<1>5. Debits(a) = {} BY <1>1, UnbilledBefore DEF Unbilled
<1>6. /\ requests' \subseteq Row /\ WrittenFor(a)
      /\ \A q \in requests' : q \in requests \/ (q.id = a /\ q.status = "error" /\ q.cost = 0)
  BY PersistShape DEF ProviderFails
<1>7. Debits(a)' = Debits(a) BY <1>3, SameDebits DEF ledgerVars
<1>8. \A q \in requests' : q \in requests \/ RowInv(q)' BY <1>5, <1>6, <1>7 DEF RowInv
<1> QED BY <1>1, <1>2, <1>3, <1>4, <1>5, <1>6, <1>8, ReplyKeeps

LEMMA ProviderAnswersKeeps ==
    \A a \in Attempts : MeteringInv /\ ProviderAnswers(a) => MeteringInv'
<1> SUFFICES ASSUME NEW a \in Attempts, MeteringInv, ProviderAnswers(a) PROVE MeteringInv'
  OBVIOUS
<1>1. stage[a] = "calling" /\ stage[a] \in Busy BY DEF ProviderAnswers, At, Busy
<1>2. UNCHANGED ledgerVars /\ UNCHANGED clientVars /\ requests' = requests BY DEF ProviderAnswers
<1>3. Unbilled(a) BY <1>1, UnbilledBefore
<1>4. requests' \subseteq Row /\ WrittenFor(a) BY <1>2, TypeParts DEF MeteringInv, WrittenFor
<1>5. PICK n \in Amounts : cost' = [cost EXCEPT ![a] = n] BY DEF ProviderAnswers
<1>6. stage' = [stage EXCEPT ![a] = "answered"] /\ outcome' = outcome /\ seen' = seen
  BY DEF ProviderAnswers, Proceed
<1>7. HandlerTypes BY TypeParts DEF MeteringInv
<1>8. Elsewhere(a) BY <1>5, <1>6, <1>7 DEF Elsewhere, HandlerTypes
<1>9. stage'[a] = "answered" BY <1>6, <1>7 DEF HandlerTypes
<1>10. HandlerTypes'
  <2>1. stage' \in [Attempts -> Stages] BY <1>6, <1>7 DEF HandlerTypes, Stages
  <2>2. cost' \in [Attempts -> Amounts \cup {0}] BY <1>5, <1>7 DEF HandlerTypes
  <2> QED BY <1>6, <1>7, <2>1, <2>2 DEF HandlerTypes
<1>11. TypeInv' BY <1>2, <1>4, <1>10, TypeKeptAside DEF MeteringInv
<1>12. Debits(a)' = Debits(a) BY <1>2, SameDebits DEF ledgerVars
<1>13. ChargeInv(a)'
  BY <1>1, <1>2, <1>3, <1>6, <1>9, <1>12 DEF MeteringInv, AttemptInv, ChargeInv, Unbilled
<1>14. FundsInv(a)'
  <2>1. FundsInv(a) BY DEF MeteringInv, AttemptInv
  <2> QED BY <1>1, <1>2, <1>6, <2>1 DEF FundsInv, DebitedSince, ledgerVars, Payer
<1> QED BY <1>1, <1>2, <1>4, <1>8, <1>9, <1>11, <1>13, <1>14, HandlerFrame

(* The one debit of an attempt, of what its work costs *)
LEMMA DebitShape ==
    ASSUME MeteringInv, NEW a \in Attempts, Unbilled(a), DebitBook(Payer(a), cost[a], a)
    PROVE  /\ DebitedFor(a)
           /\ balance' \in [Merchants -> Nat] /\ book' \in [Merchants -> Seq(BookEntry)]
           /\ \E i : Debits(a)' = {i} /\ book'[Payer(a)][i].amount = cost[a]
<1>1. TypeInv BY DEF MeteringInv
<1>2. cost[a] \in Nat /\ balance[Payer(a)] \in Nat /\ balance[Payer(a)] >= cost[a]
  BY <1>1, TypeParts, PayerType, CostType DEF DebitBook
<1> DEFINE e == Entry("debit", cost[a], balance[Payer(a)] - cost[a], a)
<1>3. /\ e \in BookEntry /\ e.type = "debit" /\ e.ref = a /\ e.amount = cost[a]
  BY <1>2 DEF Entry, BookEntry
<1>4. Record(Payer(a), e) BY DEF DebitBook
<1> HIDE DEF e
<1>5. DebitedFor(a) BY <1>3, <1>4 DEF DebitedFor
<1>6. balance' \in [Merchants -> Nat] /\ book' \in [Merchants -> Seq(BookEntry)]
  BY <1>1, <1>3, <1>4, RecordTypes, PayerType
<1>7. \E i : Debits(a)' = {i} /\ book'[Payer(a)][i] = e
  BY <1>1, <1>3, <1>4, FirstDebit DEF Unbilled
<1> QED BY <1>3, <1>5, <1>6, <1>7

LEMMA DebitKeeps == \A a \in Attempts : MeteringInv /\ Debit(a) => MeteringInv'
<1> SUFFICES ASSUME NEW a \in Attempts, MeteringInv, Debit(a) PROVE MeteringInv'
  OBVIOUS
<1>1. stage[a] = "answered" /\ stage[a] \in Busy BY DEF Debit, At, Busy
<1>2. UNCHANGED clientVars /\ requests' = requests /\ seen' = seen /\ cost' = cost BY DEF Debit
<1>3. stage' = [stage EXCEPT ![a] = "billed"] /\ outcome' = outcome BY DEF Debit, Proceed
<1>4. Unbilled(a) BY <1>1, UnbilledBefore
<1>5. /\ DebitedFor(a)
      /\ balance' \in [Merchants -> Nat] /\ book' \in [Merchants -> Seq(BookEntry)]
      /\ \E i : Debits(a)' = {i} /\ book'[Payer(a)][i].amount = cost[a]
  BY <1>4, DebitShape DEF Debit
<1>6. TypeInv BY DEF MeteringInv
<1>7. HandlerTypes'
  <2>1. stage' \in [Attempts -> Stages] BY <1>3, <1>6, TypeParts DEF HandlerTypes, Stages
  <2> QED BY <1>2, <1>3, <1>6, <2>1, TypeParts DEF HandlerTypes
<1>8. TypeInv' BY <1>2, <1>5, <1>6, <1>7, TypeParts, TypeKept DEF clientVars
<1>9. stage'[a] = "billed" BY <1>3, <1>6, TypeParts DEF HandlerTypes
<1>10. Elsewhere(a) /\ WrittenFor(a)
  BY <1>2, <1>3, <1>6, TypeParts DEF HandlerTypes, Elsewhere, WrittenFor
<1>11. ChargeInv(a)'
  <2>1. outcome'[a] = "none" BY <1>1, <1>3 DEF MeteringInv, AttemptInv, ChargeInv
  <2>2. PICK i : Debits(a)' = {i} /\ book'[Payer(a)][i].amount = cost[a] BY <1>5
  <2>3. (\E j \in Debits(a) : book[Payer(a)][j].amount = cost[a])'
    BY <1>2, <2>2 DEF Payer
  <2>4. \A j, k \in Debits(a)' : j = k BY <2>2
  <2> QED BY <1>9, <2>1, <2>3, <2>4 DEF ChargeInv
<1>12. FundsInv(a)' BY <1>9 DEF FundsInv
<1>13. \A q \in requests' : q \in requests BY <1>2
<1> QED BY <1>1, <1>2, <1>4, <1>5, <1>8, <1>9, <1>10, <1>11, <1>12, <1>13, HandlerFrame DEF Busy

LEMMA DebitInsufficientKeeps ==
    \A a \in Attempts : MeteringInv /\ DebitInsufficient(a) => MeteringInv'
<1> SUFFICES ASSUME NEW a \in Attempts, MeteringInv, DebitInsufficient(a) PROVE MeteringInv'
  OBVIOUS
<1>1. stage[a] = "answered" /\ stage[a] \in Busy BY DEF DebitInsufficient, At, Busy
<1>2. Reply(a, "insufficient") /\ "insufficient" \in Outcome \ {"none"}
  BY DEF DebitInsufficient, Outcome
<1>3. UNCHANGED ledgerVars /\ UNCHANGED clientVars BY DEF DebitInsufficient
<1>4. Debits(a) = {} BY <1>1, UnbilledBefore DEF Unbilled
<1>5. cost[a] \in Nat BY CostType
<1>6. /\ requests' \subseteq Row /\ WrittenFor(a)
      /\ \A q \in requests' : q \in requests \/ (q.id = a /\ q.status = "unbilled" /\ q.cost = cost[a])
  BY <1>5, PersistShape DEF DebitInsufficient
<1>7. Debits(a)' = Debits(a) BY <1>3, SameDebits DEF ledgerVars
<1>8. \A q \in requests' : q \in requests \/ RowInv(q)' BY <1>4, <1>6, <1>7 DEF RowInv
<1> QED BY <1>1, <1>2, <1>3, <1>4, <1>6, <1>8, ReplyKeeps

(* Committed or not, the answer is an error. *)
LEMMA DebitFailsKeeps == \A a \in Attempts : MeteringInv /\ DebitFails(a) => MeteringInv'
<1> SUFFICES ASSUME NEW a \in Attempts, MeteringInv, DebitFails(a) PROVE MeteringInv'
  OBVIOUS
<1>1. stage[a] = "answered" /\ stage[a] \in Busy BY DEF DebitFails, At, Busy
<1>2. Reply(a, "db_error") /\ "db_error" \in Outcome \ {"none"}
  BY DEF DebitFails, Outcome, Retryable
<1>3. UNCHANGED clientVars /\ requests' = requests BY DEF DebitFails
<1>4. Unbilled(a) BY <1>1, UnbilledBefore
<1>5. requests' \subseteq Row /\ WrittenFor(a) BY <1>3, TypeParts DEF MeteringInv, WrittenFor
<1>6. \A q \in requests' : q \in requests BY <1>3
<1>7. CASE UNCHANGED ledgerVars
  BY <1>1, <1>2, <1>3, <1>5, <1>6, <1>7, ReplyKeeps
<1>8. CASE DebitBook(Payer(a), cost[a], a)
  <2>1. /\ Elsewhere(a) /\ HandlerTypes'
        /\ \/ stage'[a] = "replied" /\ outcome'[a] = "db_error"
           \/ stage'[a] = "gone" /\ outcome'[a] = "none"
    BY <1>1, <1>2, ReplyShape
  <2>2. /\ DebitedFor(a)
        /\ balance' \in [Merchants -> Nat] /\ book' \in [Merchants -> Seq(BookEntry)]
        /\ \E i : Debits(a)' = {i} /\ book'[Payer(a)][i].amount = cost[a]
    BY <1>4, <1>8, DebitShape
  <2>3. TypeInv' BY <1>3, <1>5, <2>1, <2>2, TypeParts, TypeKept DEF clientVars, MeteringInv
  <2>4. ChargeInv(a)'
    <3>1. \A j, k \in Debits(a)' : j = k BY <2>2
    <3> QED BY <2>1, <3>1 DEF ChargeInv
  <2>5. FundsInv(a)' BY <2>1 DEF FundsInv
  <2>6. stage'[a] # "delivered" BY <2>1
  <2> QED BY <1>1, <1>3, <1>4, <1>5, <1>6, <2>1, <2>2, <2>3, <2>4, <2>5, <2>6, HandlerFrame DEF Busy
<1> QED BY <1>7, <1>8 DEF DebitFails

LEMMA FinishKeeps == \A a \in Attempts : MeteringInv /\ Finish(a) => MeteringInv'
<1> SUFFICES ASSUME NEW a \in Attempts, MeteringInv, Finish(a) PROVE MeteringInv'
  OBVIOUS
<1>1. stage[a] = "billed" /\ stage[a] \in Busy BY DEF Finish, At, Busy
<1>2. Reply(a, "ok") /\ "ok" \in Outcome \ {"none"} BY DEF Finish, Outcome
<1>3. UNCHANGED ledgerVars /\ UNCHANGED clientVars BY DEF Finish
<1>4. PICK i \in Debits(a) : book[Payer(a)][i].amount = cost[a]
  BY <1>1 DEF MeteringInv, AttemptInv, ChargeInv
<1>5. cost[a] \in Nat BY CostType
<1>6. /\ requests' \subseteq Row /\ WrittenFor(a)
      /\ \A q \in requests' : q \in requests \/ (q.id = a /\ q.status = "ok" /\ q.cost = cost[a])
  BY <1>5, PersistShape DEF Finish
<1>7. Debits(a)' = Debits(a) /\ book' = book BY <1>3, SameDebits DEF ledgerVars
<1>8. ASSUME NEW q \in requests', q \notin requests PROVE RowInv(q)'
  <2>1. q.id = a /\ q.status = "ok" /\ q.cost = cost[a] BY <1>6, <1>8
  <2>2. Payer(q.id)' = Payer(a) BY <2>1 DEF Payer
  <2> QED BY <1>4, <1>7, <2>1, <2>2 DEF RowInv
<1>9. \A q \in requests' : q \in requests \/ RowInv(q)' BY <1>8
<1> QED BY <1>1, <1>2, <1>3, <1>4, <1>6, <1>9, ReplyKeeps

(* A crash: every handler at work is gone, and an answer on its way is not. *)
LEMMA CrashKeeps == MeteringInv /\ Crash => MeteringInv'
<1> SUFFICES ASSUME MeteringInv, Crash PROVE MeteringInv'
  OBVIOUS
<1>1. UNCHANGED ledgerVars /\ UNCHANGED clientVars /\ outcome' = outcome /\ requests' = requests
  BY DEF Crash
<1>2. UNCHANGED <<balance, book, client, tries>> BY <1>1 DEF ledgerVars, clientVars
<1>3. TypeInv BY DEF MeteringInv
<1>4. HandlerTypes'
  <2>1. seen' \in [Attempts -> Nat] /\ cost' \in [Attempts -> Amounts \cup {0}] BY DEF Crash
  <2>2. stage' \in [Attempts -> Stages] BY <1>3, TypeParts DEF Crash, HandlerTypes, Stages
  <2> QED BY <1>1, <1>3, <2>1, <2>2, TypeParts DEF HandlerTypes
<1>5. TypeInv' BY <1>1, <1>3, <1>4, TypeKeptAside, TypeParts
<1>6. ASSUME NEW b \in Attempts
      PROVE  stage'[b] = IF stage[b] \in Busy THEN "gone" ELSE stage[b]
  BY DEF Crash, Working, Busy
<1>7. ASSUME NEW b \in Attempts PROVE AttemptInv(b)'
  <2>1. ChargeInv(b) /\ FundsInv(b) /\ SentInv(b) BY DEF MeteringInv, AttemptInv
  <2>2. Debits(b)' = Debits(b) BY <1>2, SameDebits
  <2>3. Unbilled(b) => Unbilled(b)' BY <1>1, <2>2 DEF Unbilled
  <2>4. ChargeInv(b)' BY <1>1, <1>6, <2>1, <2>2, <2>3 DEF ChargeInv, Busy
  <2>5. FundsInv(b)' BY <1>6 DEF FundsInv, Busy
  <2>6. SentInv(b)' BY <1>1, <1>2, <1>6, <2>1 DEF SentInv, Busy
  <2> QED BY <2>4, <2>5, <2>6 DEF AttemptInv
<1>8. ASSUME NEW c \in Calls PROVE ClientInv(c)'
  <2>1. ClientInv(c) BY DEF MeteringInv
  <2>2. Last(c)' = Last(c) BY <1>2 DEF Last
  <2>3. CASE client[c] = "waiting"
    <3>1. Last(c) \in Attempts BY <2>1, <2>3 DEF ClientInv, Last, Attempts
    <3> QED BY <1>2, <1>6, <2>1, <2>2, <2>3, <3>1 DEF ClientInv
  <2>4. CASE client[c] # "waiting" BY <1>1, <1>2, <2>1, <2>2, <2>4 DEF ClientInv
  <2> QED BY <2>3, <2>4
<1>9. ASSUME NEW q \in requests' PROVE RowInv(q)'
  <2>1. q \in requests /\ q.id \in Attempts /\ RowInv(q)
    BY <1>1, <1>3 DEF MeteringInv, TypeInv, MeteringTypeOK
  <2>2. Debits(q.id)' = Debits(q.id) BY <1>2, <2>1, SameDebits
  <2> QED BY <1>2, <2>1, <2>2 DEF RowInv, Payer
<1> QED BY <1>5, <1>7, <1>8, <1>9 DEF MeteringInv

------------------------------------------------------------------------------
(* The steps of a client.                                                  *)

(* What a client may do to the answer of an attempt: nothing, take it, or  *)
(* miss it.                                                                *)
Moved(b, s) ==
    \/ s = stage[b] /\ outcome'[b] = outcome[b]
    \/ stage[b] = "replied" /\ s = "delivered" /\ outcome'[b] = outcome[b]
    \/ stage[b] = "replied" /\ s = "gone" /\ outcome'[b] = "none"

(* It is the answer of its last attempt. *)
Heard(c, st) ==
    /\ st \in [Attempts -> Stages] /\ outcome' \in [Attempts -> Outcome]
    /\ \A b \in Attempts : Moved(b, st[b])
    /\ \A b \in Attempts : b # Last(c) => st[b] = stage[b] /\ outcome'[b] = outcome[b]

ServerStill == UNCHANGED ledgerVars /\ seen' = seen /\ cost' = cost /\ requests' = requests

LEMMA StillKeeps ==
    ASSUME MeteringInv, ServerStill, NEW b \in Attempts,
           \/ Moved(b, stage'[b])
           \/ stage[b] = "none" /\ stage'[b] = "received" /\ outcome'[b] = outcome[b]
    PROVE  ChargeInv(b)' /\ FundsInv(b)'
<1>1. ChargeInv(b) /\ FundsInv(b) BY DEF MeteringInv, AttemptInv
<1>2. book' = book /\ balance' = balance /\ seen' = seen /\ cost' = cost /\ requests' = requests
  BY DEF ServerStill, ledgerVars
<1>3. Debits(b)' = Debits(b) BY <1>2, SameDebits
<1>4. Unbilled(b) => Unbilled(b)' BY <1>2, <1>3 DEF Unbilled
<1>5. (\E i \in Debits(b) : book[Payer(b)][i].amount = cost[b])
        => (\E i \in Debits(b) : book[Payer(b)][i].amount = cost[b])'
  BY <1>2, <1>3 DEF Payer
<1>6. ChargeInv(b)' BY <1>1, <1>3, <1>4, <1>5 DEF ChargeInv, Moved
<1>7. FundsInv(b)' BY <1>1, <1>2 DEF FundsInv, DebitedSince, Payer, Moved
<1> QED BY <1>6, <1>7

LEMMA StillRows ==
    ASSUME MeteringInv, ServerStill, NEW q \in requests'
    PROVE  RowInv(q)'
<1>1. q \in requests /\ q.id \in Attempts /\ RowInv(q)
  BY DEF MeteringInv, TypeInv, MeteringTypeOK, ServerStill
<1>2. book' = book BY DEF ServerStill, ledgerVars
<1>3. Debits(q.id)' = Debits(q.id) BY <1>1, <1>2, SameDebits
<1> QED BY <1>1, <1>2, <1>3 DEF RowInv, Payer

LEMMA StillTypes ==
    ASSUME MeteringInv, ServerStill,
           client' \in [Calls -> {"idle", "waiting", "ok", "insufficient", "error"}],
           tries' \in [Calls -> 0..MaxTries],
           stage' \in [Attempts -> Stages], outcome' \in [Attempts -> Outcome]
    PROVE  TypeInv'
<1>1. HandlerTypes' BY TypeParts DEF MeteringInv, HandlerTypes, ServerStill
<1>2. balance' = balance /\ book' = book BY DEF ServerStill, ledgerVars
<1>3. TypeInv BY DEF MeteringInv
<1>4. balance' \in [Merchants -> Nat] /\ book' \in [Merchants -> Seq(BookEntry)]
  BY <1>2, <1>3, TypeParts
<1>5. requests' \subseteq Row BY <1>3, TypeParts DEF ServerStill
<1> QED BY <1>1, <1>4, <1>5, TypeKept

(* The clients of the other calls *)
LEMMA OtherClients ==
    ASSUME MeteringInv, NEW c \in Calls, NEW d \in Calls, d # c,
           client'[d] = client[d], tries'[d] = tries[d],
           \A b \in Attempts : b[1] # c => stage'[b] = stage[b] /\ outcome'[b] = outcome[b]
    PROVE  ClientInv(d)'
<1>1. ClientInv(d) BY DEF MeteringInv
<1>2. Last(d)' = Last(d) BY DEF Last
<1>3. CASE client[d] \in {"waiting", "ok", "insufficient"}
  <2>1. Last(d) \in Attempts /\ Last(d)[1] # c BY <1>1, <1>3 DEF ClientInv, Last, Attempts
  <2> QED BY <1>1, <1>2, <1>3, <2>1 DEF ClientInv
<1>4. CASE client[d] \notin {"waiting", "ok", "insufficient"} BY <1>1, <1>2, <1>4 DEF ClientInv
<1> QED BY <1>3, <1>4

LEMMA ConcludeKeeps ==
    ASSUME MeteringInv, ServerStill, NEW c \in Calls, NEW st, Heard(c, st),
           NEW l \in {"ok", "insufficient", "error"}, Conclude(c, l, st),
           l # "error" => tries[c] \in 1..MaxTries /\ outcome'[Last(c)] = l
    PROVE  MeteringInv'
<1>1. client' = [client EXCEPT ![c] = l] /\ stage' = st /\ tries' = tries BY DEF Conclude
<1>2. client \in [Calls -> {"idle", "waiting", "ok", "insufficient", "error"}]
      /\ tries \in [Calls -> 0..MaxTries]
  BY TypeParts DEF MeteringInv
<1>3. TypeInv'
  <2>1. client' \in [Calls -> {"idle", "waiting", "ok", "insufficient", "error"}] BY <1>1, <1>2
  <2> QED BY <1>1, <1>2, <2>1, StillTypes DEF Heard
<1>4. ASSUME NEW b \in Attempts PROVE AttemptInv(b)'
  <2>1. ChargeInv(b)' /\ FundsInv(b)' BY <1>1, StillKeeps DEF Heard
  <2>2. SentInv(b) BY DEF MeteringInv, AttemptInv
  <2>3. SentInv(b)'
    <3>1. CASE b = Last(c)
      <4>1. b[1] = c /\ b[2] = tries[c] /\ tries[c] \in Nat BY <1>2, <3>1 DEF Last
      <4> QED BY <1>1, <4>1 DEF SentInv
    <3>2. CASE b # Last(c) BY <1>1, <2>2, <3>2 DEF SentInv, Heard
    <3> QED BY <3>1, <3>2
  <2> QED BY <2>1, <2>3 DEF AttemptInv
<1>5. ASSUME NEW d \in Calls PROVE ClientInv(d)'
  <2>1. CASE d = c
    <3>1. client'[c] = l /\ Last(c)' = Last(c) BY <1>1, <1>2 DEF Last
    <3>2. ClientInv(c) BY DEF MeteringInv
    <3> QED BY <1>1, <2>1, <3>1, <3>2 DEF ClientInv
  <2>2. CASE d # c
    <3>1. client'[d] = client[d] /\ tries'[d] = tries[d] BY <1>1, <1>2, <2>2
    <3>2. \A b \in Attempts : b[1] # c => stage'[b] = stage[b] /\ outcome'[b] = outcome[b]
      BY <1>1 DEF Heard, Last
    <3> QED BY <2>2, <3>1, <3>2, OtherClients
  <2> QED BY <2>1, <2>2
<1> QED BY <1>3, <1>4, <1>5, StillRows DEF MeteringInv

LEMMA SendKeeps ==
    ASSUME MeteringInv, ServerStill, NEW c \in Calls, NEW st, Heard(c, st), Send(c, st),
           tries[c] < MaxTries, c \in Habas => tries[c] = 0,
           Last(c) \in Attempts /\ st[Last(c)] = "delivered" => outcome'[Last(c)] \in Retryable
    PROVE  MeteringInv'
<1> DEFINE n == <<c, tries[c] + 1>>
<1>1. /\ client' = [client EXCEPT ![c] = "waiting"]
      /\ tries' = [tries EXCEPT ![c] = tries[c] + 1]
      /\ stage' = [st EXCEPT ![n] = "received"]
  BY DEF Send
<1>2. client \in [Calls -> {"idle", "waiting", "ok", "insufficient", "error"}]
      /\ tries \in [Calls -> 0..MaxTries]
  BY TypeParts DEF MeteringInv
<1>3. tries[c] \in 0..MaxTries /\ MaxTries \in Nat BY <1>2, MeteringAssumption
<1>4. tries[c] + 1 \in 1..MaxTries BY <1>3
<1>5. n \in Attempts /\ n[1] = c /\ n[2] = tries[c] + 1 BY <1>4 DEF Attempts
<1>6. n # Last(c) BY <1>3 DEF Last
<1>7. stage[n] = "none"
  <2>1. SentInv(n) BY <1>5 DEF MeteringInv, AttemptInv
  <2> QED BY <1>3, <1>5, <2>1 DEF SentInv
<1> HIDE DEF n
<1>8. \A b \in Attempts : stage'[b] = IF b = n THEN "received" ELSE st[b]
  BY <1>1 DEF Heard
<1>9. TypeInv'
  <2>1. client' \in [Calls -> {"idle", "waiting", "ok", "insufficient", "error"}] BY <1>1, <1>2
  <2>2. tries' \in [Calls -> 0..MaxTries] BY <1>1, <1>2, <1>4
  <2>3. stage' \in [Attempts -> Stages] BY <1>1 DEF Heard, Stages
  <2> QED BY <2>1, <2>2, <2>3, StillTypes DEF Heard
<1>10. ASSUME NEW b \in Attempts PROVE AttemptInv(b)'
  <2>1. ChargeInv(b)' /\ FundsInv(b)'
    <3>1. CASE b = n BY <1>5, <1>6, <1>7, <1>8, <3>1, StillKeeps DEF Heard
    <3>2. CASE b # n BY <1>8, <3>2, StillKeeps DEF Heard
    <3> QED BY <3>1, <3>2
  <2>2. SentInv(b) BY DEF MeteringInv, AttemptInv
  <2>3. b[1] \in Calls /\ b[2] \in 1..MaxTries /\ b = <<b[1], b[2]>> BY DEF Attempts
  <2>4. SentInv(b)'
    <3>1. CASE b = n
      <4>1. tries'[c] = tries[c] + 1 BY <1>1, <1>2
      <4> QED BY <1>3, <1>5, <1>8, <3>1, <4>1 DEF SentInv
    <3>2. CASE b = Last(c)
      <4>1. tries'[c] = tries[c] + 1 /\ b[1] = c /\ b[2] = tries[c]
        BY <1>1, <1>2, <3>2 DEF Last
      <4>2. stage'[b] = st[b] BY <1>6, <1>8, <3>2
      <4> QED BY <1>3, <3>2, <4>1, <4>2 DEF SentInv
    <3>3. CASE b # n /\ b # Last(c)
      <4>1. stage'[b] = stage[b] /\ outcome'[b] = outcome[b] BY <1>8, <3>3 DEF Heard
      <4>2. CASE b[1] = c
        <5>1. tries'[c] = tries[c] + 1 BY <1>1, <1>2
        <5>2. b[2] # tries[c] /\ b[2] # tries[c] + 1 BY <2>3, <3>3, <4>2 DEF n, Last
        <5> QED BY <1>3, <2>2, <2>3, <4>1, <4>2, <5>1, <5>2 DEF SentInv
      <4>3. CASE b[1] # c
        <5>1. tries'[b[1]] = tries[b[1]] BY <1>1, <1>2, <2>3, <4>3
        <5> QED BY <2>2, <4>1, <5>1 DEF SentInv
      <4> QED BY <4>2, <4>3
    <3> QED BY <3>1, <3>2, <3>3
  <2> QED BY <2>1, <2>4 DEF AttemptInv
<1>11. ASSUME NEW d \in Calls PROVE ClientInv(d)'
  <2>1. CASE d = c
    <3>1. client'[c] = "waiting" /\ tries'[c] = tries[c] + 1 BY <1>1, <1>2
    <3>2. Last(c)' = n BY <3>1 DEF Last, n
    <3>3. stage'[n] = "received" BY <1>5, <1>8
    <3>4. c \in Habas => tries'[c] <= 1 BY <3>1
    <3> QED BY <1>4, <2>1, <3>1, <3>2, <3>3, <3>4 DEF ClientInv
  <2>2. CASE d # c
    <3>1. client'[d] = client[d] /\ tries'[d] = tries[d] BY <1>1, <1>2, <2>2
    <3>2. \A b \in Attempts : b[1] # c => stage'[b] = stage[b] /\ outcome'[b] = outcome[b]
      BY <1>5, <1>8 DEF Heard, Last
    <3> QED BY <2>2, <3>1, <3>2, OtherClients
  <2> QED BY <2>1, <2>2
<1> QED BY <1>9, <1>10, <1>11, StillRows DEF MeteringInv

LEMMA CallKeeps == \A c \in Calls : MeteringInv /\ Call(c) => MeteringInv'
<1> SUFFICES ASSUME NEW c \in Calls, MeteringInv, Call(c) PROVE MeteringInv'
  OBVIOUS
<1>1. client[c] = "idle" /\ ServerStill /\ outcome' = outcome BY DEF Call, ServerStill
<1>2. TypeInv /\ ClientInv(c) BY DEF MeteringInv
<1>3. tries[c] = 0 BY <1>1, <1>2 DEF ClientInv
<1>4. Last(c) \notin Attempts BY <1>3 DEF Last, Attempts
<1>5. Heard(c, stage)
  BY <1>1, <1>2, TypeParts DEF Heard, Moved, HandlerTypes
<1>6. CASE Send(c, stage)
  <2>1. tries[c] < MaxTries BY <1>3, MeteringAssumption
  <2> QED BY <1>1, <1>3, <1>4, <1>5, <1>6, <2>1, SendKeeps
<1>7. CASE client' = [client EXCEPT ![c] = "error"] /\ tries' = tries /\ stage' = stage
  <2>1. Conclude(c, "error", stage) BY <1>7 DEF Conclude
  <2> QED BY <1>1, <1>5, <2>1, ConcludeKeeps
<1> QED BY <1>6, <1>7 DEF Call

LEMMA AgainKeeps ==
    ASSUME MeteringInv, ServerStill, NEW c \in Calls, NEW st, Heard(c, st), Again(c, st),
           st[Last(c)] = "delivered" => outcome'[Last(c)] \in Retryable
    PROVE  MeteringInv'
<1>1. CASE c \notin Habas /\ tries[c] < MaxTries
  <2>1. Send(c, st) BY <1>1 DEF Again
  <2> QED BY <1>1, <2>1, SendKeeps
<1>2. CASE ~(c \notin Habas /\ tries[c] < MaxTries)
  <2>1. Conclude(c, "error", st) BY <1>2 DEF Again
  <2> QED BY <2>1, ConcludeKeeps
<1> QED BY <1>1, <1>2

LEMMA WaitingFacts ==
    ASSUME MeteringInv, NEW c \in Calls, client[c] = "waiting"
    PROVE  /\ Last(c) \in Attempts /\ tries[c] \in 1..MaxTries
           /\ stage[Last(c)] # "delivered"
           /\ outcome[Last(c)] # "none" <=> stage[Last(c)] = "replied"
<1>1. ClientInv(c) BY DEF MeteringInv
<1>2. Last(c) \in Attempts /\ tries[c] \in 1..MaxTries BY <1>1 DEF ClientInv, Last, Attempts
<1>3. ChargeInv(Last(c)) BY <1>2 DEF MeteringInv, AttemptInv
<1> QED BY <1>1, <1>2, <1>3 DEF ClientInv, ChargeInv

LEMMA AnsweredKeeps == \A c \in Calls : MeteringInv /\ Answered(c) => MeteringInv'
<1> SUFFICES ASSUME NEW c \in Calls, MeteringInv, Answered(c) PROVE MeteringInv'
  OBVIOUS
<1> DEFINE r == outcome[Last(c)]
           st == [stage EXCEPT ![Last(c)] = "delivered"]
<1>1. client[c] = "waiting" /\ stage[Last(c)] = "replied" /\ ServerStill /\ outcome' = outcome
  BY DEF Answered, At, ServerStill
<1>2. Last(c) \in Attempts /\ tries[c] \in 1..MaxTries /\ r # "none" BY <1>1, WaitingFacts
<1>3. HandlerTypes BY TypeParts DEF MeteringInv
<1>4. Heard(c, st) BY <1>1, <1>2, <1>3 DEF Heard, Moved, HandlerTypes, Stages
<1>5. r \in Outcome /\ outcome'[Last(c)] = r BY <1>1, <1>2, <1>3 DEF HandlerTypes
<1>6. \/ c \in Habas /\ Once(c, r, st)
      \/ c \notin Habas /\ r \in {"ok", "insufficient"} /\ Conclude(c, r, st)
      \/ c \notin Habas /\ r = "refused" /\ Conclude(c, "error", st)
      \/ c \notin Habas /\ r \notin {"ok", "insufficient", "refused"} /\ Again(c, st)
  BY DEF Answered
<1> HIDE DEF r, st
<1>7. CASE c \in Habas /\ Once(c, r, st)
  <2>1. CASE r \in {"ok", "insufficient"}
    <3>1. Conclude(c, r, st) BY <1>7, <2>1 DEF Once
    <3> QED BY <1>1, <1>2, <1>4, <1>5, <2>1, <3>1, ConcludeKeeps
  <2>2. CASE r \notin {"ok", "insufficient"}
    <3>1. Conclude(c, "error", st) BY <1>7, <2>2 DEF Once
    <3> QED BY <1>1, <1>4, <3>1, ConcludeKeeps
  <2> QED BY <2>1, <2>2
<1>8. CASE r \in {"ok", "insufficient"} /\ Conclude(c, r, st)
  BY <1>1, <1>2, <1>4, <1>5, <1>8, ConcludeKeeps
<1>9. CASE Conclude(c, "error", st)
  BY <1>1, <1>4, <1>9, ConcludeKeeps
<1>10. CASE r \notin {"ok", "insufficient", "refused"} /\ Again(c, st)
  <2>1. r \in Retryable BY <1>2, <1>5, <1>10 DEF Outcome
  <2> QED BY <1>1, <1>4, <1>5, <1>10, <2>1, AgainKeeps
<1> QED BY <1>6, <1>7, <1>8, <1>9, <1>10

LEMMA NotAnsweredKeeps == \A c \in Calls : MeteringInv /\ NotAnswered(c) => MeteringInv'
<1> SUFFICES ASSUME NEW c \in Calls, MeteringInv, NotAnswered(c) PROVE MeteringInv'
  OBVIOUS
<1> DEFINE st == [stage EXCEPT ![Last(c)] = IF @ = "replied" THEN "gone" ELSE @]
<1>1. client[c] = "waiting" /\ ServerStill /\ outcome' = [outcome EXCEPT ![Last(c)] = "none"]
  BY DEF NotAnswered, ServerStill
<1>2. /\ Last(c) \in Attempts /\ stage[Last(c)] # "delivered"
      /\ outcome[Last(c)] # "none" <=> stage[Last(c)] = "replied"
  BY <1>1, WaitingFacts
<1>3. HandlerTypes BY TypeParts DEF MeteringInv
<1>4. st \in [Attempts -> Stages] /\ outcome' \in [Attempts -> Outcome]
  BY <1>1, <1>2, <1>3 DEF HandlerTypes, Stages, Outcome
<1>5. \A b \in Attempts : b # Last(c) => st[b] = stage[b] /\ outcome'[b] = outcome[b]
  BY <1>1, <1>3 DEF HandlerTypes
<1>6. /\ st[Last(c)] = IF stage[Last(c)] = "replied" THEN "gone" ELSE stage[Last(c)]
      /\ outcome'[Last(c)] = "none"
  BY <1>1, <1>2, <1>3 DEF HandlerTypes
<1>7. Again(c, st) \/ Conclude(c, "error", st) BY DEF NotAnswered
<1> HIDE DEF st
<1>8. \A b \in Attempts : Moved(b, st[b]) BY <1>2, <1>5, <1>6 DEF Moved
<1>9. Heard(c, st) BY <1>4, <1>5, <1>8 DEF Heard
<1>10. st[Last(c)] # "delivered" BY <1>2, <1>6
<1>11. CASE Again(c, st) BY <1>1, <1>9, <1>10, <1>11, AgainKeeps
<1>12. CASE Conclude(c, "error", st) BY <1>1, <1>9, <1>12, ConcludeKeeps
<1> QED BY <1>7, <1>11, <1>12

(* A credit takes nothing from anyone. *)
LEMMA TopUpKeeps == \A m \in Merchants : MeteringInv /\ TopUp(m) => MeteringInv'
<1> SUFFICES ASSUME NEW m \in Merchants, MeteringInv, TopUp(m) PROVE MeteringInv'
  OBVIOUS
<1>1. PICK n \in Amounts, ref \in Refs : CreditBook(m, n, ref) BY DEF TopUp
<1> DEFINE e == Entry("credit", n, balance[m] + n, ref)
<1>2. /\ client' = client /\ tries' = tries /\ requests' = requests
      /\ stage' = stage /\ seen' = seen /\ cost' = cost /\ outcome' = outcome
  BY DEF TopUp, clientVars, handlerVars
<1>3. TypeInv BY DEF MeteringInv
<1>4. balance[m] \in Nat /\ n \in Nat BY <1>3, TypeParts, MeteringAssumption
<1>5. e \in BookEntry /\ e.type = "credit" /\ e.balance_after >= balance[m]
  BY <1>4 DEF Entry, BookEntry
<1>6. Record(m, e) BY <1>1 DEF CreditBook
<1> HIDE DEF e
<1>7. TypeInv'
  <2>1. balance' \in [Merchants -> Nat] /\ book' \in [Merchants -> Seq(BookEntry)]
    BY <1>3, <1>5, <1>6, RecordTypes
  <2>2. HandlerTypes' BY <1>2, <1>3, TypeParts DEF HandlerTypes
  <2> QED BY <1>2, <1>3, <2>1, <2>2, TypeParts, TypeKept
<1>8. ASSUME NEW b \in Attempts
      PROVE  /\ Debits(b)' = Debits(b)
             /\ \A i \in Debits(b) : book'[Payer(b)][i] = book[Payer(b)][i]
  BY <1>3, <1>5, <1>6, OtherEntry
<1>9. ASSUME NEW b \in Attempts PROVE AttemptInv(b)'
  <2>1. ChargeInv(b) /\ FundsInv(b) /\ SentInv(b) BY DEF MeteringInv, AttemptInv
  <2>2. Unbilled(b) => Unbilled(b)' BY <1>2, <1>8 DEF Unbilled
  <2>3. (\E i \in Debits(b) : book[Payer(b)][i].amount = cost[b])
          => (\E i \in Debits(b) : book[Payer(b)][i].amount = cost[b])'
    BY <1>2, <1>8 DEF Payer
  <2>4. ChargeInv(b)' BY <1>2, <1>8, <2>1, <2>2, <2>3 DEF ChargeInv
  <2>5. FundsInv(b)' BY <1>2, <1>3, <1>5, <1>6, <2>1, FundsKept
  <2>6. SentInv(b)' BY <1>2, <2>1 DEF SentInv
  <2> QED BY <2>4, <2>5, <2>6 DEF AttemptInv
<1>10. ASSUME NEW c \in Calls PROVE ClientInv(c)'
  BY <1>2 DEF MeteringInv, ClientInv, Last
<1>11. ASSUME NEW q \in requests' PROVE RowInv(q)'
  <2>1. q \in requests /\ q.id \in Attempts /\ RowInv(q)
    BY <1>2, <1>3 DEF MeteringInv, TypeInv, MeteringTypeOK
  <2> QED BY <1>8, <2>1 DEF RowInv, Payer
<1> QED BY <1>7, <1>9, <1>10, <1>11 DEF MeteringInv

LEMMA StutterKeeps == MeteringInv /\ UNCHANGED vars => MeteringInv'
<1> SUFFICES ASSUME MeteringInv, UNCHANGED vars PROVE MeteringInv'
  OBVIOUS
<1>1. /\ client' = client /\ tries' = tries /\ requests' = requests
      /\ stage' = stage /\ seen' = seen /\ cost' = cost /\ outcome' = outcome
      /\ balance' = balance /\ book' = book
  BY DEF vars, ledgerVars, clientVars, handlerVars
<1>2. TypeInv' BY <1>1 DEF MeteringInv, TypeInv, MeteringTypeOK
<1>3. ServerStill BY <1>1 DEF ServerStill, ledgerVars
<1>4. ASSUME NEW b \in Attempts PROVE AttemptInv(b)'
  <2>1. ChargeInv(b)' /\ FundsInv(b)' BY <1>1, <1>3, StillKeeps DEF Moved
  <2>2. SentInv(b)' BY <1>1 DEF MeteringInv, AttemptInv, SentInv
  <2> QED BY <2>1, <2>2 DEF AttemptInv
<1>5. ASSUME NEW c \in Calls PROVE ClientInv(c)'
  BY <1>1 DEF MeteringInv, ClientInv, Last
<1> QED BY <1>2, <1>3, <1>4, <1>5, StillRows DEF MeteringInv

LEMMA InitMetering == MeteringInit => MeteringInv
<1> SUFFICES ASSUME MeteringInit PROVE MeteringInv
  OBVIOUS
<1>1. TypeInv
  <2>1. HandlerTypes BY DEF MeteringInit, HandlerTypes, Stages, Outcome
  <2>2. balance \in [Merchants -> Nat] /\ book \in [Merchants -> Seq(BookEntry)]
    BY DEF MeteringInit, BooksOpen
  <2>3. 0 \in 0..MaxTries BY MeteringAssumption
  <2>4. /\ client \in [Calls -> {"idle", "waiting", "ok", "insufficient", "error"}]
        /\ tries \in [Calls -> 0..MaxTries] /\ requests \subseteq Row
    BY <2>3 DEF MeteringInit
  <2> QED BY <2>1, <2>2, <2>4, TypeParts
<1>2. ASSUME NEW b \in Attempts PROVE AttemptInv(b)
  <2>1. stage[b] = "none" /\ outcome[b] = "none" /\ requests = {} BY DEF MeteringInit
  <2>2. Debits(b) = {} BY PayerType DEF MeteringInit, BooksOpen, Debits
  <2> QED BY <2>1, <2>2 DEF AttemptInv, ChargeInv, FundsInv, SentInv, Unbilled
<1>3. ASSUME NEW c \in Calls PROVE ClientInv(c)
  BY DEF MeteringInit, ClientInv
<1> QED BY <1>1, <1>2, <1>3 DEF MeteringInv, MeteringInit

(* Every step of the program, whoever takes it, keeps the ledger, the      *)
(* handlers and the clients in agreement.                                  *)
THEOREM MeteringInvariant == MeteringSpec => []MeteringInv
<1>1. MeteringInv /\ [MeteringNext]_vars => MeteringInv'
  <2> SUFFICES ASSUME MeteringInv, MeteringNext PROVE MeteringInv'
    BY StutterKeeps
  <2>1. CASE \E c \in Calls : Call(c) \/ ClientStep(c)
    BY <2>1, CallKeeps, AnsweredKeeps, NotAnsweredKeeps DEF ClientStep
  <2>2. CASE \E a \in Attempts : HandlerStep(a)
    BY <2>2, LimitedKeeps, PreflightKeeps, ProviderFailsKeeps, ProviderAnswersKeeps,
       DebitKeeps, DebitInsufficientKeeps, DebitFailsKeeps, FinishKeeps DEF HandlerStep
  <2>3. CASE \E m \in Merchants : TopUp(m) BY <2>3, TopUpKeeps
  <2>4. CASE Crash BY <2>4, CrashKeeps
  <2> QED BY <2>1, <2>2, <2>3, <2>4 DEF MeteringNext
<1> QED BY <1>1, InitMetering, PTL DEF MeteringSpec

LEMMA AtMostOne ==
    ASSUME NEW S, S = {} \/ \E x : S = {x}
    PROVE  Cardinality(S) <= 1
<1>1. CASE S = {}
  <2>1. Cardinality(S) = 0 BY <1>1, FS_EmptySet
  <2> QED BY <2>1
<1>2. CASE \E x : S = {x}
  <2>1. PICK x : S = {x} BY <1>2
  <2>2. Cardinality(S) = 1 BY <2>1, FS_Singleton
  <2> QED BY <2>2
<1> QED BY <1>1, <1>2

(* main.py: debit_for_request and the audit row it writes; whichever       *)
(* handlers, retries and crashes overlap, a row that says ok has exactly   *)
(* one debit of its cost, and any other has none.                          *)
THEOREM AuditAgrees == MeteringSpec => []AuditMatchesLedger
<1>1. MeteringInv => AuditMatchesLedger
  <2> SUFFICES ASSUME MeteringInv PROVE AuditMatchesLedger
    OBVIOUS
  <2>1. ASSUME NEW a \in Attempts PROVE Cardinality(Debits(a)) <= 1
    <3>1. \A i, j \in Debits(a) : i = j BY DEF MeteringInv, AttemptInv, ChargeInv
    <3>2. Debits(a) = {} \/ \E i : Debits(a) = {i} BY <3>1
    <3> QED BY <3>2, AtMostOne
  <2>2. \A q \in requests : RowInv(q) BY DEF MeteringInv
  <2> QED BY <2>1, <2>2 DEF AuditMatchesLedger, RowInv
<1> QED BY <1>1, MeteringInvariant, PTL

(* The SDK's Transport.request and HABA's chatCompletion: an answer that   *)
(* arrives tells the truth about the charge, however many attempts were    *)
(* sent, and a question of HABA's is charged at most once.                 *)
THEOREM AnswersArePaid == MeteringSpec => []AnswerIsPaid
<1>1. MeteringInv => AnswerIsPaid
  <2> SUFFICES ASSUME MeteringInv, NEW c \in Calls
               PROVE  /\ client[c] = "ok" => Debits(Last(c)) # {}
                      /\ client[c] = "insufficient" => Debits(Last(c)) = {}
                      /\ c \in Habas =>
                           Cardinality({n \in 1..MaxTries : Debits(<<c, n>>) # {}}) <= 1
    BY DEF AnswerIsPaid
  <2>1. ClientInv(c) BY DEF MeteringInv
  <2>2. ASSUME client[c] \in {"ok", "insufficient"}
        PROVE  Last(c) \in Attempts /\ outcome[Last(c)] = client[c] /\ ChargeInv(Last(c))
    BY <2>1, <2>2 DEF ClientInv, Last, Attempts, MeteringInv, AttemptInv
  <2>3. /\ client[c] = "ok" => Debits(Last(c)) # {}
        /\ client[c] = "insufficient" => Debits(Last(c)) = {}
    BY <2>2 DEF ChargeInv
  <2>4. ASSUME c \in Habas
        PROVE  Cardinality({n \in 1..MaxTries : Debits(<<c, n>>) # {}}) <= 1
    <3> DEFINE S == {n \in 1..MaxTries : Debits(<<c, n>>) # {}}
    <3>1. tries[c] <= 1 /\ tries[c] \in Nat /\ MaxTries \in Nat
      BY <2>1, <2>4, TypeParts, MeteringAssumption DEF ClientInv, MeteringInv
    <3>2. ASSUME NEW n \in 1..MaxTries, n # 1 PROVE Debits(<<c, n>>) = {}
      <4>1. <<c, n>> \in Attempts BY DEF Attempts
      <4>2. n > tries[c] BY <3>1, <3>2
      <4>3. stage[<<c, n>>] = "none" BY <4>1, <4>2 DEF MeteringInv, AttemptInv, SentInv
      <4> QED BY <4>1, <4>3, UnbilledBefore DEF Unbilled
    <3>3. S = {} \/ S = {1} BY <3>2
    <3> QED BY <3>3, AtMostOne
  <2> QED BY <2>3, <2>4
<1> QED BY <1>1, MeteringInvariant, PTL

(* The comment in main.py at the refused debit: what was sufficient when   *)
(* it was looked at has dropped since, or was estimated too low.           *)
THEOREM UnbilledByRace == MeteringSpec => []UnbilledOnlyByRace
<1>1. MeteringInv => UnbilledOnlyByRace
  <2> SUFFICES ASSUME MeteringInv, NEW a \in Attempts, stage[a] = "answered",
                      balance[Payer(a)] < cost[a]
               PROVE  \/ cost[a] > Estimate
                      \/ \E i \in 1..Len(book[Payer(a)]) :
                           i > seen[a] /\ book[Payer(a)][i].type = "debit"
    BY DEF UnbilledOnlyByRace, At
  <2>1. balance[Payer(a)] >= Estimate \/ DebitedSince(Payer(a), seen[a])
    BY DEF MeteringInv, AttemptInv, FundsInv
  <2>2. cost[a] \in Nat /\ balance[Payer(a)] \in Nat /\ Estimate \in Nat
    BY CostType, TypeParts, PayerType, MeteringAssumption DEF MeteringInv
  <2> QED BY <2>1, <2>2 DEF DebitedSince
<1> QED BY <1>1, MeteringInvariant, PTL

(* Transport.request, RETRY_EXCEPTIONS and RETRY_STATUS: the retry of a    *)
(* charged attempt happens only when its answer never arrived or said that *)
(* the debit had failed.                                                   *)
THEOREM ChargedAgain == MeteringSpec => []ChargedAgainOnlyIfLost
<1>1. MeteringInv => ChargedAgainOnlyIfLost
  <2> SUFFICES ASSUME MeteringInv, NEW a \in Attempts, Debits(a) # {}, a[2] < tries[a[1]],
                      stage[a] = "delivered"
               PROVE  outcome[a] = "db_error"
    BY DEF ChargedAgainOnlyIfLost
  <2>1. outcome[a] \in Retryable BY DEF MeteringInv, AttemptInv, SentInv
  <2>2. outcome[a] \notin {"limited", "provider"} BY DEF MeteringInv, AttemptInv, ChargeInv
  <2> QED BY <2>1, <2>2 DEF Retryable
<1> QED BY <1>1, MeteringInvariant, PTL
==============================================================================
