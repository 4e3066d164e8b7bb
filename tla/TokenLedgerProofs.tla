-------------------------- MODULE TokenLedgerProofs --------------------------
(***************************************************************************)
(* Proofs about TokenLedger for every set of merchants, amounts and        *)
(* concurrent sessions, and every bound on the length of the ledger.       *)
(***************************************************************************)
EXTENDS TokenLedger, SequenceTheorems, FiniteSetTheorems, TLAPS

------------------------------------------------------------------------------
(* Sessions.  A session past its SELECT holds the row of its merchant and  *)
(* knows the balance; nobody else holds it.                                *)

BusySessions == \A s \in Sessions : sess[s] # "idle" => op[s] \in Op

HoldersKnow ==
    \A s \in Sessions :
        IF sess[s] = "locked"
        THEN lock[op[s].merchant] = s /\ current[s] = balances[op[s].merchant].token
        ELSE current[s] = 0

SessionInv == LedgerTypeOK /\ BusySessions /\ BookIsChained /\ HoldersKnow

LEMMA SessionInit == LedgerInit => SessionInv
<1> SUFFICES ASSUME LedgerInit PROVE SessionInv
  OBVIOUS
<1> USE DEF LedgerInit
<1>1. LedgerTypeOK
  BY DEF LedgerTypeOK, NoRow, NoOp
<1>2. BusySessions /\ HoldersKnow
  BY DEF BusySessions, HoldersKnow
<1>3. BookIsChained
  BY DEF BookIsChained
<1> QED BY <1>1, <1>2, <1>3 DEF SessionInv

(* The end of a transaction gives up its locks and no other's. *)
LEMMA EndFrame ==
    ASSUME SessionInv, NEW s \in Sessions, End(s)
    PROVE  /\ lock' \in [Merchants -> Sessions \cup {NoSession}]
           /\ sess' \in [Sessions -> {"idle", "check", "select", "insert_row", "locked"}]
           /\ op' \in [Sessions -> Op \cup {NoOp}]
           /\ current' \in [Sessions -> Nat]
           /\ sess'[s] = "idle" /\ current'[s] = 0
           /\ \A t \in Sessions \ {s} :
                sess'[t] = sess[t] /\ op'[t] = op[t] /\ current'[t] = current[t]
           /\ \A m \in Merchants : lock[m] # s => lock'[m] = lock[m]
BY DEF SessionInv, LedgerTypeOK, End, SGoto

LEMMA RollbackKeeps ==
    ASSUME SessionInv, NEW s \in Sessions, Rollback(s)
    PROVE  SessionInv'
<1>1. End(s) /\ UNCHANGED <<entries, balances>>
  BY DEF Rollback
<1>2. LedgerTypeOK'
  BY <1>1, EndFrame DEF SessionInv, LedgerTypeOK
<1>3. BusySessions'
  BY <1>1, EndFrame DEF SessionInv, BusySessions
<1>4. BookIsChained'
  BY <1>1 DEF SessionInv, BookIsChained, Before
<1>5. HoldersKnow'
  <2> SUFFICES ASSUME NEW t \in Sessions
               PROVE  IF sess'[t] = "locked"
                      THEN /\ lock'[op'[t].merchant] = t
                           /\ current'[t] = balances[op'[t].merchant].token
                      ELSE current'[t] = 0
    BY <1>1 DEF HoldersKnow
  <2>1. CASE t = s
    BY <1>1, <2>1, EndFrame
  <2>2. CASE t # s /\ sess[t] = "locked"
    <3>1. op[t] \in Op /\ op[t].merchant \in Merchants
      BY <2>2 DEF SessionInv, BusySessions, Op
    <3> QED BY <1>1, <2>2, <3>1, EndFrame DEF SessionInv, HoldersKnow
  <2>3. CASE t # s /\ sess[t] # "locked"
    BY <1>1, <2>3, EndFrame DEF SessionInv, HoldersKnow
  <2> QED BY <2>1, <2>2, <2>3
<1> QED BY <1>2, <1>3, <1>4, <1>5 DEF SessionInv

(* A session writes the entry and the row that follow from the balance. *)
LEMMA WriteKeeps ==
    ASSUME SessionInv, NEW s \in Sessions, sess[s] = "locked", NEW t \in {"credit", "debit"},
           NEW after \in Nat, Write(s, t, after),
           IF t = "credit" THEN after = current[s] + op[s].amount
                           ELSE current[s] = after + op[s].amount
    PROVE  SessionInv'
<1> DEFINE m == op[s].merchant
           e == [type |-> t, amount |-> op[s].amount, balance_after |-> after, ref |-> op[s].ref]
<1>1. op[s] \in Op /\ m \in Merchants /\ lock[m] = s /\ current[s] = balances[m].token
  BY DEF SessionInv, BusySessions, HoldersKnow, Op
<1>2. e \in LedgerRow
  BY <1>1 DEF LedgerRow, Op
<1>3. /\ entries' = [entries EXCEPT ![m] = Append(@, e)]
      /\ balances' = [balances EXCEPT ![m] = Row(after, Len(entries[m]) + 1)]
      /\ End(s)
  BY DEF Write
<1>4. e.type = t /\ e.amount = op[s].amount /\ e.balance_after = after
  OBVIOUS
<1> HIDE DEF e
<1>5. entries[m] \in Seq(LedgerRow) /\ Len(entries[m]) \in Nat
  BY <1>1 DEF SessionInv, LedgerTypeOK
<1>6. LedgerTypeOK'
  <2>1. Append(entries[m], e) \in Seq(LedgerRow)
    BY <1>2, <1>5
  <2>2. Row(after, Len(entries[m]) + 1) \in [exists : BOOLEAN, token : Nat, last : Nat]
    BY <1>5 DEF Row
  <2> QED BY <1>1, <1>3, <2>1, <2>2, EndFrame DEF SessionInv, LedgerTypeOK
<1>7. BusySessions'
  BY <1>3, EndFrame DEF SessionInv, BusySessions
<1>8. BookIsChained'
  <2> SUFFICES ASSUME NEW n \in Merchants
               PROVE  /\ \A i \in 1..Len(entries'[n]) :
                           LET x == entries'[n][i] IN
                           /\ x.balance_after >= 0
                           /\ IF x.type = "credit" THEN x.balance_after = Before(n, i)' + x.amount
                                                   ELSE Before(n, i)' = x.balance_after + x.amount
                      /\ balances'[n] =
                           IF entries'[n] = <<>> THEN NoRow
                           ELSE Row(entries'[n][Len(entries'[n])].balance_after, Len(entries'[n]))
    BY DEF BookIsChained, Before
  <2>1. CASE n # m
    <3>1. entries'[n] = entries[n] /\ balances'[n] = balances[n]
      BY <1>1, <1>3, <2>1 DEF SessionInv, LedgerTypeOK
    <3> QED BY <3>1 DEF SessionInv, BookIsChained, Before
  <2>2. CASE n = m
    <3> DEFINE old == entries[m]
               new == entries'[m]
               k == Len(old)
               prior(q, i) == IF i = 1 THEN 0 ELSE q[i - 1].balance_after
               follows(x, b) == /\ x.balance_after >= 0
                                /\ IF x.type = "credit" THEN x.balance_after = b + x.amount
                                                        ELSE b = x.balance_after + x.amount
    <3>0. /\ new = Append(old, e) /\ old \in Seq(LedgerRow)
          /\ k \in Nat
      BY <1>1, <1>3, <1>5 DEF SessionInv, LedgerTypeOK
    <3>1. /\ new # <<>> /\ Len(new) = k + 1 /\ new[k + 1] = e
          /\ \A i \in 1..k : new[i] = old[i]
      BY <1>2, <3>0, AppendProperties
    <3>2. balances'[m] = Row(after, k + 1)
      BY <1>1, <1>3 DEF SessionInv, LedgerTypeOK
    <3>3. /\ \A i \in 1..k : follows(old[i], prior(old, i))
          /\ balances[m] = IF old = <<>> THEN NoRow ELSE Row(old[k].balance_after, k)
      BY <1>1 DEF SessionInv, BookIsChained, Before
    <3> HIDE DEF old, new, k
    <3>4. balances[m].token = IF k = 0 THEN 0 ELSE old[k].balance_after
      <4>1. old = <<>> <=> k = 0
        BY <3>0, EmptySeq DEF k
      <4> QED BY <3>3, <4>1 DEF NoRow, Row
    <3>5. ASSUME NEW i \in 1..k + 1 PROVE follows(new[i], prior(new, i))
      <4>1. CASE i = k + 1
        <5>1. prior(new, i) = balances[m].token
          BY <3>0, <3>1, <3>4, <4>1
        <5>2. new[i] = e /\ balances[m].token = current[s]
          BY <1>1, <3>1, <4>1
        <5>3. follows(e, current[s])
          BY <1>4
        <5> HIDE DEF follows, prior
        <5> QED BY <5>1, <5>2, <5>3
      <4>2. CASE i \in 1..k
        <5>1. i = 1 \/ i - 1 \in 1..k
          BY <3>0, <4>2
        <5>2. new[i] = old[i] /\ (i # 1 => new[i - 1] = old[i - 1])
          BY <3>1, <4>2, <5>1
        <5>3. prior(new, i) = prior(old, i)
          BY <5>2
        <5> HIDE DEF follows, prior
        <5> QED BY <3>3, <4>2, <5>2, <5>3
      <4>3. i = k + 1 \/ i \in 1..k
        BY <3>0
      <4> HIDE DEF follows, prior
      <4> QED BY <4>1, <4>2, <4>3
    <3>6. balances'[m] = IF new = <<>> THEN NoRow ELSE Row(new[Len(new)].balance_after, Len(new))
      BY <1>4, <3>1, <3>2
    <3> QED BY <2>2, <3>1, <3>5, <3>6 DEF Before, new
  <2> QED BY <2>1, <2>2
<1>9. HoldersKnow'
  <2> SUFFICES ASSUME NEW u \in Sessions
               PROVE  IF sess'[u] = "locked"
                      THEN /\ lock'[op'[u].merchant] = u
                           /\ current'[u] = balances'[op'[u].merchant].token
                      ELSE current'[u] = 0
    BY DEF HoldersKnow
  <2>1. CASE u = s
    BY <1>3, <2>1, EndFrame
  <2>2. CASE u # s /\ sess[u] = "locked"
    <3>1. op[u].merchant \in Merchants /\ lock[op[u].merchant] = u
      BY <2>2 DEF SessionInv, BusySessions, HoldersKnow, Op
    <3>2. op[u].merchant # m
      BY <1>1, <2>2, <3>1
    <3>3. balances'[op[u].merchant] = balances[op[u].merchant]
      BY <1>1, <1>3, <3>1, <3>2 DEF SessionInv, LedgerTypeOK
    <3> QED BY <1>3, <2>2, <3>1, <3>3, EndFrame DEF SessionInv, HoldersKnow
  <2>3. CASE u # s /\ sess[u] # "locked"
    BY <1>3, <2>3, EndFrame DEF SessionInv, HoldersKnow
  <2> QED BY <2>1, <2>2, <2>3
<1> QED BY <1>6, <1>7, <1>8, <1>9 DEF SessionInv

LEMMA SessionKeeps ==
    ASSUME SessionInv, NEW s \in Sessions, SessionStep(s)
    PROVE  SessionInv'
<1>0. /\ sess[s] # "idle" => op[s] \in Op /\ op[s].merchant \in Merchants /\ op[s].amount \in Nat
      /\ current[s] \in Nat
  BY LedgerAssumption DEF SessionInv, LedgerTypeOK, BusySessions, Op
<1>1. CASE CreditKnown(s) \/ InsertRowDuplicate(s) \/ DebitInsufficient(s) \/ Abort(s)
  BY <1>1, RollbackKeeps DEF CreditKnown, InsertRowDuplicate, DebitInsufficient, Abort
<1>2. CASE CreditUnknown(s)
  <2>1. LedgerTypeOK' /\ BusySessions'
    BY <1>2 DEF CreditUnknown, SGoto, SessionInv, LedgerTypeOK, BusySessions
  <2>2. BookIsChained'
    BY <1>2 DEF CreditUnknown, SGoto, SessionInv, BookIsChained, Before
  <2>3. HoldersKnow'
    BY <1>2 DEF CreditUnknown, SGoto, SessionInv, LedgerTypeOK, HoldersKnow
  <2> QED BY <2>1, <2>2, <2>3 DEF SessionInv
<1>3. CASE SelectForUpdate(s)
  <2>1. balances[op[s].merchant].token \in Nat
    BY <1>0, <1>3 DEF SelectForUpdate, SessionInv, LedgerTypeOK
  <2>2. LedgerTypeOK' /\ BusySessions' /\ BookIsChained'
    BY <1>0, <1>3, <2>1 DEF SelectForUpdate, SGoto, SessionInv, LedgerTypeOK, BusySessions,
       BookIsChained, Before
  <2>3. HoldersKnow'
    BY <1>0, <1>3, LedgerAssumption
       DEF SelectForUpdate, SGoto, SessionInv, LedgerTypeOK, BusySessions, HoldersKnow, Op
  <2> QED BY <2>2, <2>3 DEF SessionInv
<1>4. CASE SelectNoRow(s)
  <2>1. CASE op[s].type = "credit"
    <3>1. LedgerTypeOK' /\ BusySessions'
      BY <1>4, <2>1 DEF SelectNoRow, SGoto, SessionInv, LedgerTypeOK, BusySessions
    <3>2. BookIsChained'
      BY <1>4, <2>1 DEF SelectNoRow, SGoto, SessionInv, BookIsChained, Before
    <3>3. HoldersKnow'
      BY <1>4, <2>1 DEF SelectNoRow, SGoto, SessionInv, LedgerTypeOK, HoldersKnow
    <3> QED BY <3>1, <3>2, <3>3 DEF SessionInv
  <2>2. CASE op[s].type # "credit"
    BY <1>4, <2>2, RollbackKeeps DEF SelectNoRow, Rollback
  <2> QED BY <2>1, <2>2
<1>5. CASE InsertRow(s)
  <2>1. balances[op[s].merchant].token = 0
    <3> DEFINE m == op[s].merchant
    <3>1. m \in Merchants /\ ~balances[m].exists
      BY <1>0, <1>5 DEF InsertRow
    <3>2. balances[m] = NoRow \/ \E t, l : balances[m] = Row(t, l)
      BY <3>1 DEF SessionInv, BookIsChained
    <3>3. \A t, l : Row(t, l).exists
      BY DEF Row
    <3>4. balances[m] = NoRow
      BY <3>1, <3>2, <3>3
    <3> HIDE DEF m
    <3>5. balances[m].token = 0
      BY <3>4 DEF NoRow
    <3> QED BY <3>5 DEF m
  <2>2. LedgerTypeOK' /\ BusySessions' /\ BookIsChained'
    BY <1>0, <1>5 DEF InsertRow, SGoto, SessionInv, LedgerTypeOK, BusySessions, BookIsChained,
       Before
  <2>3. HoldersKnow'
    BY <1>0, <1>5, <2>1, LedgerAssumption
       DEF InsertRow, SGoto, SessionInv, LedgerTypeOK, BusySessions, HoldersKnow, Op
  <2> QED BY <2>2, <2>3 DEF SessionInv
<1>6. CASE CommitCredit(s)
  <2>1. current[s] + op[s].amount \in Nat
    BY <1>0, <1>6 DEF CommitCredit
  <2> QED BY <1>0, <1>6, <2>1, WriteKeeps DEF CommitCredit
<1>7. CASE CommitDebit(s)
  <2>1. /\ current[s] - op[s].amount \in Nat
        /\ current[s] = (current[s] - op[s].amount) + op[s].amount
    BY <1>0, <1>7 DEF CommitDebit
  <2> QED BY <1>0, <1>7, <2>1, WriteKeeps DEF CommitDebit
<1> QED BY <1>1, <1>2, <1>3, <1>4, <1>5, <1>6, <1>7 DEF SessionStep

LEMMA SessionStepKeeps == SessionInv /\ [LedgerNext]_vars => SessionInv'
<1> SUFFICES ASSUME SessionInv, [LedgerNext]_vars PROVE SessionInv'
  OBVIOUS
<1>1. ASSUME NEW s \in Sessions, NEW o \in Op, Begin(s, o) PROVE SessionInv'
  <2>1. LedgerTypeOK' /\ BusySessions'
    BY <1>1 DEF Begin, SGoto, SessionInv, LedgerTypeOK, BusySessions
  <2>2. BookIsChained'
    BY <1>1 DEF Begin, SGoto, SessionInv, BookIsChained, Before
  <2>3. HoldersKnow'
    BY <1>1 DEF Begin, SGoto, SessionInv, LedgerTypeOK, HoldersKnow
  <2> QED BY <2>1, <2>2, <2>3 DEF SessionInv
<1>2. CASE UNCHANGED vars
  BY <1>2 DEF vars, SessionInv, LedgerTypeOK, BusySessions, BookIsChained, Before, HoldersKnow
<1> QED BY <1>1, <1>2, SessionKeeps DEF LedgerNext

THEOREM SessionInvariance == LedgerSpec => []SessionInv
BY SessionInit, SessionStepKeeps, PTL DEF LedgerSpec

(* The ledger is well typed. *)
THEOREM LedgerTypeCorrect == LedgerSpec => []LedgerTypeOK
BY SessionInvariance, PTL DEF SessionInv

(* The book of a merchant reads as one history whatever transactions ran   *)
(* at the same time: no update is lost between a SELECT FOR UPDATE and the *)
(* COMMIT, not even when two sessions create the balances row.             *)
THEOREM BooksAreChained == LedgerSpec => []BookIsChained
BY SessionInvariance, PTL DEF SessionInv

------------------------------------------------------------------------------
(* Sessions implement the indivisible ledger: a COMMIT is the step, all    *)
(* else changes nothing that is committed.                                 *)

BooksStep == [Books!BooksNext]_(Books!ledgerVars)

LEMMA BooksFrame ==
    ASSUME UNCHANGED <<entries, balances>>
    PROVE  BooksStep
BY DEF BooksStep, Books!ledgerVars

LEMMA WriteMaps ==
    ASSUME SessionInv, NEW s \in Sessions, sess[s] = "locked", NEW t \in {"credit", "debit"},
           NEW after, Write(s, t, after),
           \/ t = "credit" /\ after = current[s] + op[s].amount
           \/ t = "debit" /\ after = current[s] - op[s].amount /\ current[s] >= op[s].amount
    PROVE  BooksStep
<1>0. op[s] \in Op /\ current[s] = balances[op[s].merchant].token
  BY DEF SessionInv, BusySessions, HoldersKnow
<1>1. PICK m \in Merchants, a \in Amounts, r \in Refs \cup {NoRef} :
        m = op[s].merchant /\ a = op[s].amount /\ r = op[s].ref
  BY <1>0 DEF Op
<1> DEFINE balance == [n \in Merchants |-> balances[n].token]
           e == [type |-> t, amount |-> a, balance_after |-> after, ref |-> r]
<1>2. entries' = [entries EXCEPT ![m] = Append(@, e)] /\ balance[m] = current[s]
  BY <1>0, <1>1 DEF Write
<1>3. balance' = [balance EXCEPT ![m] = after]
  <2>1. balances' = [balances EXCEPT ![m] = Row(after, Len(entries[m]) + 1)]
    BY <1>1 DEF Write
  <2>2. Row(after, Len(entries[m]) + 1).token = after
    BY DEF Row
  <2> QED BY <1>1, <2>1, <2>2 DEF SessionInv, LedgerTypeOK
<1>4. e.balance_after = after
  OBVIOUS
<1>5. CASE t = "credit" /\ after = current[s] + a
  <2>1. Books!CreditBook(m, a, r)
    BY <1>1, <1>2, <1>3, <1>5 DEF Books!CreditBook, Books!Record, Books!Entry
  <2> QED BY <1>1, <2>1 DEF BooksStep, Books!BooksNext
<1>6. CASE t = "debit" /\ after = current[s] - a /\ current[s] >= a
  <2>1. Books!DebitBook(m, a, r)
    BY <1>1, <1>2, <1>3, <1>6 DEF Books!DebitBook, Books!Record, Books!Entry
  <2> QED BY <1>1, <2>1 DEF BooksStep, Books!BooksNext
<1> QED BY <1>1, <1>5, <1>6

LEMMA StepMaps == SessionInv /\ [LedgerNext]_vars => BooksStep
<1> SUFFICES ASSUME SessionInv, [LedgerNext]_vars PROVE BooksStep
  OBVIOUS
<1>1. ASSUME NEW s \in Sessions, CommitCredit(s) PROVE BooksStep
  BY <1>1, WriteMaps DEF CommitCredit
<1>2. ASSUME NEW s \in Sessions, CommitDebit(s) PROVE BooksStep
  BY <1>2, WriteMaps DEF CommitDebit
<1>3. ASSUME NEW s \in Sessions, SessionStep(s), ~CommitCredit(s), ~CommitDebit(s)
      PROVE  UNCHANGED <<entries, balances>>
  BY <1>3 DEF SessionStep, CreditKnown, CreditUnknown, SelectForUpdate, SelectNoRow, InsertRow,
              InsertRowDuplicate, DebitInsufficient, Abort, Rollback
<1>4. ASSUME NEW s \in Sessions, NEW o \in Op, Begin(s, o) PROVE UNCHANGED <<entries, balances>>
  BY <1>4 DEF Begin
<1>5. UNCHANGED vars => UNCHANGED <<entries, balances>>
  BY DEF vars
<1> QED BY <1>1, <1>2, <1>3, <1>4, <1>5, BooksFrame DEF LedgerNext

(* Database transactions under READ COMMITTED, with FOR UPDATE on the      *)
(* merchant's row, keep the promise of AtomicLedger.                       *)
THEOREM SessionsImplementBooks == LedgerSpec => ImplementsAtomicLedger
<1>1. LedgerInit => Books!BooksOpen
  BY DEF LedgerInit, Books!BooksOpen, NoRow
<1> QED BY <1>1, StepMaps, SessionInvariance, PTL
        DEF LedgerSpec, ImplementsAtomicLedger, Books!BooksSpec, BooksStep

------------------------------------------------------------------------------
(* A payment order is credited as often as calls for it overlap.  A credit *)
(* goes past the idempotency SELECT only while no entry of its reference   *)
(* is committed, so the entries and the sessions past the SELECT are       *)
(* together no more than the sessions that ever were under way at once.    *)

PastCheck(r) == {s \in InFlight(r) : sess[s] \in {"select", "insert_row", "locked"}}

CreditsOnly ==
    /\ \A m \in Merchants : \A i \in 1..Len(entries[m]) :
         entries[m][i].ref # NoRef => entries[m][i].type = "credit"
    /\ \A s \in Sessions : op[s].ref # NoRef => op[s].type = "credit"

Within(r) ==
    /\ IsFiniteSet(CreditsOf(r))
    /\ Cardinality(InFlight(r)) <= MaxOverlap
    /\ Cardinality(CreditsOf(r)) + Cardinality(PastCheck(r)) <= MaxOverlap

RefInv == CreditsOnly /\ \A r \in Refs : Within(r)

LEMMA Fewer ==
    ASSUME NEW A, IsFiniteSet(A), NEW B, B \subseteq A
    PROVE  /\ IsFiniteSet(B) /\ Cardinality(B) \in Nat /\ Cardinality(A) \in Nat
           /\ Cardinality(B) <= Cardinality(A)
BY FS_Subset, FS_CardinalityType

LEMMA OneMore ==
    ASSUME NEW A, IsFiniteSet(A), NEW x
    PROVE  /\ IsFiniteSet(A \cup {x}) /\ Cardinality(A) \in Nat
           /\ Cardinality(A \cup {x}) <= Cardinality(A) + 1
           /\ x \notin A => Cardinality(A \cup {x}) = Cardinality(A) + 1
<1>1. Cardinality(A) \in Nat
  BY FS_CardinalityType
<1>2. CASE x \in A
  <2>1. A \cup {x} = A
    BY <1>2
  <2>2. Cardinality(A \cup {x}) = Cardinality(A) /\ IsFiniteSet(A \cup {x})
    BY <2>1
  <2>3. QED
    BY <1>1, <1>2, <2>2
<1>3. CASE x \notin A
  <2>1. IsFiniteSet(A \cup {x}) /\ Cardinality(A \cup {x}) = Cardinality(A) + 1
    BY <1>3, FS_AddElement
  <2>2. QED
    BY <1>1, <1>3, <2>1
<1>4. QED
  BY <1>2, <1>3

LEMMA CreditsMember ==
    ASSUME NEW r, NEW x
    PROVE  x \in CreditsOf(r) <=>
               \E m \in Merchants : \E i \in 1..Len(entries[m]) :
                   x = <<m, i>> /\ entries[m][i].ref = r
BY DEF CreditsOf

LEMMA RefInit == LedgerInit => RefInv
<1> SUFFICES ASSUME LedgerInit
             PROVE  RefInv
  OBVIOUS
<1>1. CreditsOnly
  BY DEF LedgerInit, CreditsOnly, NoOp
<1>2. ASSUME NEW r \in Refs
      PROVE  Within(r)
  <2>1. CreditsOf(r) = {}
    BY CreditsMember DEF LedgerInit
  <2>2. InFlight(r) = {} /\ PastCheck(r) = {}
    BY LedgerAssumption DEF LedgerInit, InFlight, PastCheck, NoOp
  <2>3. IsFiniteSet({}) /\ Cardinality({}) = 0
    BY FS_EmptySet
  <2>4. QED
    BY <2>1, <2>2, <2>3, LedgerAssumption DEF Within
<1>3. QED
  BY <1>1, <1>2 DEF RefInv

(* No entry is written, and no session is let past the check. *)
LEMMA WithinKept ==
    ASSUME NEW r \in Refs, Within(r), CreditsOf(r)' = CreditsOf(r),
           InFlight(r)' \subseteq InFlight(r), PastCheck(r)' \subseteq PastCheck(r)
    PROVE  Within(r)'
<1>1. InFlight(r) \subseteq Sessions /\ PastCheck(r) \subseteq Sessions
  BY DEF InFlight, PastCheck
<1>2. IsFiniteSet(InFlight(r)) /\ IsFiniteSet(PastCheck(r))
  BY <1>1, Fewer, LedgerAssumption
<1>3. /\ Cardinality(InFlight(r)') <= Cardinality(InFlight(r))
      /\ Cardinality(InFlight(r)') \in Nat /\ Cardinality(InFlight(r)) \in Nat
  BY <1>2, Fewer
<1>4. /\ Cardinality(PastCheck(r)') <= Cardinality(PastCheck(r))
      /\ Cardinality(PastCheck(r)') \in Nat /\ Cardinality(PastCheck(r)) \in Nat
  BY <1>2, Fewer
<1>5. Cardinality(CreditsOf(r)) \in Nat
  BY FS_CardinalityType DEF Within
<1>6. QED
  BY <1>3, <1>4, <1>5, LedgerAssumption DEF Within

LEMMA CreditsSame ==
    ASSUME entries' = entries, NEW r
    PROVE  CreditsOf(r)' = CreditsOf(r)
BY DEF CreditsOf

(* A session stays where it is, or goes on behind the check. *)
LEMMA RefFrame ==
    ASSUME RefInv, entries' = entries, op' = op,
           \A s \in Sessions : sess'[s] \in {"select", "insert_row", "locked"} =>
               sess[s] \in {"select", "insert_row", "locked"} \/ op[s].ref = NoRef
    PROVE  RefInv'
<1>1. CreditsOnly'
  BY DEF RefInv, CreditsOnly
<1>2. ASSUME NEW r \in Refs
      PROVE  Within(r)'
  <2>1. Within(r) /\ CreditsOf(r)' = CreditsOf(r)
    BY CreditsSame DEF RefInv
  <2>2. InFlight(r)' = InFlight(r) /\ PastCheck(r)' \subseteq PastCheck(r)
    BY LedgerAssumption DEF InFlight, PastCheck
  <2>3. QED
    BY <2>1, <2>2, WithinKept
<1>3. QED
  BY <1>1, <1>2 DEF RefInv

LEMMA RefRollback ==
    ASSUME SessionInv, RefInv, NEW s \in Sessions, Rollback(s)
    PROVE  RefInv'
<1>1. op' = [op EXCEPT ![s] = NoOp] /\ sess' = [sess EXCEPT ![s] = "idle"] /\ entries' = entries
  BY DEF Rollback, End, SGoto
<1>2. CreditsOnly'
  BY <1>1 DEF RefInv, CreditsOnly, NoOp, SessionInv, LedgerTypeOK
<1>3. ASSUME NEW r \in Refs
      PROVE  Within(r)'
  <2>1. Within(r) /\ CreditsOf(r)' = CreditsOf(r)
    BY <1>1, CreditsSame DEF RefInv
  <2>2. InFlight(r)' \subseteq InFlight(r) /\ PastCheck(r)' \subseteq PastCheck(r)
    BY <1>1, LedgerAssumption DEF InFlight, PastCheck, NoOp, SessionInv, LedgerTypeOK
  <2>3. QED
    BY <2>1, <2>2, WithinKept
<1>4. QED
  BY <1>2, <1>3 DEF RefInv

LEMMA RefBegin ==
    ASSUME SessionInv, RefInv, NEW s \in Sessions, NEW o \in Op, Begin(s, o)
    PROVE  RefInv'
<1>1. /\ entries' = entries /\ op' = [op EXCEPT ![s] = o] /\ sess[s] = "idle"
      /\ sess' = [sess EXCEPT ![s] = IF o.ref # NoRef THEN "check" ELSE "select"]
      /\ o.ref # NoRef => o.type = "credit" /\ Cardinality(InFlight(o.ref)) < MaxOverlap
  BY DEF Begin, SGoto
<1>2. CreditsOnly'
  BY <1>1 DEF RefInv, CreditsOnly, SessionInv, LedgerTypeOK
<1>3. ASSUME NEW r \in Refs
      PROVE  Within(r)'
  <2>0. Within(r) /\ CreditsOf(r)' = CreditsOf(r) /\ r # NoRef
    BY <1>1, CreditsSame, LedgerAssumption DEF RefInv
  <2>1. PastCheck(r)' \subseteq PastCheck(r)
    BY <1>1, <2>0 DEF InFlight, PastCheck, SessionInv, LedgerTypeOK
  <2>2. CASE o.ref # r
    <3>1. InFlight(r)' \subseteq InFlight(r)
      BY <1>1, <2>2 DEF InFlight, SessionInv, LedgerTypeOK
    <3>2. QED
      BY <2>0, <2>1, <3>1, WithinKept
  <2>3. CASE o.ref = r
    <3>1. InFlight(r)' \subseteq InFlight(r) \cup {s}
      BY <1>1 DEF InFlight, SessionInv, LedgerTypeOK
    <3>2. InFlight(r) \subseteq Sessions /\ PastCheck(r) \subseteq Sessions
      BY DEF InFlight, PastCheck
    <3>3. IsFiniteSet(InFlight(r)) /\ IsFiniteSet(PastCheck(r))
      BY <3>2, Fewer, LedgerAssumption
    <3>4. /\ IsFiniteSet(InFlight(r) \cup {s})
          /\ Cardinality(InFlight(r) \cup {s}) <= Cardinality(InFlight(r)) + 1
          /\ Cardinality(InFlight(r)) \in Nat
      BY <3>3, OneMore
    <3>5. /\ Cardinality(InFlight(r)') <= Cardinality(InFlight(r) \cup {s})
          /\ Cardinality(InFlight(r)') \in Nat /\ Cardinality(InFlight(r) \cup {s}) \in Nat
      BY <3>1, <3>4, Fewer
    <3>6. Cardinality(InFlight(r)') <= MaxOverlap
      BY <1>1, <2>0, <2>3, <3>4, <3>5, LedgerAssumption
    <3>7. /\ Cardinality(PastCheck(r)') <= Cardinality(PastCheck(r))
          /\ Cardinality(PastCheck(r)') \in Nat /\ Cardinality(PastCheck(r)) \in Nat
      BY <2>1, <3>3, Fewer
    <3>8. Cardinality(CreditsOf(r)) \in Nat
      BY <2>0, FS_CardinalityType DEF Within
    <3>9. QED
      BY <2>0, <3>6, <3>7, <3>8, LedgerAssumption DEF Within
  <2>4. QED
    BY <2>2, <2>3
<1>4. QED
  BY <1>2, <1>3 DEF RefInv

(* Past the check: nothing of the reference had been committed, and those  *)
(* past it are some of those under way.                                    *)
LEMMA RefUnknown ==
    ASSUME SessionInv, RefInv, NEW s \in Sessions, CreditUnknown(s)
    PROVE  RefInv'
<1>1. /\ entries' = entries /\ op' = op /\ ~HasEntry(op[s].ref)
      /\ sess' = [sess EXCEPT ![s] = "select"]
  BY DEF CreditUnknown, SGoto
<1>2. CreditsOnly'
  BY <1>1 DEF RefInv, CreditsOnly
<1>3. ASSUME NEW r \in Refs
      PROVE  Within(r)'
  <2>0. Within(r) /\ CreditsOf(r)' = CreditsOf(r) /\ InFlight(r)' = InFlight(r) /\ r # NoRef
    BY <1>1, CreditsSame, LedgerAssumption DEF RefInv, InFlight
  <2>1. CASE op[s].ref # r
    <3>1. PastCheck(r)' \subseteq PastCheck(r)
      BY <1>1, <2>1 DEF InFlight, PastCheck, SessionInv, LedgerTypeOK
    <3>2. QED
      BY <2>0, <3>1, WithinKept
  <2>2. CASE op[s].ref = r
    <3>1. CreditsOf(r) = {}
      BY <1>1, <2>0, <2>2, CreditsMember DEF HasEntry, RefInv, CreditsOnly
    <3>2. Cardinality(CreditsOf(r)) = 0
      BY <3>1, FS_EmptySet
    <3>3. PastCheck(r)' \subseteq InFlight(r) /\ InFlight(r) \subseteq Sessions
      BY <1>1 DEF InFlight, PastCheck
    <3>4. IsFiniteSet(InFlight(r))
      BY <3>3, Fewer, LedgerAssumption
    <3>5. /\ Cardinality(PastCheck(r)') <= Cardinality(InFlight(r))
          /\ Cardinality(PastCheck(r)') \in Nat /\ Cardinality(InFlight(r)) \in Nat
      BY <3>3, <3>4, Fewer
    <3>6. QED
      BY <2>0, <3>2, <3>5, LedgerAssumption DEF Within
  <2>3. QED
    BY <2>1, <2>2
<1>4. QED
  BY <1>2, <1>3 DEF RefInv

(* A committed credit takes the place of its session. *)
LEMMA RefWrite ==
    ASSUME SessionInv, RefInv, NEW s \in Sessions, sess[s] = "locked",
           NEW t, t = op[s].type, NEW after \in Nat, Write(s, t, after)
    PROVE  RefInv'
<1> DEFINE m == op[s].merchant
           e == [type |-> t, amount |-> op[s].amount, balance_after |-> after, ref |-> op[s].ref]
           k == Len(entries[m])
<1>0. op[s] \in Op
  BY DEF SessionInv, BusySessions
<1>1. m \in Merchants /\ e \in LedgerRow /\ entries[m] \in Seq(LedgerRow) /\ k \in Nat
  <2>1. m \in Merchants /\ e \in LedgerRow
    BY <1>0 DEF Op, LedgerRow
  <2> HIDE DEF m
  <2>2. QED
    BY <2>1 DEF SessionInv, LedgerTypeOK
<1>2. /\ entries' = [entries EXCEPT ![m] = Append(@, e)]
      /\ op' = [op EXCEPT ![s] = NoOp] /\ sess' = [sess EXCEPT ![s] = "idle"]
  BY DEF Write, End, SGoto
<1>3. e.ref = op[s].ref /\ e.type = op[s].type
  OBVIOUS
<1> HIDE DEF e
<1>4. /\ Len(entries'[m]) = k + 1 /\ entries'[m][k + 1] = e
      /\ \A i \in 1..k : entries'[m][i] = entries[m][i]
      /\ \A n \in Merchants \ {m} : entries'[n] = entries[n]
  BY <1>1, <1>2, AppendProperties DEF SessionInv, LedgerTypeOK
<1>5. k = Len(entries[m])
  OBVIOUS
<1> HIDE DEF m, k
<1>6. ASSUME NEW n \in Merchants, NEW i
      PROVE  i \in 1..Len(entries'[n]) <=> i \in 1..Len(entries[n]) \/ (n = m /\ i = k + 1)
  BY <1>1, <1>4, <1>5
<1>7. ASSUME NEW n \in Merchants, NEW i \in 1..Len(entries'[n])
      PROVE  \/ n = m /\ i = k + 1 /\ entries'[n][i] = e
             \/ i \in 1..Len(entries[n]) /\ entries'[n][i] = entries[n][i]
  BY <1>1, <1>4, <1>5, <1>6
<1>8. /\ op'[s].ref = NoRef /\ sess'[s] = "idle"
      /\ \A u \in Sessions \ {s} : op'[u] = op[u] /\ sess'[u] = sess[u]
  BY <1>2 DEF SessionInv, LedgerTypeOK, NoOp
<1>9. CreditsOnly'
  <2>1. \A n \in Merchants : \A i \in 1..Len(entries'[n]) :
          entries'[n][i].ref # NoRef => entries'[n][i].type = "credit"
    BY <1>3, <1>7 DEF RefInv, CreditsOnly
  <2>2. \A u \in Sessions : op'[u].ref # NoRef => op'[u].type = "credit"
    BY <1>8 DEF RefInv, CreditsOnly
  <2>3. QED
    BY <2>1, <2>2 DEF CreditsOnly
<1>10. ASSUME NEW r \in Refs
       PROVE  Within(r)'
  <2>0. Within(r) /\ r # NoRef
    BY LedgerAssumption DEF RefInv
  <2>1. ASSUME NEW x
        PROVE  x \in CreditsOf(r)' <=>
                   x \in CreditsOf(r) \/ (x = <<m, k + 1>> /\ op[s].ref = r)
    <3>1. x \in CreditsOf(r)' <=>
              \E n \in Merchants : \E i \in 1..Len(entries'[n]) :
                  x = <<n, i>> /\ entries'[n][i].ref = r
      BY DEF CreditsOf
    <3>2. ASSUME NEW n \in Merchants, NEW i \in 1..Len(entries[n])
          PROVE  i \in 1..Len(entries'[n]) /\ entries'[n][i] = entries[n][i]
      BY <1>1, <1>4, <1>5, <1>6
    <3>3. k + 1 \in 1..Len(entries'[m])
      BY <1>1, <1>4
    <3>4. ASSUME x \in CreditsOf(r)'
          PROVE  x \in CreditsOf(r) \/ (x = <<m, k + 1>> /\ op[s].ref = r)
      <4>0. PICK n \in Merchants : \E i \in 1..Len(entries'[n]) :
                x = <<n, i>> /\ entries'[n][i].ref = r
        BY <3>1, <3>4
      <4>1. PICK i \in 1..Len(entries'[n]) : x = <<n, i>> /\ entries'[n][i].ref = r
        BY <4>0
      <4>2. \/ n = m /\ i = k + 1 /\ entries'[n][i] = e
            \/ i \in 1..Len(entries[n]) /\ entries'[n][i] = entries[n][i]
        BY <1>7
      <4>3. QED
        BY <1>3, <4>1, <4>2, CreditsMember
    <3>5. ASSUME x \in CreditsOf(r)
          PROVE  x \in CreditsOf(r)'
      BY <3>1, <3>2, <3>5, CreditsMember
    <3>6. ASSUME x = <<m, k + 1>>, op[s].ref = r
          PROVE  x \in CreditsOf(r)'
      BY <1>1, <1>3, <1>4, <3>1, <3>3, <3>6
    <3>7. QED
      BY <3>4, <3>5, <3>6
  <2>2. CASE op[s].ref # r
    <3>1. CreditsOf(r)' = CreditsOf(r)
      BY <2>1, <2>2
    <3>2. InFlight(r)' \subseteq InFlight(r) /\ PastCheck(r)' \subseteq PastCheck(r)
      BY <1>8, <2>0 DEF InFlight, PastCheck
    <3>3. QED
      BY <2>0, <3>1, <3>2, WithinKept
  <2>3. CASE op[s].ref = r
    <3>1. CreditsOf(r)' = CreditsOf(r) \cup {<<m, k + 1>>}
      BY <2>1, <2>3
    <3>2. <<m, k + 1>> \notin CreditsOf(r)
      BY <1>1, <1>5, CreditsMember
    <3>3. /\ IsFiniteSet(CreditsOf(r)')
          /\ Cardinality(CreditsOf(r)') = Cardinality(CreditsOf(r)) + 1
          /\ Cardinality(CreditsOf(r)) \in Nat
      BY <2>0, <3>1, <3>2, OneMore DEF Within
    <3>4. s \in PastCheck(r) /\ PastCheck(r) \subseteq Sessions /\ InFlight(r) \subseteq Sessions
      BY <2>3 DEF PastCheck, InFlight
    <3>5. IsFiniteSet(PastCheck(r)) /\ IsFiniteSet(InFlight(r))
      BY <3>4, Fewer, LedgerAssumption
    <3>6. PastCheck(r)' \subseteq PastCheck(r) \ {s} /\ InFlight(r)' \subseteq InFlight(r)
      BY <1>8, <2>0 DEF PastCheck, InFlight
    <3>7. /\ IsFiniteSet(PastCheck(r) \ {s})
          /\ Cardinality(PastCheck(r) \ {s}) = Cardinality(PastCheck(r)) - 1
          /\ Cardinality(PastCheck(r)) \in Nat
      BY <3>4, <3>5, FS_RemoveElement, FS_CardinalityType
    <3>8. /\ Cardinality(PastCheck(r)') <= Cardinality(PastCheck(r) \ {s})
          /\ Cardinality(PastCheck(r)') \in Nat
      BY <3>6, <3>7, Fewer
    <3>9. /\ Cardinality(InFlight(r)') <= Cardinality(InFlight(r))
          /\ Cardinality(InFlight(r)') \in Nat /\ Cardinality(InFlight(r)) \in Nat
      BY <3>5, <3>6, Fewer
    <3>10. QED
      BY <2>0, <3>3, <3>7, <3>8, <3>9, LedgerAssumption DEF Within
  <2>4. QED
    BY <2>2, <2>3
<1>11. QED
  BY <1>9, <1>10 DEF RefInv

LEMMA RefStep == SessionInv /\ RefInv /\ [LedgerNext]_vars => RefInv'
<1> SUFFICES ASSUME SessionInv, RefInv, [LedgerNext]_vars
             PROVE  RefInv'
  OBVIOUS
<1>1. ASSUME NEW s \in Sessions, SessionStep(s)
      PROVE  RefInv'
  <2>0. sess \in [Sessions -> {"idle", "check", "select", "insert_row", "locked"}]
    BY DEF SessionInv, LedgerTypeOK
  <2>1. CASE CreditKnown(s) \/ InsertRowDuplicate(s) \/ DebitInsufficient(s) \/ Abort(s)
    BY <2>1, RefRollback DEF CreditKnown, InsertRowDuplicate, DebitInsufficient, Abort
  <2>2. CASE CreditUnknown(s)
    BY <2>2, RefUnknown
  <2>3. CASE SelectForUpdate(s) \/ InsertRow(s)
    BY <2>0, <2>3, RefFrame DEF SelectForUpdate, InsertRow, SGoto
  <2>4. CASE SelectNoRow(s)
    <3>1. CASE op[s].type = "credit"
      BY <2>0, <2>4, <3>1, RefFrame DEF SelectNoRow, SGoto
    <3>2. CASE op[s].type # "credit"
      BY <2>4, <3>2, RefRollback DEF SelectNoRow, Rollback
    <3>3. QED
      BY <3>1, <3>2
  <2>5. /\ sess[s] # "idle" => op[s].amount \in Nat
        /\ current[s] \in Nat
    BY LedgerAssumption DEF SessionInv, LedgerTypeOK, BusySessions, Op
  <2>6. CASE CommitCredit(s)
    <3>1. current[s] + op[s].amount \in Nat
      BY <2>5, <2>6 DEF CommitCredit
    <3>2. QED
      BY <2>6, <3>1, RefWrite DEF CommitCredit
  <2>7. CASE CommitDebit(s)
    <3>1. current[s] - op[s].amount \in Nat
      BY <2>5, <2>7 DEF CommitDebit
    <3>2. QED
      BY <2>7, <3>1, RefWrite DEF CommitDebit
  <2>8. QED
    BY <1>1, <2>1, <2>2, <2>3, <2>4, <2>6, <2>7 DEF SessionStep
<1>2. CASE UNCHANGED vars
  BY <1>2, RefFrame DEF vars
<1>3. QED
  BY <1>1, <1>2, RefBegin DEF LedgerNext

(* A payment order is credited no more often than calls of POST            *)
(* /internal/credit for it overlap, for every number of them: once if they *)
(* never do, and never again by a retry that begins after a COMMIT.        *)
THEOREM CreditsBoundedByOverlap == LedgerSpec => []CreditedByOverlapOnly
<1>1. SessionInv /\ RefInv /\ [LedgerNext]_vars => RefInv'
  BY RefStep
<1>2. RefInv => CreditedByOverlapOnly
  <2> SUFFICES ASSUME RefInv, NEW r \in Refs
               PROVE  Cardinality(CreditsOf(r)) <= MaxOverlap
    BY DEF CreditedByOverlapOnly
  <2>1. Within(r) /\ PastCheck(r) \subseteq Sessions
    BY DEF RefInv, PastCheck, InFlight
  <2>2. Cardinality(PastCheck(r)) \in Nat /\ Cardinality(CreditsOf(r)) \in Nat
    BY <2>1, Fewer, FS_CardinalityType, LedgerAssumption DEF Within
  <2>3. QED
    BY <2>1, <2>2, LedgerAssumption DEF Within
<1>3. QED
  BY <1>1, <1>2, RefInit, SessionInvariance, PTL DEF LedgerSpec
==============================================================================
