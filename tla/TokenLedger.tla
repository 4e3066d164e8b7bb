----------------------------- MODULE TokenLedger -----------------------------
(***************************************************************************)
(* LedgerService of the token API over MySQL (READ COMMITTED): the         *)
(* append-only table token_ledger_entries and the cache row per merchant   *)
(* in balances.  A session is one open database transaction; a statement   *)
(* that reads or locks is a step, the writes of a session that holds the   *)
(* merchant's row appear with its COMMIT.                                  *)
(***************************************************************************)
EXTENDS Integers, Sequences, FiniteSets

CONSTANTS
    Merchants,
    Amounts,           \* amounts of one credit or debit, in token
    Refs,              \* source_ref values, payment order ids
    Sessions,          \* concurrent database transactions
    MaxEntries,        \* bound: no operation starts on a longer ledger
    MaxOverlap,        \* bound: credits of one reference under way at a time
    NoRef, NoMerchant, NoSession

ASSUME LedgerAssumption ==
    /\ Amounts \subseteq Nat \ {0}
    /\ NoRef \notin Refs /\ NoMerchant \notin Merchants /\ NoSession \notin Sessions
    /\ MaxEntries \in Nat /\ MaxOverlap \in Nat
    /\ IsFiniteSet(Sessions)

VARIABLES
    entries,     \* token_ledger_entries of each merchant, in id order
    balances,    \* balances row of each merchant: balance_token and last_ledger_entry_id
    lock,        \* the session holding the (possibly uncommitted) balances row
    sess,        \* where each session is
    op,          \* the call it serves
    current      \* the balance it read under the lock

vars == <<entries, balances, lock, sess, op, current>>

NoRow == [exists |-> FALSE, token |-> 0, last |-> 0]
Row(t, l) == [exists |-> TRUE, token |-> t, last |-> l]

Op == [type : {"credit", "debit"}, merchant : Merchants, amount : Amounts, ref : Refs \cup {NoRef}]
NoOp == [type |-> "none", merchant |-> NoMerchant, amount |-> 0, ref |-> NoRef]

LedgerRow == [type : {"credit", "debit"}, amount : Amounts, balance_after : Nat, ref : Refs \cup {NoRef}]

LedgerTypeOK ==
    /\ entries \in [Merchants -> Seq(LedgerRow)]
    /\ balances \in [Merchants -> [exists : BOOLEAN, token : Nat, last : Nat]]
    /\ lock \in [Merchants -> Sessions \cup {NoSession}]
    /\ sess \in [Sessions -> {"idle", "check", "select", "insert_row", "locked"}]
    /\ op \in [Sessions -> Op \cup {NoOp}]
    /\ current \in [Sessions -> Nat]

LedgerInit ==
    /\ entries = [m \in Merchants |-> <<>>]
    /\ balances = [m \in Merchants |-> NoRow]
    /\ lock = [m \in Merchants |-> NoSession]
    /\ sess = [s \in Sessions |-> "idle"]
    /\ op = [s \in Sessions |-> NoOp]
    /\ current = [s \in Sessions |-> 0]

------------------------------------------------------------------------------
SGoto(s, l) == sess' = [sess EXCEPT ![s] = l]

(* The transaction is over, by COMMIT or ROLLBACK: its locks are released. *)
End(s) ==
    /\ SGoto(s, "idle")
    /\ op' = [op EXCEPT ![s] = NoOp]
    /\ current' = [current EXCEPT ![s] = 0]
    /\ lock' = [m \in Merchants |-> IF lock[m] = s THEN NoSession ELSE lock[m]]

Rollback(s) == End(s) /\ UNCHANGED <<entries, balances>>

HasEntry(r) == \E m \in Merchants : \E i \in 1..Len(entries[m]) :
    entries[m][i].type = "credit" /\ entries[m][i].ref = r

InFlight(r) == {t \in Sessions : op[t].ref = r}

(* A caller of LedgerService.credit or debit opens a transaction.  Only a  *)
(* credit with a source_ref is checked for having been made before.        *)
Begin(s, o) ==
    /\ sess[s] = "idle"
    /\ Len(entries[o.merchant]) < MaxEntries
    /\ o.ref # NoRef => o.type = "credit" /\ Cardinality(InFlight(o.ref)) < MaxOverlap
    /\ SGoto(s, IF o.ref # NoRef THEN "check" ELSE "select")
    /\ op' = [op EXCEPT ![s] = o]
    /\ UNCHANGED <<entries, balances, lock, current>>

(* The idempotency SELECT takes no lock and sees what is committed; the    *)
(* entry it finds is returned and nothing is written.                      *)
CreditKnown(s) ==
    /\ sess[s] = "check"
    /\ HasEntry(op[s].ref)
    /\ Rollback(s)

(* Fault: the idempotency check looks at nothing. *)
CreditUnknownBlind(s) ==
    /\ sess[s] = "check"
    /\ SGoto(s, "select")
    /\ UNCHANGED <<entries, balances, lock, op, current>>

CreditUnknown(s) ==
    /\ sess[s] = "check"
    /\ ~HasEntry(op[s].ref)
    /\ SGoto(s, "select")
    /\ UNCHANGED <<entries, balances, lock, op, current>>

(* Fault: SELECT without FOR UPDATE. *)
SelectUnlocked(s) ==
    LET m == op[s].merchant IN
    /\ sess[s] = "select"
    /\ balances[m].exists
    /\ current' = [current EXCEPT ![s] = balances[m].token]
    /\ SGoto(s, "locked")
    /\ UNCHANGED <<entries, balances, lock, op>>

(* SELECT ... FOR UPDATE waits for the row and locks it. *)
SelectForUpdate(s) ==
    LET m == op[s].merchant IN
    /\ sess[s] = "select"
    /\ lock[m] = NoSession
    /\ balances[m].exists
    /\ lock' = [lock EXCEPT ![m] = s]
    /\ current' = [current EXCEPT ![s] = balances[m].token]
    /\ SGoto(s, "locked")
    /\ UNCHANGED <<entries, balances, op>>

(* ... and locks nothing where there is no row: a credit goes on to INSERT *)
(* the row, a debit finds a balance of 0 and is refused.                   *)
SelectNoRow(s) ==
    LET m == op[s].merchant IN
    /\ sess[s] = "select"
    /\ lock[m] = NoSession
    /\ ~balances[m].exists
    /\ IF op[s].type = "credit"
       THEN SGoto(s, "insert_row") /\ UNCHANGED <<lock, op, current>>
       ELSE End(s)
    /\ UNCHANGED <<entries, balances>>

(* INSERT of the row: it is invisible to others, who wait for it. *)
InsertRow(s) ==
    LET m == op[s].merchant IN
    /\ sess[s] = "insert_row"
    /\ lock[m] = NoSession
    /\ ~balances[m].exists
    /\ lock' = [lock EXCEPT ![m] = s]
    /\ SGoto(s, "locked")
    /\ UNCHANGED <<entries, balances, op, current>>

(* Another transaction has inserted it meanwhile: the primary key refuses. *)
InsertRowDuplicate(s) ==
    LET m == op[s].merchant IN
    /\ sess[s] = "insert_row"
    /\ lock[m] = NoSession
    /\ balances[m].exists
    /\ Rollback(s)

Write(s, t, after) ==
    LET m == op[s].merchant IN
    /\ entries' = [entries EXCEPT ![m] = Append(@,
           [type |-> t, amount |-> op[s].amount, balance_after |-> after, ref |-> op[s].ref])]
    /\ balances' = [balances EXCEPT ![m] = Row(after, Len(entries[m]) + 1)]
    /\ End(s)

CommitCredit(s) ==
    /\ sess[s] = "locked"
    /\ op[s].type = "credit"
    /\ Write(s, "credit", current[s] + op[s].amount)

(* Fault: the balance is not compared with the amount. *)
CommitDebitUnchecked(s) ==
    /\ sess[s] = "locked"
    /\ op[s].type = "debit"
    /\ Write(s, "debit", current[s] - op[s].amount)

CommitDebit(s) ==
    /\ sess[s] = "locked"
    /\ op[s].type = "debit"
    /\ current[s] >= op[s].amount
    /\ Write(s, "debit", current[s] - op[s].amount)

DebitInsufficient(s) ==
    /\ sess[s] = "locked"
    /\ op[s].type = "debit"
    /\ current[s] < op[s].amount
    /\ Rollback(s)

(* The API process or its connection dies, or a lock wait times out. *)
Abort(s) ==
    /\ sess[s] # "idle"
    /\ Rollback(s)

SessionStep(s) ==
    \/ CreditKnown(s) \/ CreditUnknown(s)
    \/ SelectForUpdate(s) \/ SelectNoRow(s) \/ InsertRow(s) \/ InsertRowDuplicate(s)
    \/ CommitCredit(s) \/ CommitDebit(s) \/ DebitInsufficient(s) \/ Abort(s)

LedgerNext ==
    \E s \in Sessions : SessionStep(s) \/ \E o \in Op : Begin(s, o)

LedgerSpec == LedgerInit /\ [][LedgerNext]_vars

------------------------------------------------------------------------------
(* Properties                                                              *)

(* The book reads as one history: each entry's balance_after follows from  *)
(* the entry before it and is never negative, the cache row repeats the    *)
(* last one's, and no row means no entry: the balance is the sum of the    *)
(* credits minus the debits, whatever transactions ran at the same time.   *)
Before(m, i) == IF i = 1 THEN 0 ELSE entries[m][i - 1].balance_after

BookIsChained ==
    \A m \in Merchants :
        /\ \A i \in 1..Len(entries[m]) :
             LET e == entries[m][i] IN
             /\ e.balance_after >= 0
             /\ IF e.type = "credit" THEN e.balance_after = Before(m, i) + e.amount
                                     ELSE Before(m, i) = e.balance_after + e.amount
        /\ balances[m] = IF entries[m] = <<>> THEN NoRow
                         ELSE Row(entries[m][Len(entries[m])].balance_after, Len(entries[m]))

(* The credits of a payment order.  *)
CreditsOf(r) ==
    UNION {{<<m, i>> : i \in {j \in 1..Len(entries[m]) : entries[m][j].ref = r}} : m \in Merchants}

(* However often the credit of a payment order is repeated, with any crash *)
(* in between, it is made no more often than calls for it ever ran at the  *)
(* same time: once, as the docstring of POST /internal/credit has it, if   *)
(* they do not overlap, and twice at worst when HABA's route and the       *)
(* confirmer meet, because the idempotency SELECT takes no lock.           *)
CreditedByOverlapOnly ==
    \A r \in Refs : Cardinality(CreditsOf(r)) <= MaxOverlap

(* Sessions implement the indivisible ledger.                              *)
Books == INSTANCE AtomicLedger WITH
    Refs <- Refs \cup {NoRef},
    balance <- [m \in Merchants |-> balances[m].token],
    book <- entries

ImplementsAtomicLedger == Books!BooksSpec
==============================================================================
