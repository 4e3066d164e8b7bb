---------------------------- MODULE AtomicLedger ----------------------------
(***************************************************************************)
(* What the ledger of the token API promises: every merchant has a balance *)
(* and an account book, a credit or a debit is one indivisible step, a     *)
(* debit never takes more than there is, and the book records every step   *)
(* with the balance it left.  TokenLedger implements it with database      *)
(* transactions; Metering builds on it.                                    *)
(***************************************************************************)
EXTENDS Naturals, Sequences

CONSTANTS Merchants, Amounts, Refs

VARIABLES balance, book

ledgerVars == <<balance, book>>

Entry(t, a, b, r) == [type |-> t, amount |-> a, balance_after |-> b, ref |-> r]

BooksOpen ==
    /\ balance = [m \in Merchants |-> 0]
    /\ book = [m \in Merchants |-> <<>>]

Record(m, e) ==
    /\ balance' = [balance EXCEPT ![m] = e.balance_after]
    /\ book' = [book EXCEPT ![m] = Append(@, e)]

CreditBook(m, a, r) == Record(m, Entry("credit", a, balance[m] + a, r))

DebitBook(m, a, r) ==
    /\ balance[m] >= a
    /\ Record(m, Entry("debit", a, balance[m] - a, r))

BooksNext ==
    \E m \in Merchants, a \in Amounts, r \in Refs : CreditBook(m, a, r) \/ DebitBook(m, a, r)

BooksSpec == BooksOpen /\ [][BooksNext]_ledgerVars
==============================================================================
