---------------------------- MODULE TokenBackend ----------------------------
(***************************************************************************)
(* What the pages of the token console, of HABA's top-up and of the two    *)
(* other consoles share: a service with its log, and the browser tab that  *)
(* shows one page at a time.  For most pages that is the token API with    *)
(* its ledger; for "feed", the page of the x402 console or of the WEA      *)
(* console, the gateway with its orders or the WEA with its calls, of      *)
(* which only the number counts.  The log is append-only, so that what a   *)
(* page was told is the length of the log when it was told.                *)
(***************************************************************************)
EXTENDS Naturals, Sequences

CONSTANTS
    MaxEntries,   \* bound: entries of the ledger
    MaxFaults,    \* bound: outages of the service
    MaxClicks     \* bound: clicks of the person at the tab

ASSUME BackendAssumption == {MaxEntries, MaxFaults, MaxClicks} \subseteq Nat

VARIABLES
    ledger,   \* what was credited and debited, oldest first
    up,       \* the service can be reached
    faults,
    page,     \* what the tab shows
    clicks

backendVars == <<ledger, up, faults>>
tabVars == <<page, clicks>>

(* "team" is the settings page with another tab than that of the account. *)
ConsolePages == {"dashboard", "tokens", "protocol", "settings", "team", "invoices"}
Pages == ConsolePages \cup {"blank", "topup", "feed"}

BackendInit ==
    /\ ledger = <<>>
    /\ up = TRUE
    /\ faults = 0
    /\ page = "blank"
    /\ clicks = 0

Now == Len(ledger)

(* GET /v1/recent-activity?limit=n, told at version v: x402 payments are   *)
(* the credits, AI calls the debits.                                       *)
Recent(v, n) == SubSeq(ledger, IF v > n THEN v - n + 1 ELSE 1, v)

Credits(rows) == SelectSeq(rows, LAMBDA e : e = "credit")

Record(e) == Now < MaxEntries /\ ledger' = Append(ledger, e) /\ UNCHANGED <<up, faults>>

Purchase == Record("credit")
(* For a feed only the number of entries counts, not their kind. *)
AiCall == page # "feed" /\ Record("debit")

Outage == up /\ faults < MaxFaults /\ up' = FALSE /\ faults' = faults + 1 /\ UNCHANGED ledger
Recover == ~up /\ up' = TRUE /\ UNCHANGED <<ledger, faults>>

BackendNext == Purchase \/ AiCall \/ Outage \/ Recover

Click == clicks < MaxClicks /\ clicks' = clicks + 1 /\ UNCHANGED <<page, backendVars>>

(* A request of a page, and what it brings back. *)
NoRequest == [at |-> "none", seen |-> 0]
Requests == [at : {"none", "answered", "failed"}, seen : 0..MaxEntries]

Served == IF up THEN [at |-> "answered", seen |-> Now] ELSE [NoRequest EXCEPT !.at = "failed"]
==============================================================================
