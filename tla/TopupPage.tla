------------------------------- MODULE TopupPage -------------------------------
(***************************************************************************)
(* HABA's top-up page: the history of top-ups, and the dialog that asks    *)
(* for a fingerprint through WebAuthn.                                     *)
(***************************************************************************)
EXTENDS TokenBackend, FiniteSets

CONSTANTS
    Asks,      \* bound: authorisations under way at a time
    HistoryLimit

ASSUME TopupAssumption == HistoryLimit \in Nat

VARIABLES
    history,   \* the table, and whether it is being filled
    modal,     \* the dialog
    asks       \* the runs of handleAuthorize

topupVars == <<history, modal, asks>>

NoHistory == [loading |-> FALSE, rows |-> 0, mock |-> FALSE]

(* left: the dialog was closed during a run. *)
NoModal == [open |-> FALSE, phase |-> "idle", left |-> FALSE]

TopupPageInit ==
    /\ history = NoHistory
    /\ modal = NoModal
    /\ asks = [a \in Asks |-> "none"]

------------------------------------------------------------------------------
(* fetchHistory: on arrival, and by the Refresh button, which is disabled  *)
(* while it runs.                                                          *)

(* The page is entered, or left. *)
TopupArrives(p) ==
    /\ history' = IF p = "topup" THEN [NoHistory EXCEPT !.loading = TRUE] ELSE NoHistory
    /\ modal' = NoModal
    /\ asks' = [a \in Asks |-> "none"]

Refresh ==
    /\ page = "topup"
    /\ ~history.loading
    /\ UNCHANGED <<backendVars, tabVars>>
    /\ history' = [history EXCEPT !.loading = TRUE]
    /\ UNCHANGED <<modal, asks>>

(* GET /api/enterprise/topup-history: the credits among the entries it     *)
(* asks the token API for; rows it makes up if there are none, or no API.  *)
Found == Credits(Recent(Now, HistoryLimit))

History == IF up /\ Found # <<>> THEN [loading |-> FALSE, rows |-> Now, mock |-> FALSE]
           ELSE [loading |-> FALSE, rows |-> 0, mock |-> TRUE]

(* The route always answers with a 200; a request that does not reach it   *)
(* leaves the rows as they are.  The page cannot tell when the route read. *)
HistoryReceived ==
    /\ history.loading
    /\ history' \in {History, [history EXCEPT !.loading = FALSE]}
    /\ UNCHANGED <<backendVars, tabVars, modal, asks>>

------------------------------------------------------------------------------
(* The dialog.  Closing it resets the phase and stops nothing.             *)

OpenModal ==
    /\ page = "topup"
    /\ ~modal.open
    /\ UNCHANGED <<backendVars, tabVars>>
    /\ modal' = [modal EXCEPT !.open = TRUE]
    /\ UNCHANGED <<history, asks>>

(* Closed by X, Close or Cancel. *)
CloseModal ==
    /\ modal.open
    /\ UNCHANGED <<backendVars, tabVars>>
    /\ modal' = [modal EXCEPT !.open = FALSE, !.phase = "idle",
                              !.left = @ \/ \E a \in Asks : asks[a] # "none"]
    /\ UNCHANGED <<history, asks>>

Retry ==
    /\ modal.open
    /\ modal.phase \in {"error", "unsupported"}
    /\ UNCHANGED <<backendVars, tabVars>>
    /\ modal' = [modal EXCEPT !.phase = "idle"]
    /\ UNCHANGED <<history, asks>>

(* Fault: the button stays while the prompt is open. *)
AuthorizeTwice(a) ==
    /\ modal.open
    /\ modal.phase \in {"idle", "pending"}
    /\ asks[a] = "none"
    /\ UNCHANGED <<backendVars, tabVars>>
    /\ modal' = [modal EXCEPT !.phase = "pending"]
    /\ asks' = [asks EXCEPT ![a] = "preparing"]
    /\ UNCHANGED history

(* handleAuthorize up to its first await. *)
Authorize(a) ==
    /\ modal.open
    /\ modal.phase = "idle"
    /\ asks[a] = "none"
    /\ UNCHANGED <<backendVars, tabVars>>
    /\ modal' = [modal EXCEPT !.phase = "pending"]
    /\ asks' = [asks EXCEPT ![a] = "preparing"]
    /\ UNCHANGED history

(* What handleAuthorize makes of a result, whether or not the dialog is    *)
(* still open.                                                             *)
Phase(result) ==
    CASE result = "ok" -> "success"
      [] result = "cancelled" -> "idle"
      [] OTHER -> result

End(a, result) ==
    /\ asks' = [asks EXCEPT ![a] = "none"]
    /\ modal' = [modal EXCEPT !.phase = Phase(result)]

(* The digest of the challenge, outside every try: where there is no       *)
(* crypto.subtle it throws and the phase stays.  Then the authenticator is *)
(* looked for, and asked unless another prompt is open.                    *)
Prepare(a) ==
    /\ asks[a] = "preparing"
    /\ \/ asks' = [asks EXCEPT ![a] = "thrown"] /\ UNCHANGED modal
       \/ End(a, "unsupported")
       \/ /\ \A b \in Asks : asks[b] # "prompting"
          /\ asks' = [asks EXCEPT ![a] = "prompting"] /\ UNCHANGED modal
       \/ /\ \E b \in Asks : asks[b] = "prompting"
          /\ \E r \in {"cancelled", "error"} : End(a, r)
    /\ UNCHANGED <<backendVars, tabVars, history>>

(* Touched, turned down or timed out, or failed. *)
Prompt(a) ==
    /\ asks[a] = "prompting"
    /\ \E r \in {"ok", "cancelled", "error"} : End(a, r)
    /\ UNCHANGED <<backendVars, tabVars, history>>

------------------------------------------------------------------------------
TopupPageNext ==
    \/ Refresh \/ HistoryReceived
    \/ OpenModal \/ CloseModal \/ Retry
    \/ \E a \in Asks : Authorize(a) \/ Prepare(a) \/ Prompt(a)

TopupPageTypeOK ==
    /\ history \in [loading : BOOLEAN, rows : 0..MaxEntries, mock : BOOLEAN]
    /\ modal \in [open : BOOLEAN, left : BOOLEAN,
                  phase : {"idle", "pending", "success", "error", "unsupported"}]
    /\ asks \in [Asks -> {"none", "preparing", "prompting", "thrown"}]

(* The records that the route makes up, which the page shows unmarked.     *)
MadeUp == <<"made up">>

(* A row for every record; those of the ledger are always completed.       *)
Rows == IF history.mock THEN MadeUp ELSE Credits(Recent(history.rows, HistoryLimit))

(* The section of the page: a spinner, "No topup records yet", a table.    *)
HistoryTable == IF history.loading THEN [note |-> "loading"]
                ELSE IF Rows = <<>> THEN [note |-> "none yet"] ELSE [rows |-> Rows]

UnderWay == {a \in Asks : asks[a] \in {"preparing", "prompting"}}
==============================================================================
