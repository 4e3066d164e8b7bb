----------------------------- MODULE ConsolePages -----------------------------
(***************************************************************************)
(* The pages of the Netstars token console: server-rendered from the token *)
(* API, with a live ticker, the protocol explorer and the invoice actions  *)
(* running in the browser.                                                 *)
(***************************************************************************)
EXTENDS TokenBackend

CONSTANTS
    Polls,   \* bound: polls of the ticker under way at a time
    Steps,   \* the steps of the one recipe that is available
    Limit,   \* how many entries each page asks for
    Links    \* bound: the links the person at the tab may follow

ASSUME ConsoleAssumption ==
    /\ Steps \in Nat \ {0}
    /\ Limit \in [{"dashboard", "tokens", "protocol", "ticker", "history"} -> Nat]
    /\ Links \subseteq Pages \X Pages

VARIABLES
    load,     \* the page the server is rendering
    shell,    \* the indicator in the sidebar
    panel,    \* what the server rendered
    live,     \* the ticker
    polls,
    player,   \* the protocol explorer
    reduced,  \* prefers-reduced-motion, which the explorer alone looks at
    desk      \* the invoice actions and their toast

consoleVars == <<load, shell, panel, live, polls, player, reduced, desk>>

Reads == {"health", "profile", "balance", "activity"}
NoLoad == [to |-> "none", reads |-> [r \in Reads |-> NoRequest]]
NoPanel == [merchant |-> "env", known |-> FALSE, balance |-> 0, items |-> 0, banner |-> FALSE]
NoTicker == [items |-> 0, paid |-> FALSE]
NoDesk == [resends |-> 0, timers |-> 0, toast |-> FALSE]
NoPlayer == [step |-> 0, playing |-> FALSE, speed |-> "1x", armed |-> FALSE]

ConsoleInit ==
    /\ load = NoLoad
    /\ shell = "none"
    /\ panel = NoPanel
    /\ live = NoTicker
    /\ polls = [k \in Polls |-> NoRequest]
    /\ player = NoPlayer
    /\ reduced = FALSE
    /\ desk = NoDesk

------------------------------------------------------------------------------
(* Navigation.  The page on screen stays until the next one is rendered;   *)
(* the shell is rendered only when the console is entered.                 *)

Needs(p) ==
    CASE p = "dashboard" -> {"profile", "balance", "activity"}
      [] p = "tokens"    -> {"balance", "activity"}
      [] p = "protocol"  -> {"activity"}
      [] p = "settings"  -> {"profile"}
      [] OTHER           -> {}

Reading == Needs(load.to) \cup
           (IF load.to \in ConsolePages /\ shell = "none" THEN {"health"} ELSE {})

(* A link of the sidebar, of the top bar, or of the browser itself. *)
Open(p) ==
    /\ <<page, p>> \in Links
    /\ Click
    /\ load' = [NoLoad EXCEPT !.to = p]
    /\ UNCHANGED <<shell, panel, live, polls, player, reduced, desk>>

(* api.get: signed, uncached, and thrown unless ok.  The dashboard awaits  *)
(* the merchant's profile before it asks for the rest.                     *)
Read(r) ==
    /\ r \in Reading
    /\ load.reads[r].at = "none"
    /\ r \in {"balance", "activity"} /\ "profile" \in Reading => load.reads["profile"].at # "none"
    /\ load' = [load EXCEPT !.reads[r] =
           IF r \in {"balance", "activity"} THEN Served ELSE [Served EXCEPT !.seen = 0]]
    /\ UNCHANGED <<backendVars, tabVars, shell, panel, live, polls, player, reduced, desk>>

Failed(r) == r \in Reading /\ load.reads[r].at = "failed"

(* Promise.all([balance, activity]): the first failure is everybody's. *)
Thrown == Failed("balance") \/ Failed("activity")

Rendered ==
    \A r \in Reading : load.reads[r].at # "none" \/ (r \in {"balance", "activity"} /\ Thrown)

(* getMerchantConfigFromApi: the API first, the environment else. *)
Merchant == IF load.reads["profile"].at = "answered" THEN "api" ELSE "env"

(* Fault: the reads are awaited one by one, each with its own failure. *)
ShownApart == [merchant |-> Merchant,
               known    |-> load.reads["balance"].at = "answered",
               balance  |-> load.reads["balance"].seen,
               items    |-> load.reads["activity"].seen,
               banner   |-> Thrown /\ load.to # "protocol"]

(* The protocol page keeps its failure to itself. *)
Shown == IF Thrown
         THEN [NoPanel EXCEPT !.merchant = Merchant, !.banner = load.to # "protocol"]
         ELSE [merchant |-> Merchant,
               known    |-> load.reads["balance"].at = "answered",
               balance  |-> load.reads["balance"].seen,
               items    |-> load.reads["activity"].seen,
               banner   |-> FALSE]

(* The timer effect of the explorer, after a render that changed one of    *)
(* playing, step, speed or reduced.                                        *)
Effect(new, still) ==
    IF still THEN [new EXCEPT !.step = Steps - 1, !.armed = FALSE]
             ELSE [new EXCEPT !.armed = new.playing]

(* AppShell: healthz answered in time or not, asked once. *)
Shell == IF load.to \notin ConsolePages THEN "none"
         ELSE IF shell # "none" THEN shell
         ELSE IF Failed("health") THEN "degraded" ELSE "operational"

Arrive ==
    /\ load.to # "none"
    /\ Rendered
    /\ page' = load.to
    /\ load' = NoLoad
    /\ shell' = Shell
    /\ panel' = IF load.to = "tokens" THEN Shown ELSE [Shown EXCEPT !.items = 0]
    /\ live' = [items |-> Shown.items, paid |-> load.to = "protocol"]
    /\ polls' = [k \in Polls |-> NoRequest]
    /\ IF load.to = "protocol"
       THEN \E still \in BOOLEAN :
               /\ reduced' = still
               /\ player' = Effect([NoPlayer EXCEPT !.playing = TRUE], still)
       ELSE reduced' = FALSE /\ player' = NoPlayer
    /\ desk' = NoDesk
    /\ UNCHANGED <<backendVars, clicks>>

------------------------------------------------------------------------------
(* The live ticker of the dashboard and of the protocol page.              *)

Ticking == page \in {"dashboard", "protocol"}

(* Every five seconds the proxy route is asked, which answers with the     *)
(* items or with a 502.  When it was asked is nothing the page can tell.   *)
Poll(k) ==
    /\ Ticking
    /\ polls[k].at = "none"
    /\ polls' = [polls EXCEPT ![k] = Served]
    /\ UNCHANGED <<backendVars, tabVars, load, shell, panel, live, player, reduced, desk>>

(* Fault: a poll that fails is never over. *)
ReceiveOnlyOk(k) ==
    /\ polls[k].at = "answered"
    /\ polls' = [polls EXCEPT ![k] = NoRequest]
    /\ live' = [items |-> polls[k].seen, paid |-> FALSE]
    /\ UNCHANGED <<backendVars, tabVars, load, shell, panel, player, reduced, desk>>

(* What it answers replaces the list, whichever poll asked last; a failure *)
(* is swallowed.                                                           *)
Receive(k) ==
    /\ polls[k].at \in {"answered", "failed"}
    /\ polls' = [polls EXCEPT ![k] = NoRequest]
    /\ live' = IF polls[k].at = "failed" THEN live ELSE [items |-> polls[k].seen, paid |-> FALSE]
    /\ UNCHANGED <<backendVars, tabVars, load, shell, panel, player, reduced, desk>>

------------------------------------------------------------------------------
(* The protocol explorer.                                                  *)

Play(new) ==
    /\ player' = new
    /\ UNCHANGED <<load, shell, panel, live, polls, reduced, desk>>

Controls ==
    /\ page = "protocol"
    /\ Click
    /\ \/ ~reduced /\ Play(Effect([player EXCEPT !.playing = ~@], FALSE))
       \/ ~reduced /\ Play(Effect([player EXCEPT !.step = 0, !.playing = TRUE], FALSE))
       \/ ~reduced /\ \E s \in {"1x", "4x"} \ {player.speed} :
             Play(Effect([player EXCEPT !.speed = s], FALSE))
       \/ Play(Effect([player EXCEPT !.step = 0], reduced))

(* Fault: the effect does not depend on the step. *)
AdvanceOnce ==
    /\ page = "protocol"
    /\ player.armed
    /\ Play([player EXCEPT !.step = (@ + 1) % Steps, !.armed = FALSE])
    /\ UNCHANGED <<backendVars, tabVars>>

(* The timer goes off. *)
Advance ==
    /\ page = "protocol"
    /\ player.armed
    /\ Play(Effect([player EXCEPT !.step = (@ + 1) % Steps], reduced))
    /\ UNCHANGED <<backendVars, tabVars>>

(* The media query changes. *)
MotionChanges ==
    /\ page = "protocol"
    /\ Click
    /\ reduced' = ~reduced
    /\ player' = Effect(player, ~reduced)
    /\ UNCHANGED <<load, shell, panel, live, polls, desk>>

(* The step that the caption explains; with reduced motion, the last one. *)
Caption == player.step + 1

(* How the diagram draws step i. *)
Drawn(i) ==
    CASE reduced -> "plain"
      [] ~reduced /\ i = player.step -> "active"
      [] ~reduced /\ i < player.step -> "past"
      [] OTHER -> "faint"

------------------------------------------------------------------------------
(* The invoice actions.                                                    *)

Desk(new) ==
    /\ desk' = new
    /\ UNCHANGED <<load, shell, panel, live, polls, player, reduced>>

Resend ==
    /\ page = "invoices"
    /\ Click
    /\ Desk([desk EXCEPT !.resends = @ + 1])

(* Fault: the cleanup that showToast returns is run at once. *)
ShowToastCleaned == [desk EXCEPT !.resends = @ - 1, !.toast = TRUE]

(* showToast: the cleanup it returns is nobody's. *)
ShowToast == [desk EXCEPT !.resends = @ - 1, !.toast = TRUE, !.timers = @ + 1]

(* Answered or thrown, the toast says that the invoice was resent. *)
Resent ==
    /\ desk.resends > 0
    /\ Desk(ShowToast)
    /\ UNCHANGED <<backendVars, tabVars>>

(* The four seconds of one of the toasts are over: whichever toast is on   *)
(* screen goes.                                                            *)
ToastTimer ==
    /\ desk.timers > 0
    /\ Desk([desk EXCEPT !.timers = @ - 1, !.toast = FALSE])
    /\ UNCHANGED <<backendVars, tabVars>>

DismissToast ==
    /\ desk.toast
    /\ Click
    /\ Desk([desk EXCEPT !.toast = FALSE])

------------------------------------------------------------------------------
ConsoleNext ==
    \/ \E p \in Pages \ {"blank"} : Open(p)
    \/ \E r \in Reads : Read(r)
    \/ \E k \in Polls : Poll(k) \/ Receive(k)
    \/ Controls \/ Advance \/ MotionChanges
    \/ Resend \/ Resent \/ ToastTimer \/ DismissToast

ConsoleTypeOK ==
    /\ load \in [to : Pages \cup {"none"}, reads : [Reads -> Requests]]
    /\ shell \in {"none", "operational", "degraded"}
    /\ panel \in [merchant : {"api", "env"}, known : BOOLEAN, balance : 0..MaxEntries,
                  items : 0..MaxEntries, banner : BOOLEAN]
    /\ live \in [items : 0..MaxEntries, paid : BOOLEAN]
    /\ polls \in [Polls -> Requests]
    /\ player \in [step : 0..(Steps - 1), playing : BOOLEAN, speed : {"1x", "4x"},
                   armed : BOOLEAN]
    /\ reduced \in BOOLEAN
    /\ desk \in [resends : Nat, timers : Nat, toast : BOOLEAN]

------------------------------------------------------------------------------
(* What the pages show.                                                    *)

(* The balance of the dashboard's first card and of the tokens page. *)
Kpi == IF panel.known THEN [shown |-> panel.balance] ELSE [dash |-> TRUE]

(* A table without rows says so. *)
DataTable(rows) == IF rows = <<>> THEN <<"nothing">> ELSE rows

(* The ledger table of the tokens page. *)
LedgerTable == DataTable(Recent(panel.items, Limit["tokens"]))

(* The name on the settings page, under its first tab or under none. *)
SettingsTab == IF page = "settings" THEN "account" ELSE "other"
Account == IF SettingsTab = "account" THEN panel.merchant ELSE "not shown"

(* The list of the ticker: what the page was rendered with, payments only  *)
(* on the protocol page, until the first poll.                             *)
TickerRows ==
    IF live.paid THEN Credits(Recent(live.items, Limit["protocol"]))
    ELSE Recent(live.items, Limit["ticker"])
==============================================================================
