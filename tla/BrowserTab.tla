------------------------------ MODULE BrowserTab ------------------------------
(***************************************************************************)
(* One browser tab that goes from page to page of the token console and of *)
(* HABA's top-up page, or watches the x402 or the WEA console, while the   *)
(* service behind the page moves on.                                       *)
(***************************************************************************)
EXTENDS ConsolePages, TopupPage, LiveFeed

vars == <<backendVars, tabVars, consoleVars, topupVars, feedVars>>

TabInit == BackendInit /\ ConsoleInit /\ TopupPageInit /\ FeedInit

(* Another page is shown: whatever ran in the old one is gone. *)
Turn == Arrive /\ TopupArrives(load.to) /\ FeedArrives(load.to)

InConsole(act) == act /\ UNCHANGED <<topupVars, feedVars>>
InTopup(act) == act /\ UNCHANGED <<consoleVars, feedVars>>
InFeed(act) == act /\ UNCHANGED <<consoleVars, topupVars>>

TabNext ==
    \/ BackendNext /\ UNCHANGED <<tabVars, consoleVars, topupVars, feedVars>>
    \/ InConsole(ConsoleNext)
    \/ InTopup(TopupPageNext)
    \/ InFeed(FeedNext)
    \/ Turn

(* Servers answer, timers go off and prompts time out; nobody has to click *)
(* and an outage need not end.                                             *)
TabFairness ==
    /\ \A r \in Reads : WF_vars(InConsole(Read(r)))
    /\ WF_vars(Turn)
    /\ \A k \in Polls : WF_vars(InConsole(Poll(k))) /\ WF_vars(InConsole(Receive(k)))
    /\ WF_vars(InConsole(Advance))
    /\ WF_vars(InConsole(Resent \/ ToastTimer))
    /\ WF_vars(InTopup(HistoryReceived))
    /\ \A a \in Asks : WF_vars(InTopup(Prepare(a) \/ Prompt(a)))
    /\ \A k \in Looks : /\ WF_vars(InFeed(PollOnce(k)))
                        /\ WF_vars(InFeed(ServeList(k) \/ ServeFigures(k)))
                        /\ WF_vars(InFeed(ShowList(k) \/ ShowFigures(k)))

TabSpec == TabInit /\ [][TabNext]_vars /\ TabFairness

------------------------------------------------------------------------------
TabTypeOK ==
    /\ ledger \in Seq({"credit", "debit"}) /\ Now <= MaxEntries
    /\ page \in Pages /\ clicks \in 0..MaxClicks /\ faults \in 0..MaxFaults
    /\ ConsoleTypeOK
    /\ TopupPageTypeOK
    /\ FeedTypeOK

(* A toast on screen has a timer that will take it away, although several  *)
(* resends share one toast, nobody keeps their timers and a click may have *)
(* been faster.                                                            *)
ToastWillGo == desk.toast => desk.timers > 0

(* The dialog waits only while a run of handleAuthorize is under way or    *)
(* has thrown; and until it was closed during a run, one run is under way  *)
(* exactly when it says so, and never two.                                 *)
ModalTellsTheTruth ==
    /\ modal.phase = "pending" => \E a \in Asks : asks[a] # "none"
    /\ ~modal.left /\ (\A a \in Asks : asks[a] # "thrown") =>
          /\ Cardinality(UnderWay) <= 1
          /\ modal.phase = "pending" <=> UnderWay # {}

(* What a page shows comes from one load: no balance without its entries,  *)
(* a banner exactly where they are missing, the merchant of the            *)
(* environment only after an outage; and a history that was answered once  *)
(* has rows for ever after, the ledger's or made up.                       *)
PanelsOfOneLoad ==
    /\ page \in {"dashboard", "tokens"} =>
          /\ panel.banner <=> Kpi = [dash |-> TRUE]
          /\ panel.banner => LedgerTable = <<"nothing">>
    /\ Account = "env" => faults > 0
    /\ history.mock \/ history.rows > 0 => HistoryTable # [note |-> "none yet"]

(* On a page with a ticker, when the ledger rests and can be reached, the  *)
(* list is the ledger's newest entries, although answers overtake each     *)
(* other and some fail.                                                    *)
TickerCatchesUp ==
    <>[](Ticking /\ up => TickerRows = Recent(Now, Limit["ticker"]))

(* A console that is watched, when its service rests and can be reached,   *)
(* shows all of it and says that it is live: polls that failed, or that    *)
(* came back out of order with half of an answer, leave nothing behind.    *)
FeedCatchesUp ==
    <>[](page = "feed" /\ up =>
            /\ Cards = Recent(Now, FeedLimit)
            /\ Strip = [told |-> Now] /\ Wallets = {"payer", "recipient"}
            /\ Pill = "ok")

(* An explorer that is left playing draws its last step as the active one  *)
(* again and again, whatever was clicked before.                           *)
PlaysToTheEnd ==
    <>[](page = "protocol" /\ player.playing /\ ~reduced) => []<>(Drawn(Steps - 1) = "active" /\ Caption = Steps)
==============================================================================
