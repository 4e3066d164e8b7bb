-------------------------- MODULE BrowserTabProofs --------------------------
(***************************************************************************)
(* Proofs about BrowserTab, for ledgers of any length and any number of    *)
(* outages, clicks, polls and authorisations: a toast on screen has its    *)
(* timer, the dialog of the top-up page tells what is under way, and what  *)
(* a page shows comes from one load.                                       *)
(***************************************************************************)
EXTENDS BrowserTab, SequenceTheorems, FiniteSetTheorems, TLAPS

Notices == {"idle", "pending", "success", "error", "unsupported"}

(* Whatever failed, failed in an outage. *)
OutageInv ==
    /\ ~up => faults > 0
    /\ \A r \in Reads : load.reads[r].at = "failed" => faults > 0

(* What was rendered: everything of a load, or a banner and nothing. *)
PanelInv ==
    /\ page \in {"dashboard", "tokens"} =>
          /\ panel.banner = ~panel.known
          /\ panel.banner => panel.items = 0
    /\ page = "settings" /\ panel.merchant = "env" => faults > 0

(* Rows that were shown are still in the ledger. *)
HistoryInv ==
    /\ history.rows <= Now
    /\ history.rows > 0 => Credits(Recent(history.rows, HistoryLimit)) # <<>>

(* Until the dialog was closed on a run or one has thrown, at most one is  *)
(* under way, and the dialog says so.                                      *)
ModalInv ==
    /\ modal.phase = "pending" => \E a \in Asks : asks[a] # "none"
    /\ ~modal.left /\ (\A a \in Asks : asks[a] # "thrown") =>
          /\ \A a, b \in UnderWay : a = b
          /\ modal.phase = "pending" <=> UnderWay # {}

TabInv ==
    /\ TabTypeOK
    /\ OutageInv
    /\ PanelInv
    /\ HistoryInv
    /\ ModalInv
    /\ ToastWillGo

------------------------------------------------------------------------------
(* What the service does to the log, and what a page is told.              *)

(* What was told of a log stays true when it grows. *)
LEMMA RecentKept ==
    ASSUME ledger \in Seq({"credit", "debit"}), NEW e \in {"credit", "debit"},
           ledger' = Append(ledger, e), NEW v \in 0..Now, NEW n \in Nat
    PROVE  SubSeq(ledger', IF v > n THEN v - n + 1 ELSE 1, v) = Recent(v, n)
<1> DEFINE m == IF v > n THEN v - n + 1 ELSE 1
           S == {"credit", "debit"}
<1>1. m \in Int /\ m >= 1 /\ v \in Int /\ v <= Len(ledger)
  BY DEF Now
<1> HIDE DEF m
<1>2. \A i \in m..v : ledger[i] \in S /\ ledger'[i] = ledger[i] /\ ledger'[i] \in S
  BY <1>1
<1>3. /\ SubSeq(ledger, m, v) \in Seq(S) /\ SubSeq(ledger', m, v) \in Seq(S)
      /\ Len(SubSeq(ledger, m, v)) = IF m <= v THEN v - m + 1 ELSE 0
      /\ Len(SubSeq(ledger', m, v)) = IF m <= v THEN v - m + 1 ELSE 0
      /\ \A i \in 1..(v - m + 1) : SubSeq(ledger, m, v)[i] = ledger[m + i - 1]
      /\ \A i \in 1..(v - m + 1) : SubSeq(ledger', m, v)[i] = ledger'[m + i - 1]
  <2>1. \A i \in m..v : ledger[i] \in S
    BY <1>2
  <2>2. \A i \in m..v : ledger'[i] \in S
    BY <1>2
  <2>3. /\ SubSeq(ledger, m, v) \in Seq(S)
        /\ Len(SubSeq(ledger, m, v)) = IF m <= v THEN v - m + 1 ELSE 0
        /\ \A i \in 1..(v - m + 1) : SubSeq(ledger, m, v)[i] = ledger[m + i - 1]
    BY <1>1, <2>1, SubSeqProperties
  <2>4. /\ SubSeq(ledger', m, v) \in Seq(S)
        /\ Len(SubSeq(ledger', m, v)) = IF m <= v THEN v - m + 1 ELSE 0
        /\ \A i \in 1..(v - m + 1) : SubSeq(ledger', m, v)[i] = ledger'[m + i - 1]
    BY <1>1, <2>2, SubSeqProperties
  <2>5. QED
    BY <2>3, <2>4
<1>4. \A i \in 1..Len(SubSeq(ledger, m, v)) : SubSeq(ledger', m, v)[i] = SubSeq(ledger, m, v)[i]
  <2> TAKE i \in 1..Len(SubSeq(ledger, m, v))
  <2>1. i \in 1..(v - m + 1) /\ m + i - 1 \in m..v
    BY <1>1, <1>3
  <2>2. QED
    BY <1>2, <1>3, <2>1
<1>5. SubSeq(ledger', m, v) = SubSeq(ledger, m, v)
  BY <1>3, <1>4, SeqEqual
<1>6. QED
  BY <1>5 DEF Recent, m

LEMMA HistoryKept ==
    ASSUME ledger \in Seq({"credit", "debit"}), NEW e \in {"credit", "debit"},
           ledger' = Append(ledger, e), history.rows \in Nat, history' = history, HistoryInv
    PROVE  HistoryInv'
<1>1. Now' = Now + 1 /\ Now \in Nat
  BY DEF Now
<1>2. history.rows \in 0..Now
  BY <1>1 DEF HistoryInv
<1>3. SubSeq(ledger', IF history.rows > HistoryLimit THEN history.rows - HistoryLimit + 1 ELSE 1,
             history.rows) = Recent(history.rows, HistoryLimit)
  BY <1>2, RecentKept, TopupAssumption
<1>4. Recent(history.rows, HistoryLimit)' = Recent(history.rows, HistoryLimit)
  BY <1>3 DEF Recent
<1>5. Credits(Recent(history.rows, HistoryLimit))' = Credits(Recent(history.rows, HistoryLimit))
  BY <1>4
<1>6. QED
  BY <1>1, <1>2, <1>5 DEF HistoryInv

LEMMA ServedTyped ==
    ASSUME ledger \in Seq({"credit", "debit"}), Now <= MaxEntries
    PROVE  /\ Served \in Requests /\ [Served EXCEPT !.seen = 0] \in Requests
           /\ Served.at = IF up THEN "answered" ELSE "failed"
           /\ [Served EXCEPT !.seen = 0].at = Served.at
           /\ NoRequest \in Requests /\ NoRequest.at = "none"
<1>1. Now \in 0..MaxEntries /\ 0 \in 0..MaxEntries
  BY BackendAssumption DEF Now
<1>2. QED
  BY <1>1 DEF Served, Requests, NoRequest

LEMMA BackendStep ==
    ASSUME TabInv, BackendNext, UNCHANGED <<tabVars, consoleVars, topupVars, feedVars>>
    PROVE  TabInv'
<1>1. /\ page' = page /\ clicks' = clicks /\ load' = load /\ shell' = shell /\ panel' = panel
      /\ live' = live /\ polls' = polls /\ player' = player /\ reduced' = reduced /\ desk' = desk
      /\ history' = history /\ modal' = modal /\ asks' = asks /\ feed' = feed /\ looks' = looks
  BY DEF tabVars, consoleVars, topupVars, feedVars
<1>2. /\ ledger \in Seq({"credit", "debit"}) /\ Now <= MaxEntries /\ faults \in Nat
      /\ history.rows \in Nat /\ HistoryInv /\ OutageInv
  BY DEF TabInv, TabTypeOK, TopupPageTypeOK
<1>3. /\ ledger' \in Seq({"credit", "debit"}) /\ Now' <= MaxEntries
      /\ faults' \in 0..MaxFaults /\ faults' >= faults /\ HistoryInv'
      /\ ~up' => faults' > 0
  <2>1. ASSUME NEW e \in {"credit", "debit"}, Record(e)
        PROVE  /\ ledger' \in Seq({"credit", "debit"}) /\ Now' <= MaxEntries
               /\ faults' = faults /\ up' = up /\ HistoryInv'
    <3>1. /\ ledger' = Append(ledger, e) /\ Now < MaxEntries /\ faults' = faults /\ up' = up
      BY <2>1 DEF Record
    <3>2. HistoryInv'
      BY <1>1, <1>2, <3>1, HistoryKept
    <3>3. QED
      BY <1>2, <3>1, <3>2, BackendAssumption DEF Now
  <2>2. CASE Outage \/ Recover
    <3>1. ledger' = ledger /\ (Outage => faults < MaxFaults /\ faults' = faults + 1)
          /\ (Recover => up' = TRUE /\ faults' = faults)
      BY <2>2 DEF Outage, Recover
    <3>2. HistoryInv'
      BY <1>1, <1>2, <3>1 DEF HistoryInv, Now, Recent
    <3>3. QED
      BY <1>2, <2>2, <3>1, <3>2, BackendAssumption DEF Now, TabInv, TabTypeOK
  <2>3. QED
    BY <1>2, <2>1, <2>2 DEF BackendNext, Purchase, AiCall, TabInv, TabTypeOK, OutageInv
<1>4. TabTypeOK'
  BY <1>1, <1>3 DEF TabInv, TabTypeOK, ConsoleTypeOK, TopupPageTypeOK, FeedTypeOK
<1>5. OutageInv' /\ PanelInv'
  BY <1>1, <1>2, <1>3 DEF TabInv, OutageInv, PanelInv
<1>6. ModalInv' /\ ToastWillGo'
  BY <1>1 DEF TabInv, ModalInv, ToastWillGo, UnderWay
<1>7. QED
  BY <1>3, <1>4, <1>5, <1>6 DEF TabInv

------------------------------------------------------------------------------
(* The pages of the token console.                                         *)

Explorer == [step : 0..(Steps - 1), playing : BOOLEAN, speed : {"1x", "4x"}, armed : BOOLEAN]
Load == [to : Pages \cup {"none"}, reads : [Reads -> Requests]]
DeskState == [resends : Nat, timers : Nat, toast : BOOLEAN]

LEMMA ClickFacts ==
    ASSUME TabTypeOK, Click
    PROVE  clicks' \in 0..MaxClicks /\ page' = page /\ UNCHANGED backendVars
BY BackendAssumption DEF TabTypeOK, Click

LEMMA ConsoleFrame ==
    ASSUME TabInv, UNCHANGED <<backendVars, topupVars, feedVars>>,
           page' = page, clicks' \in 0..MaxClicks, ConsoleTypeOK', panel' = panel,
           \A r \in Reads : load'.reads[r].at = "failed" => faults > 0, ToastWillGo'
    PROVE  TabInv'
<1>1. /\ ledger' = ledger /\ up' = up /\ faults' = faults
      /\ history' = history /\ modal' = modal /\ asks' = asks /\ feed' = feed /\ looks' = looks
  BY DEF backendVars, topupVars, feedVars
<1>2. TabTypeOK'
  BY <1>1 DEF TabInv, TabTypeOK, TopupPageTypeOK, FeedTypeOK, Now
<1>3. OutageInv' /\ PanelInv'
  BY <1>1 DEF TabInv, OutageInv, PanelInv
<1>4. HistoryInv'
  BY <1>1 DEF TabInv, HistoryInv, Now, Recent
<1>5. ModalInv'
  BY <1>1 DEF TabInv, ModalInv, UnderWay
<1>6. QED
  BY <1>2, <1>3, <1>4, <1>5 DEF TabInv

LEMMA LoadStep ==
    ASSUME TabInv, UNCHANGED <<backendVars, topupVars, feedVars>>,
           page' = page, clicks' \in 0..MaxClicks, load' \in Load,
           \A r \in Reads : load'.reads[r].at = "failed" => faults > 0,
           UNCHANGED <<shell, panel, live, polls, player, reduced, desk>>
    PROVE  TabInv'
<1>1. ConsoleTypeOK' /\ ToastWillGo'
  BY DEF TabInv, TabTypeOK, ConsoleTypeOK, ToastWillGo, Load
<1>2. QED
  BY <1>1, ConsoleFrame

LEMMA NoLoadFacts ==
    ASSUME TabTypeOK, NEW p \in Pages
    PROVE  /\ [NoLoad EXCEPT !.to = p] \in Load /\ NoLoad \in Load
           /\ [NoLoad EXCEPT !.to = p].reads = NoLoad.reads
           /\ \A r \in Reads : NoLoad.reads[r].at = "none"
<1>1. NoRequest \in Requests /\ NoRequest.at = "none"
  BY ServedTyped DEF TabTypeOK
<1>2. QED
  BY <1>1 DEF NoLoad, Load

LEMMA OpenStep ==
    ASSUME TabInv, NEW p \in Pages, Open(p), UNCHANGED <<topupVars, feedVars>>
    PROVE  TabInv'
<1>1. Click /\ load' = [NoLoad EXCEPT !.to = p]
      /\ UNCHANGED <<shell, panel, live, polls, player, reduced, desk>>
  BY DEF Open
<1>2. clicks' \in 0..MaxClicks /\ page' = page /\ UNCHANGED backendVars
  BY <1>1, ClickFacts DEF TabInv
<1>3. load' \in Load /\ \A r \in Reads : load'.reads[r].at = "none"
  BY <1>1, NoLoadFacts DEF TabInv
<1>4. QED
  BY <1>1, <1>2, <1>3, LoadStep

LEMMA ReadStep ==
    ASSUME TabInv, NEW r \in Reads, Read(r), UNCHANGED <<topupVars, feedVars>>
    PROVE  TabInv'
<1> DEFINE got == IF r \in {"balance", "activity"} THEN Served ELSE [Served EXCEPT !.seen = 0]
<1>1. /\ load' = [load EXCEPT !.reads[r] = got]
      /\ UNCHANGED <<backendVars, tabVars, shell, panel, live, polls, player, reduced, desk>>
  BY DEF Read
<1>2. got \in Requests /\ got.at = IF up THEN "answered" ELSE "failed"
  BY ServedTyped DEF TabInv, TabTypeOK
<1>3. load \in Load /\ clicks \in 0..MaxClicks /\ OutageInv
  BY DEF TabInv, TabTypeOK, ConsoleTypeOK, Load
<1> HIDE DEF got
<1>4. load' \in Load /\ load'.reads = [load.reads EXCEPT ![r] = got]
  BY <1>1, <1>2, <1>3 DEF Load
<1>5. \A q \in Reads : load'.reads[q].at = "failed" => faults > 0
  <2>1. load.reads \in [Reads -> Requests]
    BY <1>3 DEF Load
  <2>2. got.at = "failed" => faults > 0
    BY <1>2, <1>3 DEF OutageInv
  <2>3. QED
    BY <1>3, <1>4, <2>1, <2>2 DEF OutageInv
<1>6. page' = page /\ clicks' = clicks
  BY <1>1 DEF tabVars
<1>7. QED
  BY <1>1, <1>3, <1>4, <1>5, <1>6, LoadStep

(* A step that leaves what is being loaded alone. *)
LEMMA ShownStep ==
    ASSUME TabInv, UNCHANGED <<backendVars, topupVars, feedVars>>,
           page' = page, clicks' \in 0..MaxClicks, ConsoleTypeOK',
           load' = load, panel' = panel, ToastWillGo'
    PROVE  TabInv'
<1>1. \A r \in Reads : load'.reads[r].at = "failed" => faults > 0
  BY DEF TabInv, OutageInv
<1>2. QED
  BY <1>1, ConsoleFrame

LEMMA TickerStep ==
    ASSUME TabInv, NEW k \in Polls, Poll(k) \/ Receive(k), UNCHANGED <<topupVars, feedVars>>
    PROVE  TabInv'
<1>1. /\ UNCHANGED backendVars /\ page' = page /\ clicks' = clicks
      /\ UNCHANGED <<load, shell, panel, player, reduced, desk>>
  BY DEF Poll, Receive, tabVars
<1>2. Served \in Requests /\ NoRequest \in Requests /\ polls[k] \in Requests
  BY ServedTyped DEF TabInv, TabTypeOK, ConsoleTypeOK
<1>3. polls' \in [Polls -> Requests] /\ live' \in [items : 0..MaxEntries, paid : BOOLEAN]
  <2>1. polls \in [Polls -> Requests] /\ live \in [items : 0..MaxEntries, paid : BOOLEAN]
    BY DEF TabInv, TabTypeOK, ConsoleTypeOK
  <2>2. [items |-> polls[k].seen, paid |-> FALSE] \in [items : 0..MaxEntries, paid : BOOLEAN]
    BY <1>2 DEF Requests
  <2>3. CASE Poll(k)
    BY <1>2, <2>1, <2>3 DEF Poll
  <2>4. CASE Receive(k)
    BY <1>2, <2>1, <2>2, <2>4 DEF Receive
  <2>5. QED
    BY <2>3, <2>4
<1>4. ConsoleTypeOK' /\ ToastWillGo' /\ clicks' \in 0..MaxClicks
  BY <1>1, <1>3 DEF TabInv, TabTypeOK, ConsoleTypeOK, ToastWillGo
<1>5. QED
  BY <1>1, <1>4, ShownStep

LEMMA EffectTyped ==
    ASSUME NEW new \in Explorer, NEW still \in BOOLEAN
    PROVE  Effect(new, still) \in Explorer
<1>1. Steps - 1 \in 0..(Steps - 1)
  BY ConsoleAssumption
<1>2. [new EXCEPT !.step = Steps - 1, !.armed = FALSE] \in Explorer
  BY <1>1 DEF Explorer
<1>3. [new EXCEPT !.armed = new.playing] \in Explorer
  BY DEF Explorer
<1>4. QED
  BY <1>2, <1>3 DEF Effect

LEMMA PlayerStep ==
    ASSUME TabInv, UNCHANGED <<backendVars, topupVars, feedVars>>,
           page' = page, clicks' \in 0..MaxClicks, player' \in Explorer, reduced' \in BOOLEAN,
           UNCHANGED <<load, shell, panel, live, polls, desk>>
    PROVE  TabInv'
<1>1. ConsoleTypeOK' /\ ToastWillGo'
  BY DEF TabInv, TabTypeOK, ConsoleTypeOK, ToastWillGo, Explorer
<1>2. QED
  BY <1>1, ShownStep

LEMMA ExplorerStep ==
    ASSUME TabInv, Controls \/ Advance \/ MotionChanges, UNCHANGED <<topupVars, feedVars>>
    PROVE  TabInv'
<1>1. player \in Explorer /\ reduced \in BOOLEAN /\ clicks \in 0..MaxClicks /\ TabTypeOK
  BY DEF TabInv, TabTypeOK, ConsoleTypeOK, Explorer
<1>2. Steps \in Nat \ {0} /\ 0 \in 0..(Steps - 1)
  BY ConsoleAssumption
<1>3. CASE Controls
  <2>1. clicks' \in 0..MaxClicks /\ page' = page /\ UNCHANGED backendVars
    BY <1>1, <1>3, ClickFacts DEF Controls
  <2>2. UNCHANGED <<load, shell, panel, live, polls, reduced, desk>>
    BY <1>3 DEF Controls, Play
  <2>3. player' \in Explorer
    <3>1. /\ [player EXCEPT !.playing = ~@] \in Explorer
          /\ [player EXCEPT !.step = 0, !.playing = TRUE] \in Explorer
          /\ [player EXCEPT !.step = 0] \in Explorer
          /\ \A s \in {"1x", "4x"} : [player EXCEPT !.speed = s] \in Explorer
      <4>1. PICK other \in BOOLEAN : other = ~player.playing
        BY <1>1 DEF Explorer
      <4>2. [player EXCEPT !.playing = other] \in Explorer
        BY <1>1 DEF Explorer
      <4>3. [player EXCEPT !.playing = ~@] \in Explorer
        BY <4>1, <4>2
      <4>4. QED
        BY <1>1, <1>2, <4>3 DEF Explorer
    <3>2. QED
      BY <1>1, <1>3, <3>1, EffectTyped DEF Controls, Play
  <2>4. QED
    BY <1>1, <2>1, <2>2, <2>3, PlayerStep
<1>4. CASE Advance
  <2>1. [player EXCEPT !.step = (@ + 1) % Steps] \in Explorer
    <3>1. player.step \in Nat
      BY <1>1, <1>2 DEF Explorer
    <3>2. (player.step + 1) % Steps \in 0..(Steps - 1)
      BY <1>2, <3>1
    <3>3. QED
      BY <1>1, <3>2 DEF Explorer
  <2>2. player' \in Explorer
    BY <1>1, <1>4, <2>1, EffectTyped DEF Advance, Play
  <2>3. /\ UNCHANGED backendVars /\ page' = page /\ clicks' = clicks
        /\ UNCHANGED <<load, shell, panel, live, polls, reduced, desk>>
    BY <1>4 DEF Advance, Play, tabVars
  <2>4. QED
    BY <1>1, <2>2, <2>3, PlayerStep
<1>5. CASE MotionChanges
  <2>1. clicks' \in 0..MaxClicks /\ page' = page /\ UNCHANGED backendVars
    BY <1>1, <1>5, ClickFacts DEF MotionChanges
  <2>2. reduced' \in BOOLEAN /\ player' \in Explorer
    BY <1>1, <1>5, EffectTyped DEF MotionChanges
  <2>3. UNCHANGED <<load, shell, panel, live, polls, desk>>
    BY <1>5 DEF MotionChanges
  <2>4. QED
    BY <2>1, <2>2, <2>3, PlayerStep
<1>6. QED
  BY <1>3, <1>4, <1>5

LEMMA DeskStep ==
    ASSUME TabInv, Resend \/ Resent \/ ToastTimer \/ DismissToast, UNCHANGED <<topupVars, feedVars>>
    PROVE  TabInv'
<1>1. desk \in DeskState /\ clicks \in 0..MaxClicks /\ TabTypeOK /\ (desk.toast => desk.timers > 0)
  BY DEF TabInv, TabTypeOK, ConsoleTypeOK, ToastWillGo, DeskState
<1>2. /\ UNCHANGED <<load, shell, panel, live, polls, player, reduced>>
      /\ desk' \in DeskState /\ (desk'.toast => desk'.timers > 0)
  <2>1. CASE Resend
    BY <1>1, <2>1 DEF Resend, Desk, DeskState
  <2>2. CASE Resent
    <3>1. desk.resends - 1 \in Nat /\ desk.timers + 1 \in Nat /\ desk.timers + 1 > 0
      BY <1>1, <2>2 DEF Resent, DeskState
    <3>2. desk' = [desk EXCEPT !.resends = desk.resends - 1, !.toast = TRUE,
                               !.timers = desk.timers + 1]
      BY <2>2 DEF Resent, Desk, ShowToast
    <3>3. desk' \in DeskState /\ desk'.timers = desk.timers + 1
      BY <1>1, <3>1, <3>2 DEF DeskState
    <3>4. QED
      BY <2>2, <3>1, <3>3 DEF Resent, Desk
  <2>3. CASE ToastTimer
    <3>1. desk.timers - 1 \in Nat
      BY <1>1, <2>3 DEF ToastTimer, DeskState
    <3>2. desk' = [desk EXCEPT !.timers = desk.timers - 1, !.toast = FALSE]
      BY <2>3 DEF ToastTimer, Desk
    <3>3. desk' \in DeskState /\ desk'.toast = FALSE
      BY <1>1, <3>1, <3>2 DEF DeskState
    <3>4. QED
      BY <2>3, <3>3 DEF ToastTimer, Desk
  <2>4. CASE DismissToast
    BY <1>1, <2>4 DEF DismissToast, Desk, DeskState
  <2>5. QED
    BY <2>1, <2>2, <2>3, <2>4
<1>3. clicks' \in 0..MaxClicks /\ page' = page /\ UNCHANGED backendVars
  BY <1>1, ClickFacts DEF Resend, Resent, ToastTimer, DismissToast, tabVars
<1>4. ConsoleTypeOK' /\ ToastWillGo'
  BY <1>2 DEF TabInv, TabTypeOK, ConsoleTypeOK, ToastWillGo, DeskState
<1>5. QED
  BY <1>2, <1>3, <1>4, ShownStep

LEMMA ConsoleStep ==
    ASSUME TabInv, InConsole(ConsoleNext)
    PROVE  TabInv'
BY OpenStep, ReadStep, TickerStep, ExplorerStep, DeskStep DEF InConsole, ConsoleNext

------------------------------------------------------------------------------
(* The top-up page.                                                        *)

Dialog == [open : BOOLEAN, left : BOOLEAN, phase : Notices]
Runs == {"none", "preparing", "prompting", "thrown"}

LEMMA TopupFrame ==
    ASSUME TabInv, UNCHANGED <<backendVars, tabVars, consoleVars, feedVars>>,
           TopupPageTypeOK', HistoryInv', ModalInv'
    PROVE  TabInv'
<1>1. /\ ledger' = ledger /\ up' = up /\ faults' = faults /\ page' = page /\ clicks' = clicks
      /\ load' = load /\ shell' = shell /\ panel' = panel /\ live' = live /\ polls' = polls
      /\ player' = player /\ reduced' = reduced /\ desk' = desk
      /\ feed' = feed /\ looks' = looks
  BY DEF backendVars, tabVars, consoleVars, feedVars
<1>2. TabTypeOK'
  BY <1>1 DEF TabInv, TabTypeOK, ConsoleTypeOK, FeedTypeOK, Now
<1>3. OutageInv' /\ PanelInv' /\ ToastWillGo'
  BY <1>1 DEF TabInv, OutageInv, PanelInv, ToastWillGo
<1>4. QED
  BY <1>2, <1>3 DEF TabInv

LEMMA HistoryStep ==
    ASSUME TabInv, Refresh \/ HistoryReceived, UNCHANGED <<consoleVars, feedVars>>
    PROVE  TabInv'
<1> DEFINE Table == [loading : BOOLEAN, rows : 0..MaxEntries, mock : BOOLEAN]
<1>1. /\ history \in Table /\ HistoryInv /\ TopupPageTypeOK
      /\ ledger \in Seq({"credit", "debit"}) /\ Now <= MaxEntries
  BY DEF TabInv, TabTypeOK, TopupPageTypeOK
<1>2. UNCHANGED <<backendVars, tabVars, modal, asks>>
  BY DEF Refresh, HistoryReceived
<1>3. ledger' = ledger
  BY <1>2 DEF backendVars
<1>4. Now \in 0..MaxEntries /\ 0 \in 0..MaxEntries /\ 0 <= Now
  BY <1>1, BackendAssumption DEF Now
<1>5. \A b \in BOOLEAN : /\ [history EXCEPT !.loading = b] \in Table
                         /\ [history EXCEPT !.loading = b].rows = history.rows
  BY <1>1
<1>6. /\ History \in Table
      /\ History.rows = 0 \/ (History.rows = Now /\ Credits(Recent(Now, HistoryLimit)) # <<>>)
  BY <1>4 DEF History, Found
<1>7. /\ history' \in Table
      /\ history'.rows \in {0, history.rows}
            \/ (history'.rows = Now /\ Credits(Recent(Now, HistoryLimit)) # <<>>)
  BY <1>5, <1>6 DEF Refresh, HistoryReceived
<1> HIDE DEF Table
<1>8. HistoryInv'
  <2>1. Now' = Now /\ \A v : Recent(v, HistoryLimit) = SubSeq(ledger',
            IF v > HistoryLimit THEN v - HistoryLimit + 1 ELSE 1, v)
    BY <1>3 DEF Now, Recent
  <2>2. PICK v : v = history'.rows
    OBVIOUS
  <2>3. v <= Now /\ (v > 0 => Credits(Recent(v, HistoryLimit)) # <<>>)
    BY <1>1, <1>4, <1>7, <2>2 DEF HistoryInv
  <2>4. Recent(history.rows, HistoryLimit)' = Recent(v, HistoryLimit)
    BY <2>1, <2>2 DEF Recent
  <2>5. QED
    BY <2>1, <2>2, <2>3, <2>4 DEF HistoryInv
<1>9. TopupPageTypeOK'
  BY <1>1, <1>2, <1>7 DEF TopupPageTypeOK, Table
<1>10. ModalInv'
  BY <1>2 DEF TabInv, ModalInv, UnderWay
<1>11. QED
  BY <1>2, <1>8, <1>9, <1>10, TopupFrame

(* A step of the dialog. *)
LEMMA DialogStep ==
    ASSUME TabInv, UNCHANGED <<backendVars, tabVars, consoleVars, feedVars, history>>,
           modal' \in Dialog, asks' \in [Asks -> Runs], ModalInv'
    PROVE  TabInv'
<1>1. TopupPageTypeOK'
  BY DEF TabInv, TabTypeOK, TopupPageTypeOK, Dialog, Notices, Runs
<1>2. HistoryInv'
  BY DEF TabInv, HistoryInv, Now, Recent, backendVars
<1>3. QED
  BY <1>1, <1>2, TopupFrame

LEMMA ButtonStep ==
    ASSUME TabInv, OpenModal \/ CloseModal \/ Retry, UNCHANGED <<consoleVars, feedVars>>
    PROVE  TabInv'
<1>1. modal \in Dialog /\ asks \in [Asks -> Runs] /\ ModalInv
  BY DEF TabInv, TabTypeOK, TopupPageTypeOK, Dialog, Notices, Runs
<1>2. UNCHANGED <<backendVars, tabVars, history>> /\ asks' = asks
  BY DEF OpenModal, CloseModal, Retry
<1>3. UnderWay' = UnderWay
  BY <1>2 DEF UnderWay
<1>4. modal' \in Dialog /\ ModalInv'
  <2>1. CASE OpenModal
    <3>1. modal' \in Dialog /\ modal'.phase = modal.phase /\ modal'.left = modal.left
      BY <1>1, <2>1 DEF OpenModal, Dialog
    <3>2. QED
      BY <1>1, <1>2, <1>3, <3>1 DEF ModalInv
  <2>2. CASE CloseModal
    <3>1. PICK gone \in BOOLEAN : gone = (modal.left \/ \E a \in Asks : asks[a] # "none")
      BY <1>1 DEF Dialog
    <3>2. modal' = [modal EXCEPT !.open = FALSE, !.phase = "idle", !.left = gone]
      BY <2>2, <3>1 DEF CloseModal
    <3>3. modal' \in Dialog /\ modal'.phase = "idle" /\ modal'.left = gone
      BY <1>1, <3>2 DEF Dialog, Notices
    <3>4. ~gone => UnderWay = {}
      BY <3>1 DEF UnderWay
    <3>5. QED
      BY <1>2, <1>3, <3>3, <3>4 DEF ModalInv
  <2>3. CASE Retry
    <3>1. /\ modal' \in Dialog /\ modal'.phase = "idle" /\ modal'.left = modal.left
          /\ modal.phase # "pending"
      BY <1>1, <2>3 DEF Retry, Dialog, Notices
    <3>2. QED
      BY <1>1, <1>2, <1>3, <3>1 DEF ModalInv
  <2>4. QED
    BY <2>1, <2>2, <2>3
<1>5. QED
  BY <1>1, <1>2, <1>4, DialogStep

LEMMA AuthorizeStep ==
    ASSUME TabInv, NEW a \in Asks, Authorize(a), UNCHANGED <<consoleVars, feedVars>>
    PROVE  TabInv'
<1>1. modal \in Dialog /\ asks \in [Asks -> Runs] /\ ModalInv
  BY DEF TabInv, TabTypeOK, TopupPageTypeOK, Dialog, Notices, Runs
<1>2. /\ UNCHANGED <<backendVars, tabVars, history>>
      /\ asks' = [asks EXCEPT ![a] = "preparing"] /\ asks[a] = "none" /\ modal.phase = "idle"
      /\ modal' = [modal EXCEPT !.phase = "pending"]
  BY DEF Authorize
<1>3. modal' \in Dialog /\ modal'.phase = "pending" /\ modal'.left = modal.left
  BY <1>1, <1>2 DEF Dialog, Notices
<1>4. asks' \in [Asks -> Runs] /\ asks'[a] = "preparing" /\ \A b \in Asks \ {a} : asks'[b] = asks[b]
  BY <1>1, <1>2 DEF Runs
<1>5. UnderWay' = UnderWay \cup {a}
  BY <1>2, <1>4 DEF UnderWay
<1>6. (\A b \in Asks : asks'[b] # "thrown") => \A b \in Asks : asks[b] # "thrown"
  BY <1>2, <1>4
<1>7. ModalInv'
  BY <1>1, <1>2, <1>3, <1>4, <1>5, <1>6 DEF ModalInv
<1>8. QED
  BY <1>2, <1>3, <1>4, <1>7, DialogStep

LEMMA EndStep ==
    ASSUME TabInv, NEW a \in Asks, asks[a] \in {"preparing", "prompting"},
           NEW r \in {"ok", "cancelled", "error", "unsupported"}, End(a, r),
           UNCHANGED <<backendVars, tabVars, consoleVars, feedVars, history>>
    PROVE  TabInv'
<1>1. modal \in Dialog /\ asks \in [Asks -> Runs] /\ ModalInv
  BY DEF TabInv, TabTypeOK, TopupPageTypeOK, Dialog, Notices, Runs
<1>2. PICK x \in Notices \ {"pending"} : modal' = [modal EXCEPT !.phase = x]
  BY DEF End, Phase, Notices
<1>3. modal' \in Dialog /\ modal'.phase # "pending" /\ modal'.left = modal.left
  BY <1>1, <1>2 DEF Dialog
<1>4. asks' \in [Asks -> Runs] /\ asks'[a] = "none" /\ \A b \in Asks \ {a} : asks'[b] = asks[b]
  BY <1>1 DEF End, Runs
<1>5. UnderWay' = UnderWay \ {a} /\ a \in UnderWay
  BY <1>4 DEF UnderWay
<1>6. (\A b \in Asks : asks'[b] # "thrown") => \A b \in Asks : asks[b] # "thrown"
  BY <1>4
<1>7. ModalInv'
  BY <1>1, <1>3, <1>5, <1>6 DEF ModalInv
<1>8. QED
  BY <1>3, <1>4, <1>7, DialogStep

LEMMA PrepareStep ==
    ASSUME TabInv, NEW a \in Asks, Prepare(a), UNCHANGED <<consoleVars, feedVars>>
    PROVE  TabInv'
<1>1. modal \in Dialog /\ asks \in [Asks -> Runs] /\ ModalInv
  BY DEF TabInv, TabTypeOK, TopupPageTypeOK, Dialog, Notices, Runs
<1>2. UNCHANGED <<backendVars, tabVars, history>> /\ asks[a] = "preparing"
  BY DEF Prepare
<1>3. ASSUME NEW x \in {"thrown", "prompting"}, asks' = [asks EXCEPT ![a] = x], modal' = modal
      PROVE  TabInv'
  <2>1. asks' \in [Asks -> Runs] /\ asks'[a] = x /\ \A b \in Asks \ {a} : asks'[b] = asks[b]
    BY <1>1, <1>3 DEF Runs
  <2>2. x = "prompting" => UnderWay' = UnderWay
    BY <1>2, <2>1 DEF UnderWay
  <2>3. (\A b \in Asks : asks'[b] # "thrown") =>
            x = "prompting" /\ \A b \in Asks : asks[b] # "thrown"
    BY <1>2, <2>1
  <2>4. ModalInv'
    BY <1>1, <1>3, <2>1, <2>2, <2>3 DEF ModalInv
  <2>5. QED
    BY <1>1, <1>2, <1>3, <2>1, <2>4, DialogStep
<1>4. ASSUME NEW r \in {"cancelled", "error", "unsupported"}, End(a, r)
      PROVE  TabInv'
  BY <1>2, <1>4, EndStep
<1>5. QED
  BY <1>3, <1>4 DEF Prepare

LEMMA PromptStep ==
    ASSUME TabInv, NEW a \in Asks, Prompt(a), UNCHANGED <<consoleVars, feedVars>>
    PROVE  TabInv'
<1>1. UNCHANGED <<backendVars, tabVars, history>> /\ asks[a] = "prompting"
  BY DEF Prompt
<1>2. PICK r \in {"ok", "cancelled", "error"} : End(a, r)
  BY DEF Prompt
<1>3. QED
  BY <1>1, <1>2, EndStep

LEMMA TopupPageStep ==
    ASSUME TabInv, InTopup(TopupPageNext)
    PROVE  TabInv'
BY HistoryStep, ButtonStep, AuthorizeStep, PrepareStep, PromptStep DEF InTopup, TopupPageNext

------------------------------------------------------------------------------
(* The monitors, and the turn from page to page.                           *)

FeedState == [list : 0..MaxEntries, figures : 0..MaxEntries, known : BOOLEAN, live : BOOLEAN]
Look == [at : {"none", "asked", "listed"}, list : Requests, figures : Requests]

LEMMA FeedStep ==
    ASSUME TabInv, InFeed(FeedNext)
    PROVE  TabInv'
<1>1. PICK k \in Looks : \/ PollOnce(k) \/ ServeList(k) \/ ServeFigures(k)
                         \/ ShowList(k) \/ ShowFigures(k) \/ PollThrows(k)
  BY DEF InFeed, FeedNext
<1>2. UNCHANGED <<backendVars, tabVars, consoleVars, topupVars>>
  BY <1>1 DEF InFeed, PollOnce, ServeList, ServeFigures, ShowList, ShowFigures, PollThrows
<1>3. feed \in FeedState /\ looks \in [Looks -> Look] /\ looks[k] \in Look
  BY DEF TabInv, TabTypeOK, FeedTypeOK, FeedState, Look
<1>4. /\ Served \in Requests /\ NoLook \in Look
      /\ looks[k].list.seen \in 0..MaxEntries /\ looks[k].figures.seen \in 0..MaxEntries
  <2>1. Served \in Requests /\ NoRequest \in Requests
    BY ServedTyped DEF TabInv, TabTypeOK
  <2>2. NoLook \in Look
    BY <2>1 DEF NoLook, Look
  <2>3. looks[k].list \in Requests /\ looks[k].figures \in Requests
    BY <1>3 DEF Look
  <2>4. QED
    BY <2>1, <2>2, <2>3 DEF Requests
<1>5. looks' \in [Looks -> Look]
  <2>1. /\ \A at \in {"asked", "listed"} : [looks[k] EXCEPT !.at = at] \in Look
        /\ [looks[k] EXCEPT !.list = Served] \in Look
        /\ [looks[k] EXCEPT !.figures = Served] \in Look
    BY <1>3, <1>4 DEF Look
  <2>2. PICK l \in Look : looks' = [looks EXCEPT ![k] = l]
    <3>1. CASE PollOnce(k)
      <4>1. looks' = [looks EXCEPT ![k] = [looks[k] EXCEPT !.at = "asked"]]
        BY <1>3, <3>1 DEF PollOnce
      <4>2. QED
        BY <2>1, <4>1
    <3>2. CASE ServeList(k)
      <4>1. looks' = [looks EXCEPT ![k] = [looks[k] EXCEPT !.list = Served]]
        BY <1>3, <3>2 DEF ServeList
      <4>2. QED
        BY <2>1, <4>1
    <3>3. CASE ServeFigures(k)
      <4>1. looks' = [looks EXCEPT ![k] = [looks[k] EXCEPT !.figures = Served]]
        BY <1>3, <3>3 DEF ServeFigures
      <4>2. QED
        BY <2>1, <4>1
    <3>4. CASE ShowList(k)
      <4>1. looks' = [looks EXCEPT ![k] = [looks[k] EXCEPT !.at = "listed"]]
        BY <1>3, <3>4 DEF ShowList
      <4>2. QED
        BY <2>1, <4>1
    <3>5. CASE ShowFigures(k) \/ PollThrows(k)
      BY <1>4, <3>5 DEF ShowFigures, PollThrows
    <3>6. QED
      BY <1>1, <3>1, <3>2, <3>3, <3>4, <3>5
  <2>3. QED
    BY <1>3, <2>2
<1>6. feed' \in FeedState
  <2>1. CASE feed' = feed
    BY <1>3, <2>1
  <2>2. CASE ShowList(k)
    <3>1. PICK n \in 0..MaxEntries : feed' = [feed EXCEPT !.list = n]
      BY <1>3, <1>4, <2>2 DEF ShowList, FeedState
    <3>2. QED
      BY <1>3, <3>1 DEF FeedState
  <2>3. CASE ShowFigures(k)
    <3>1. PICK known \in BOOLEAN : known = (feed.known \/ looks[k].figures.at = "answered")
      BY <1>3 DEF FeedState
    <3>2. PICK ok \in BOOLEAN :
              ok = (looks[k].list.at = "answered" /\ looks[k].figures.at = "answered")
      OBVIOUS
    <3>3. PICK n \in 0..MaxEntries :
              n = IF looks[k].figures.at = "answered" THEN looks[k].figures.seen ELSE feed.figures
      BY <1>3, <1>4 DEF FeedState
    <3>4. feed' = [feed EXCEPT !.figures = n, !.known = known, !.live = ok]
      BY <2>3, <3>1, <3>2, <3>3 DEF ShowFigures
    <3>5. QED
      BY <1>3, <3>4 DEF FeedState
  <2>4. CASE PollThrows(k)
    BY <1>3, <2>4 DEF PollThrows, FeedState
  <2>5. QED
    BY <1>1, <2>1, <2>2, <2>3, <2>4 DEF PollOnce, ServeList, ServeFigures
<1>7. /\ ledger' = ledger /\ up' = up /\ faults' = faults /\ page' = page /\ clicks' = clicks
      /\ load' = load /\ shell' = shell /\ panel' = panel /\ live' = live /\ polls' = polls
      /\ player' = player /\ reduced' = reduced /\ desk' = desk
      /\ history' = history /\ modal' = modal /\ asks' = asks
  BY <1>2 DEF backendVars, tabVars, consoleVars, topupVars
<1>8. TabTypeOK'
  BY <1>5, <1>6, <1>7 DEF TabInv, TabTypeOK, ConsoleTypeOK, TopupPageTypeOK, FeedTypeOK, FeedState,
                          Look, Now
<1>9. OutageInv' /\ PanelInv' /\ ToastWillGo'
  BY <1>7 DEF TabInv, OutageInv, PanelInv, ToastWillGo
<1>10. HistoryInv' /\ ModalInv'
  BY <1>7 DEF TabInv, HistoryInv, Now, Recent, ModalInv, UnderWay
<1>11. QED
  BY <1>8, <1>9, <1>10 DEF TabInv

PanelState == [merchant : {"api", "env"}, known : BOOLEAN, balance : 0..MaxEntries,
               items : 0..MaxEntries, banner : BOOLEAN]

(* What a render shows: all of a load, or a banner and nothing. *)
LEMMA ShownFacts ==
    ASSUME TabInv, load.to \in Pages, Rendered
    PROVE  /\ Shown \in PanelState /\ [Shown EXCEPT !.items = 0] \in PanelState
           /\ [Shown EXCEPT !.items = 0].items = 0
           /\ [Shown EXCEPT !.items = 0].known = Shown.known
           /\ [Shown EXCEPT !.items = 0].banner = Shown.banner
           /\ [Shown EXCEPT !.items = 0].merchant = Shown.merchant
           /\ load.to \in {"dashboard", "tokens"} =>
                 Shown.banner = ~Shown.known /\ (Shown.banner => Shown.items = 0)
           /\ load.to = "settings" /\ Shown.merchant = "env" => faults > 0
<1>1. /\ load.reads \in [Reads -> Requests] /\ OutageInv
      /\ \A r \in Reads : /\ load.reads[r].at \in {"none", "answered", "failed"}
                          /\ load.reads[r].seen \in 0..MaxEntries
  BY DEF TabInv, TabTypeOK, ConsoleTypeOK, Requests
<1>2. 0 \in 0..MaxEntries
  BY BackendAssumption
<1>3. Merchant \in {"api", "env"}
  BY DEF Merchant
<1>4. CASE Thrown
  <2>1. PICK b \in BOOLEAN : b = (load.to # "protocol")
    OBVIOUS
  <2>2. Shown = [NoPanel EXCEPT !.merchant = Merchant, !.banner = b]
    BY <1>4, <2>1 DEF Shown
  <2>3. /\ Shown \in PanelState /\ Shown.merchant = Merchant /\ Shown.banner = b
        /\ Shown.known = FALSE /\ Shown.items = 0
    BY <1>2, <1>3, <2>2 DEF NoPanel, PanelState
  <2>4. load.to # "settings"
    BY <1>4 DEF Thrown, Failed, Reading, Needs
  <2>5. QED
    BY <1>2, <2>1, <2>3, <2>4 DEF PanelState
<1>5. CASE ~Thrown
  <2>1. PICK known \in BOOLEAN : known = (load.reads["balance"].at = "answered")
    OBVIOUS
  <2>2. Shown = [merchant |-> Merchant, known |-> known, balance |-> load.reads["balance"].seen,
                 items |-> load.reads["activity"].seen, banner |-> FALSE]
    BY <1>5, <2>1 DEF Shown
  <2>3. /\ Shown \in PanelState /\ Shown.merchant = Merchant /\ Shown.banner = FALSE
        /\ Shown.known = known
    BY <1>1, <1>3, <2>2 DEF PanelState, Reads
  <2>4. load.to \in {"dashboard", "tokens"} => known
    <3>1. SUFFICES ASSUME load.to \in {"dashboard", "tokens"} PROVE known
      OBVIOUS
    <3>2. "balance" \in Reading /\ "balance" \in Reads
      BY <3>1 DEF Reading, Needs, Reads
    <3>3. load.reads["balance"].at # "none" /\ load.reads["balance"].at # "failed"
      BY <1>5, <3>2 DEF Rendered, Thrown, Failed
    <3>4. QED
      BY <1>1, <2>1, <3>2, <3>3
  <2>5. load.to = "settings" /\ Merchant = "env" => faults > 0
    <3>1. SUFFICES ASSUME load.to = "settings", Merchant = "env" PROVE faults > 0
      OBVIOUS
    <3>2. "profile" \in Reading /\ "profile" \in Reads
      BY <3>1 DEF Reading, Needs, Reads
    <3>3. load.reads["profile"].at # "none" /\ load.reads["profile"].at # "answered"
      BY <3>1, <3>2 DEF Rendered, Merchant
    <3>4. QED
      BY <1>1, <3>2, <3>3 DEF OutageInv
  <2>6. QED
    BY <1>2, <2>3, <2>4, <2>5 DEF PanelState
<1>6. QED
  BY <1>4, <1>5

(* A page that has just arrived. *)
LEMMA FreshPage ==
    ASSUME TabTypeOK
    PROVE  /\ NoDesk \in DeskState /\ NoDesk.toast = FALSE
           /\ NoPlayer \in Explorer /\ [NoPlayer EXCEPT !.playing = TRUE] \in Explorer
           /\ [k \in Polls |-> NoRequest] \in [Polls -> Requests]
           /\ \A b \in BOOLEAN :
                 /\ [NoHistory EXCEPT !.loading = b] \in
                        [loading : BOOLEAN, rows : 0..MaxEntries, mock : BOOLEAN]
                 /\ [NoHistory EXCEPT !.loading = b].rows = 0
           /\ NoHistory \in [loading : BOOLEAN, rows : 0..MaxEntries, mock : BOOLEAN]
           /\ NoHistory.rows = 0
           /\ NoModal \in Dialog /\ NoModal.phase = "idle" /\ NoModal.left = FALSE
           /\ NewFeed \in FeedState /\ [k \in Looks |-> NoLook] \in [Looks -> Look]
<1>1. NoRequest \in Requests
  BY ServedTyped DEF TabTypeOK
<1>2. 0 \in 0..MaxEntries /\ 0 \in 0..(Steps - 1)
  BY BackendAssumption, ConsoleAssumption
<1>3. NoDesk \in DeskState /\ NoDesk.toast = FALSE
  BY DEF NoDesk, DeskState
<1>4. NoPlayer \in Explorer /\ [NoPlayer EXCEPT !.playing = TRUE] \in Explorer
  BY <1>2 DEF NoPlayer, Explorer
<1>5. NewFeed \in FeedState /\ NoLook \in Look
  BY <1>1, <1>2 DEF NewFeed, FeedState, NoLook, Look
<1>6. NoModal \in Dialog /\ NoModal.phase = "idle" /\ NoModal.left = FALSE
  BY DEF NoModal, Dialog, Notices
<1>7. QED
  BY <1>1, <1>2, <1>3, <1>4, <1>5, <1>6 DEF NoHistory

(* Nothing is asked, shown or filled on a page that has just arrived. *)
LEMMA FreshInv ==
    ASSUME TabTypeOK, desk' = NoDesk, asks' = [a \in Asks |-> "none"], modal' = NoModal,
           history'.rows = 0, ledger' = ledger
    PROVE  HistoryInv' /\ ModalInv' /\ ToastWillGo'
<1>1. HistoryInv'
  BY DEF HistoryInv, Now, TabTypeOK
<1>2. ModalInv'
  <2>1. UnderWay' = {}
    BY DEF UnderWay
  <2>2. QED
    BY <2>1, FreshPage DEF ModalInv
<1>3. ToastWillGo'
  BY FreshPage DEF ToastWillGo
<1>4. QED
  BY <1>1, <1>2, <1>3

LEMMA TurnStep ==
    ASSUME TabInv, Turn
    PROVE  TabInv'
<1>1. /\ load.to # "none" /\ Rendered /\ page' = load.to /\ load' = NoLoad /\ shell' = Shell
      /\ panel' = IF load.to = "tokens" THEN Shown ELSE [Shown EXCEPT !.items = 0]
      /\ live' = [items |-> Shown.items, paid |-> load.to = "protocol"]
      /\ polls' = [k \in Polls |-> NoRequest] /\ desk' = NoDesk
      /\ UNCHANGED <<backendVars, clicks>>
      /\ modal' = NoModal /\ asks' = [a \in Asks |-> "none"]
      /\ feed' = NewFeed /\ looks' = [k \in Looks |-> NoLook]
  BY DEF Turn, Arrive, TopupArrives, FeedArrives
<1>2. /\ TabTypeOK /\ load.to \in Pages /\ OutageInv
      /\ shell \in {"none", "operational", "degraded"}
  BY <1>1 DEF TabInv, TabTypeOK, ConsoleTypeOK
<1>3. ledger' = ledger /\ up' = up /\ faults' = faults /\ clicks' = clicks
  BY <1>1 DEF backendVars
<1>4. /\ Shown \in PanelState /\ panel' \in PanelState
      /\ load.to \in {"dashboard", "tokens"} =>
            panel'.banner = ~panel'.known /\ (panel'.banner => panel'.items = 0)
      /\ load.to = "settings" /\ panel'.merchant = "env" => faults > 0
  BY <1>1, <1>2, ShownFacts
<1>5. live' \in [items : 0..MaxEntries, paid : BOOLEAN]
  <2>1. PICK b \in BOOLEAN : b = (load.to = "protocol")
    OBVIOUS
  <2>2. live' = [items |-> Shown.items, paid |-> b]
    BY <1>1, <2>1
  <2>3. QED
    BY <1>4, <2>2 DEF PanelState
<1>6. player' \in Explorer /\ reduced' \in BOOLEAN
  <2>1. CASE load.to = "protocol"
    <3>1. PICK still \in BOOLEAN : /\ reduced' = still
                                   /\ player' = Effect([NoPlayer EXCEPT !.playing = TRUE], still)
      BY <2>1 DEF Turn, Arrive
    <3>2. QED
      BY <1>2, <3>1, FreshPage, EffectTyped
  <2>2. CASE load.to # "protocol"
    BY <1>2, <2>2, FreshPage DEF Turn, Arrive
  <2>3. QED
    BY <2>1, <2>2
<1>7. shell' \in {"none", "operational", "degraded"}
  BY <1>1, <1>2 DEF Shell
<1>8. /\ history' \in [loading : BOOLEAN, rows : 0..MaxEntries, mock : BOOLEAN]
      /\ history'.rows = 0
  BY <1>2, FreshPage DEF Turn, TopupArrives
<1>9. load' \in Load /\ \A r \in Reads : load'.reads[r].at = "none"
  BY <1>1, <1>2, NoLoadFacts
<1>10. ConsoleTypeOK'
  BY <1>1, <1>2, <1>4, <1>5, <1>6, <1>7, <1>9, FreshPage
     DEF ConsoleTypeOK, Load, PanelState, Explorer, DeskState
<1>11. TopupPageTypeOK' /\ FeedTypeOK'
  <2>1. [a \in Asks |-> "none"] \in [Asks -> Runs]
    BY DEF Runs
  <2>2. QED
    BY <1>1, <1>2, <1>8, <2>1, FreshPage
       DEF TopupPageTypeOK, FeedTypeOK, Dialog, Notices, Runs, FeedState, Look
<1>12. TabTypeOK'
  BY <1>1, <1>2, <1>3, <1>10, <1>11 DEF TabTypeOK, Now
<1>13. OutageInv' /\ PanelInv'
  BY <1>1, <1>2, <1>3, <1>4, <1>9 DEF OutageInv, PanelInv
<1>14. HistoryInv' /\ ModalInv' /\ ToastWillGo'
  BY <1>1, <1>2, <1>3, <1>8, FreshInv
<1>15. QED
  BY <1>12, <1>13, <1>14 DEF TabInv

------------------------------------------------------------------------------
(* The invariant, and the properties.                                      *)

LEMMA InitInv == TabInit => TabInv
<1> SUFFICES ASSUME TabInit PROVE TabInv
  OBVIOUS
<1>1. 0 \in 0..MaxEntries /\ 0 \in 0..MaxFaults /\ 0 \in 0..MaxClicks /\ 0 \in 0..(Steps - 1)
  BY BackendAssumption, ConsoleAssumption
<1>2. ledger = <<>> /\ up = TRUE /\ faults = 0 /\ page = "blank" /\ clicks = 0
  BY DEF TabInit, BackendInit
<1>3. /\ load = NoLoad /\ shell = "none" /\ panel = NoPanel /\ live = NoTicker
      /\ polls = [k \in Polls |-> NoRequest] /\ player = NoPlayer /\ reduced = FALSE
      /\ desk = NoDesk
  BY DEF TabInit, ConsoleInit
<1>4. /\ history = NoHistory /\ modal = NoModal /\ asks = [a \in Asks |-> "none"]
      /\ feed = NewFeed /\ looks = [k \in Looks |-> NoLook]
  BY DEF TabInit, TopupPageInit, FeedInit
<1>5. ledger \in Seq({"credit", "debit"}) /\ Now = 0 /\ Now <= MaxEntries
  BY <1>2, BackendAssumption DEF Now
<1>6. NoRequest \in Requests /\ NoRequest.at = "none"
  BY <1>5, ServedTyped
<1>7. ConsoleTypeOK
  <2>1. NoLoad \in Load
    BY <1>6 DEF NoLoad, Load
  <2>2. NoPanel \in PanelState /\ NoTicker \in [items : 0..MaxEntries, paid : BOOLEAN]
    BY <1>1 DEF NoPanel, PanelState, NoTicker
  <2>3. NoPlayer \in Explorer /\ NoDesk \in DeskState
    BY <1>1 DEF NoPlayer, Explorer, NoDesk, DeskState
  <2>4. QED
    BY <1>3, <1>6, <2>1, <2>2, <2>3 DEF ConsoleTypeOK, Load, PanelState, Explorer, DeskState
<1>8. TopupPageTypeOK /\ FeedTypeOK
  <2>1. NoHistory \in [loading : BOOLEAN, rows : 0..MaxEntries, mock : BOOLEAN]
    BY <1>1 DEF NoHistory
  <2>2. NoModal \in Dialog /\ NewFeed \in FeedState /\ NoLook \in Look
    BY <1>1, <1>6 DEF NoModal, Dialog, Notices, NewFeed, FeedState, NoLook, Look
  <2>3. QED
    BY <1>4, <2>1, <2>2 DEF TopupPageTypeOK, FeedTypeOK, Dialog, Notices, FeedState, Look
<1>9. TabTypeOK
  BY <1>1, <1>2, <1>5, <1>7, <1>8 DEF TabTypeOK, Pages
<1>10. OutageInv /\ PanelInv
  BY <1>2, <1>3, <1>6 DEF OutageInv, PanelInv, NoLoad
<1>11. HistoryInv /\ ModalInv /\ ToastWillGo
  BY <1>3, <1>4, <1>5 DEF HistoryInv, NoHistory, ModalInv, NoModal, UnderWay, ToastWillGo, NoDesk
<1>12. QED
  BY <1>9, <1>10, <1>11 DEF TabInv

LEMMA StepInv == TabInv /\ [TabNext]_vars => TabInv'
<1> SUFFICES ASSUME TabInv, [TabNext]_vars PROVE TabInv'
  OBVIOUS
<1>1. CASE BackendNext /\ UNCHANGED <<tabVars, consoleVars, topupVars, feedVars>>
  BY <1>1, BackendStep
<1>2. CASE UNCHANGED vars
  <2>1. /\ UNCHANGED <<backendVars, tabVars, consoleVars, topupVars, feedVars>>
        /\ page' = page /\ clicks' = clicks
        /\ load' = load /\ shell' = shell /\ panel' = panel /\ live' = live /\ polls' = polls
        /\ player' = player /\ reduced' = reduced /\ desk' = desk
    BY <1>2 DEF vars, tabVars, consoleVars
  <2>2. ConsoleTypeOK' /\ ToastWillGo' /\ clicks' \in 0..MaxClicks
    BY <2>1 DEF TabInv, TabTypeOK, ConsoleTypeOK, ToastWillGo
  <2>3. QED
    BY <2>1, <2>2, ShownStep
<1>3. QED
  BY <1>1, <1>2, ConsoleStep, TopupPageStep, FeedStep, TurnStep DEF TabNext

(* The inductive invariant: types, outages against what failed, a panel    *)
(* against its load, a history against the ledger, the dialog against its  *)
(* runs, the toast against its timers.                                     *)
THEOREM TabInvariant == TabSpec => []TabInv
<1>1. TabInit => TabInv
  BY InitInv
<1>2. TabInv /\ [TabNext]_vars => TabInv'
  BY StepInv
<1>3. QED
  BY <1>1, <1>2, PTL DEF TabSpec

(* A toast on screen has a timer that takes it away, however many resends  *)
(* share it and whenever it was dismissed.                                 *)
THEOREM ToastsGo == TabSpec => []ToastWillGo
<1>1. TabInv => ToastWillGo
  BY DEF TabInv
<1>2. QED
  BY <1>1, TabInvariant, PTL

(* The dialog waits only for a run that is under way or has thrown, and    *)
(* until it was closed on one there is exactly one while it waits.         *)
THEOREM DialogsTellTheTruth == TabSpec => []ModalTellsTheTruth
<1>1. TabInv => ModalTellsTheTruth
  <2> SUFFICES ASSUME TabInv PROVE ModalTellsTheTruth
    OBVIOUS
  <2>1. ModalInv
    BY DEF TabInv
  <2>2. ASSUME \A a, b \in UnderWay : a = b
        PROVE  Cardinality(UnderWay) <= 1
    <3>1. CASE UnderWay = {}
      BY <3>1, FS_EmptySet
    <3>2. CASE UnderWay # {}
      <4>1. PICK a : UnderWay = {a}
        BY <2>2, <3>2
      <4>2. Cardinality({a}) = 1
        BY FS_Singleton
      <4>3. QED
        BY <4>1, <4>2
    <3>3. QED
      BY <3>1, <3>2
  <2>3. QED
    BY <2>1, <2>2 DEF ModalInv, ModalTellsTheTruth
<1>2. QED
  BY <1>1, TabInvariant, PTL

(* A page shows what one load brought: a balance with its entries or a     *)
(* banner without, the merchant of the environment only after an outage;   *)
(* and a history that had rows keeps having some.                          *)
THEOREM PagesShowOneLoad == TabSpec => []PanelsOfOneLoad
<1>1. TabInv => PanelsOfOneLoad
  <2> SUFFICES ASSUME TabInv PROVE PanelsOfOneLoad
    OBVIOUS
  <2>1. PanelInv /\ HistoryInv /\ panel.known \in BOOLEAN /\ panel.banner \in BOOLEAN
    BY DEF TabInv, TabTypeOK, ConsoleTypeOK
  <2>2. page \in {"dashboard", "tokens"} => (panel.banner <=> Kpi = [dash |-> TRUE])
    <3>1. [shown |-> panel.balance] # [dash |-> TRUE]
      <4>1. DOMAIN [shown |-> panel.balance] = {"shown"} /\ DOMAIN [dash |-> TRUE] = {"dash"}
        OBVIOUS
      <4>2. QED
        BY <4>1
    <3>2. QED
      BY <2>1, <3>1 DEF PanelInv, Kpi
  <2>3. page \in {"dashboard", "tokens"} => (panel.banner => LedgerTable = <<"nothing">>)
    <3>1. SUFFICES ASSUME panel.items = 0 PROVE LedgerTable = <<"nothing">>
      BY <2>1 DEF PanelInv
    <3>2. Limit["tokens"] \in Nat
      BY ConsoleAssumption
    <3>3. Recent(0, Limit["tokens"]) = SubSeq(ledger, 1, 0)
      BY <3>2 DEF Recent
    <3>4. Recent(panel.items, Limit["tokens"]) = <<>>
      BY <3>1, <3>3, SubSeqEmpty
    <3>5. QED
      BY <3>4 DEF LedgerTable, DataTable
  <2>4. Account = "env" => faults > 0
    BY <2>1 DEF PanelInv, Account, SettingsTab
  <2>5. history.mock \/ history.rows > 0 => HistoryTable # [note |-> "none yet"]
    <3>1. SUFFICES ASSUME history.mock \/ history.rows > 0
                   PROVE  HistoryTable # [note |-> "none yet"]
      OBVIOUS
    <3>2. Rows # <<>>
      BY <2>1, <3>1 DEF Rows, MadeUp, HistoryInv
    <3>3. [note |-> "loading"] # [note |-> "none yet"]
      OBVIOUS
    <3>4. [rows |-> Rows] # [note |-> "none yet"]
      <4>1. DOMAIN [rows |-> Rows] = {"rows"} /\ DOMAIN [note |-> "none yet"] = {"note"}
        OBVIOUS
      <4>2. QED
        BY <4>1
    <3>5. QED
      BY <3>2, <3>3, <3>4 DEF HistoryTable
  <2>6. QED
    BY <2>2, <2>3, <2>4, <2>5 DEF PanelsOfOneLoad
<1>2. QED
  BY <1>1, TabInvariant, PTL
==============================================================================
