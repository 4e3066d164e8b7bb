--------------------------- MODULE HabaTopupProofs ---------------------------
(***************************************************************************)
(* Proofs about HabaTopup, for any number of dashboards, orders, agent     *)
(* runs and lost requests: the banner of a finished top-up tells the       *)
(* truth, a shut gate means a top-up that failed, a page has one top-up    *)
(* under way at a time, and a credited order is not credited again.        *)
(***************************************************************************)
EXTENDS HabaTopup, FiniteSetTheorems, TLAPS

Dashboard == [balance : Balances, err : BOOLEAN, running : BOOLEAN,
              mode : {"none", "x402", "direct"}, steps : {"pending", "active", "done", "error"},
              fired : BOOLEAN, call : Orders \cup {NoOrder}]
FetchState == [at : {"none", "sent", "answered", "failed"}, value : Balances]
AgentState == [at : {"none", "sent", "typing"}, after : Balances]
RouteState == [at : {"none", "received", "created", "signed", "fallback", "answered", "gone"},
               ok : BOOLEAN, mode : {"x402", "direct"}, steps : {"done", "error"}]
Stages == {"absent", "open", "taken", "settled", "closed"}
Postings == {"none", "called", "selected", "done", "failed"}

TypeInv ==
    /\ ui \in [Tabs -> Dashboard]
    /\ fetches \in [Tabs -> [Slots -> FetchState]]
    /\ agent \in [Tabs -> AgentState]
    /\ route \in [Orders -> RouteState]
    /\ stage \in [Orders -> Stages]
    /\ ledger \in Nat
    /\ entries \in [Orders -> Nat]
    /\ posting \in [Callers -> [Orders -> Postings]]
    /\ faults \in Nat

(* What a mode promises of the order it speaks of. *)
Holds(mode, o) ==
    /\ mode = "x402" => stage[o] \notin {"absent", "open"}
    /\ mode = "direct" => entries[o] > 0

(* A page that tops up has its gate shut; one that does not has it shut    *)
(* only after a failure; the refresh belongs to a top-up that worked.      *)
PageInv(t) ==
    /\ ui[t].running => ui[t].fired
    /\ ui[t].fired /\ ~ui[t].running => ui[t].mode = "none" /\ ui[t].steps = "error"
    /\ ui[t].mode # "none" => ui[t].call \in Orders /\ Holds(ui[t].mode, ui[t].call)
    /\ fetches[t]["topup"].at # "none" => ui[t].running /\ ui[t].mode # "none"

(* What the route will answer, and why its credit call came to an end. *)
RouteInv(o) ==
    /\ route[o].at = "answered" =>
           IF route[o].ok THEN Holds(route[o].mode, o) ELSE route[o].steps = "error"
    /\ posting["route"][o] = "done" => entries[o] > 0

(* Top-up requests under way, and those no page waits for. *)
UnderWay == {o \in Orders : route[o].at \notin {"none", "answered", "gone"}}
Awaited == {o \in Orders : \E t \in Tabs : ui[t].call = o /\ ui[t].running /\ ui[t].mode = "none"}
Orphans == UnderWay \ Awaited

OrphanInv == IsFiniteSet(Orphans) /\ Cardinality(Orphans) <= faults

TopupInv ==
    /\ TypeInv
    /\ \A t \in Tabs : PageInv(t)
    /\ \A o \in Orders : RouteInv(o)
    /\ OrphanInv

------------------------------------------------------------------------------
(* What no step takes back.                                                *)

Live(at) == at \notin {"none", "answered", "gone"}

(* An order that was taken stays so, and a credit stays in the ledger. *)
Stays ==
    \A o \in Orders : /\ stage[o] \notin {"absent", "open"} => stage'[o] \notin {"absent", "open"}
                      /\ entries[o] > 0 => entries'[o] > 0

LEMMA PageKept ==
    ASSUME TypeInv, Stays, NEW t \in Tabs, PageInv(t), ui'[t] = ui[t],
           fetches'[t]["topup"].at # "none" => fetches[t]["topup"].at # "none"
    PROVE  PageInv(t)'
BY DEF PageInv, Stays, Holds

LEMMA RouteKept ==
    ASSUME TypeInv, Stays, NEW o \in Orders, RouteInv(o), route'[o] = route[o],
           posting'["route"][o] = posting["route"][o]
    PROVE  RouteInv(o)'
<1>1. route[o].mode \in {"x402", "direct"}
  BY DEF TypeInv, RouteState
<1>2. QED
  BY <1>1 DEF RouteInv, Stays, Holds

LEMMA OrphansFewer ==
    ASSUME TypeInv, OrphanInv, Orphans' \subseteq Orphans, faults' \in {faults, faults + 1}
    PROVE  OrphanInv'
<1>1. IsFiniteSet(Orphans') /\ Cardinality(Orphans') <= Cardinality(Orphans)
  BY FS_Subset DEF OrphanInv
<1>2. Cardinality(Orphans) \in Nat /\ Cardinality(Orphans') \in Nat
  BY <1>1, FS_CardinalityType DEF OrphanInv
<1>3. QED
  BY <1>1, <1>2 DEF OrphanInv, TypeInv

LEMMA OrphansOneMore ==
    ASSUME TypeInv, OrphanInv, NEW o, Orphans' \subseteq Orphans \cup {o}, faults' = faults + 1
    PROVE  OrphanInv'
<1>1. /\ IsFiniteSet(Orphans \cup {o}) /\ Cardinality(Orphans) \in Nat
      /\ Cardinality(Orphans \cup {o}) <= Cardinality(Orphans) + 1
  <2>1. IsFiniteSet(Orphans) /\ Cardinality(Orphans) \in Nat
    BY FS_CardinalityType DEF OrphanInv
  <2>2. QED
    BY <2>1, FS_AddElement
<1>2. IsFiniteSet(Orphans') /\ Cardinality(Orphans') <= Cardinality(Orphans \cup {o})
  BY <1>1, FS_Subset
<1>3. Cardinality(Orphans \cup {o}) \in Nat /\ Cardinality(Orphans') \in Nat
  BY <1>1, <1>2, FS_CardinalityType
<1>4. QED
  BY <1>1, <1>2, <1>3 DEF OrphanInv, TypeInv

(* Requests that are no more under way than they were, with pages as they  *)
(* were.                                                                   *)
LEMMA OrphansQuiet ==
    ASSUME ui' = ui, \A o \in Orders : Live(route'[o].at) => Live(route[o].at)
    PROVE  Orphans' \subseteq Orphans
BY DEF Orphans, UnderWay, Awaited, Live

------------------------------------------------------------------------------
(* Steps of the route, of the ledger and of the gateway.                   *)

LEMMA StepFacts ==
    ASSUME TypeInv, NEW o \in Orders, NEW s \in {"done", "error"},
           NEW at \in {"received", "created", "signed", "fallback"}, Step(o, at, s)
    PROVE  /\ route' \in [Orders -> RouteState]
           /\ \A p \in Orders \ {o} : route'[p] = route[p]
           /\ route'[o].at = at
<1>1. route[o] \in RouteState /\ Worst(route[o].steps, s) \in {"done", "error"}
  BY DEF TypeInv, Worst
<1>2. /\ route'[o] = [route[o] EXCEPT !.at = at, !.steps = Worst(route[o].steps, s)]
      /\ \A p \in Orders \ {o} : route'[p] = route[p]
      /\ route' = [route EXCEPT ![o] = route'[o]]
  BY <1>1 DEF Step, TypeInv, RouteState
<1>3. route'[o] \in RouteState /\ route'[o].at = at
  BY <1>1, <1>2 DEF RouteState
<1>4. QED
  BY <1>2, <1>3 DEF TypeInv

LEMMA AnswerFacts ==
    ASSUME TypeInv, NEW o \in Orders, NEW ok \in BOOLEAN, NEW mode \in {"x402", "direct"},
           NEW s \in {"done", "error"}, Answer(o, ok, mode, s)
    PROVE  /\ route' \in [Orders -> RouteState]
           /\ \A p \in Orders \ {o} : route'[p] = route[p]
           /\ route'[o].at \in {"answered", "gone"}
           /\ route'[o].at = "answered" =>
                 /\ route'[o].ok = ok /\ route'[o].mode = mode
                 /\ s = "error" => route'[o].steps = "error"
<1> DEFINE told == [at |-> "answered", ok |-> ok, mode |-> mode, steps |-> Worst(route[o].steps, s)]
<1>1. /\ route[o] \in RouteState /\ Worst(route[o].steps, s) \in {"done", "error"}
      /\ s = "error" => Worst(route[o].steps, s) = "error"
  BY DEF TypeInv, Worst
<1>2. told \in RouteState /\ Forgotten \in RouteState /\ Forgotten.at = "gone"
  BY <1>1 DEF RouteState, Forgotten, NoCall
<1>3. told.at = "answered" /\ told.ok = ok /\ told.mode = mode /\ (s = "error" => told.steps = "error")
  BY <1>1
<1>4. route' = [route EXCEPT ![o] = told] \/ route' = [route EXCEPT ![o] = Forgotten]
  BY DEF Answer
<1> HIDE DEF told
<1>5. CASE route' = [route EXCEPT ![o] = told]
  BY <1>2, <1>3, <1>5 DEF TypeInv
<1>6. CASE route' = [route EXCEPT ![o] = Forgotten]
  BY <1>2, <1>6 DEF TypeInv
<1>7. QED
  BY <1>4, <1>5, <1>6

LEMMA OpenStage ==
    ASSUME TypeInv, NEW o \in Orders, Open(o)
    PROVE  stage' \in [Orders -> Stages] /\ \A p \in Orders :
               stage[p] \notin {"absent", "open"} => stage'[p] \notin {"absent", "open"}
BY DEF TypeInv, Open, Move, Stages

LEMMA TakeStage ==
    ASSUME TypeInv, NEW o \in Orders, Take(o)
    PROVE  /\ stage' \in [Orders -> Stages] /\ stage'[o] = "taken"
           /\ \A p \in Orders : stage[p] \notin {"absent", "open"} => stage'[p] \notin {"absent", "open"}
BY DEF TypeInv, Take, Move, Stages

LEMMA CloseStage ==
    ASSUME TypeInv, NEW o \in Orders, Close(o)
    PROVE  stage' \in [Orders -> Stages] /\ \A p \in Orders :
               stage[p] \notin {"absent", "open"} => stage'[p] \notin {"absent", "open"}
BY DEF TypeInv, Close, Move, Stages

(* A step of the route for one order under way. *)
LEMMA RouteStep ==
    ASSUME TopupInv, NEW o \in Orders, Live(route[o].at), TypeInv', Stays,
           \A p \in Orders \ {o} : /\ route'[p] = route[p]
                                   /\ posting'["route"][p] = posting["route"][p],
           RouteInv(o)', ui' = ui, fetches' = fetches, faults' = faults
    PROVE  TopupInv'
<1>1. \A p \in Orders : RouteInv(p)'
  <2> TAKE p \in Orders
  <2>1. CASE p = o
    BY <2>1
  <2>2. CASE p # o
    BY <2>2, RouteKept DEF TopupInv
  <2>3. QED
    BY <2>1, <2>2
<1>2. \A t \in Tabs : PageInv(t)'
  BY PageKept DEF TopupInv
<1>3. OrphanInv'
  <2>1. Orphans' \subseteq Orphans
    BY OrphansQuiet
  <2>2. QED
    BY <2>1, OrphansFewer DEF TopupInv
<1>4. QED
  BY <1>1, <1>2, <1>3 DEF TopupInv

LEMMA CreateOrderStep ==
    ASSUME TopupInv, NEW o \in Orders, CreateOrder(o)
    PROVE  TopupInv'
<1>1. /\ TypeInv /\ RouteInv(o) /\ Live(route[o].at)
      /\ ledger' = ledger /\ entries' = entries /\ posting' = posting
      /\ ui' = ui /\ fetches' = fetches /\ agent' = agent /\ faults' = faults
  BY DEF TopupInv, CreateOrder, bookVars, Live
<1>2. Open(o) \/ stage' = stage
  BY DEF CreateOrder, lifecycleVars
<1>3. stage' \in [Orders -> Stages] /\ Stays
  BY <1>1, <1>2, OpenStage DEF Stays, TypeInv
<1>4. /\ route' \in [Orders -> RouteState]
      /\ \A p \in Orders \ {o} : route'[p] = route[p]
      /\ route'[o].at = "answered" => ~route'[o].ok /\ route'[o].steps = "error"
  <2>1. CASE Step(o, "created", "done")
    BY <1>1, <2>1, StepFacts
  <2>2. CASE Answer(o, FALSE, "direct", "error")
    BY <1>1, <2>2, AnswerFacts
  <2>3. QED
    BY <2>1, <2>2 DEF CreateOrder
<1>5. TypeInv'
  BY <1>1, <1>3, <1>4 DEF TypeInv
<1>6. RouteInv(o)'
  BY <1>1, <1>4 DEF RouteInv
<1>7. QED
  BY <1>1, <1>3, <1>4, <1>5, <1>6, RouteStep

LEMMA FallBackFacts ==
    ASSUME TypeInv, NEW o \in Orders, NEW s \in {"done", "error"}, FallBack(o, s)
    PROVE  /\ route' \in [Orders -> RouteState]
           /\ posting' \in [Callers -> [Orders -> Postings]]
           /\ \A p \in Orders \ {o} : /\ route'[p] = route[p]
                                      /\ posting'["route"][p] = posting["route"][p]
           /\ route'[o].at = "fallback" /\ posting'["route"][o] = "called"
           /\ ledger' = ledger /\ entries' = entries
<1>1. /\ route' \in [Orders -> RouteState]
      /\ \A p \in Orders \ {o} : route'[p] = route[p]
      /\ route'[o].at = "fallback"
  BY StepFacts DEF FallBack
<1>2. /\ posting' \in [Callers -> [Orders -> Postings]]
      /\ posting'["route"][o] = "called"
      /\ \A p \in Orders \ {o} : posting'["route"][p] = posting["route"][p]
  BY DEF FallBack, TypeInv, Callers, Postings
<1>3. QED
  BY <1>1, <1>2 DEF FallBack

LEMMA SignStep ==
    ASSUME TopupInv, NEW o \in Orders, Sign(o)
    PROVE  TopupInv'
<1>1. /\ TypeInv /\ RouteInv(o) /\ Live(route[o].at)
      /\ stage' = stage
      /\ ui' = ui /\ fetches' = fetches /\ agent' = agent /\ faults' = faults
  BY DEF TopupInv, Sign, lifecycleVars, Live
<1>2. CASE Step(o, "signed", "done") /\ UNCHANGED bookVars
  <2>1. ledger' = ledger /\ entries' = entries /\ posting' = posting
    BY <1>2 DEF bookVars
  <2>2. /\ route' \in [Orders -> RouteState]
        /\ \A p \in Orders \ {o} : route'[p] = route[p]
        /\ route'[o].at = "signed"
    BY <1>1, <1>2, StepFacts
  <2>3. TypeInv' /\ Stays
    BY <1>1, <2>1, <2>2 DEF TypeInv, Stays
  <2>4. RouteInv(o)'
    BY <1>1, <2>1, <2>2 DEF RouteInv
  <2>5. QED
    BY <1>1, <2>1, <2>2, <2>3, <2>4, RouteStep
<1>3. ASSUME NEW s \in {"done", "error"}, FallBack(o, s)
      PROVE  TopupInv'
  <2>1. /\ route' \in [Orders -> RouteState]
        /\ posting' \in [Callers -> [Orders -> Postings]]
        /\ \A p \in Orders \ {o} : /\ route'[p] = route[p]
                                   /\ posting'["route"][p] = posting["route"][p]
        /\ route'[o].at = "fallback" /\ posting'["route"][o] = "called"
        /\ ledger' = ledger /\ entries' = entries
    BY <1>1, <1>3, FallBackFacts
  <2>2. TypeInv' /\ Stays
    BY <1>1, <2>1 DEF TypeInv, Stays
  <2>3. RouteInv(o)'
    BY <2>1 DEF RouteInv
  <2>4. QED
    BY <1>1, <2>1, <2>2, <2>3, RouteStep
<1>4. QED
  BY <1>2, <1>3 DEF Sign

LEMMA SubmitProofStep ==
    ASSUME TopupInv, NEW o \in Orders, SubmitProof(o)
    PROVE  TopupInv'
<1>1. /\ TypeInv /\ RouteInv(o) /\ Live(route[o].at)
      /\ ui' = ui /\ fetches' = fetches /\ agent' = agent /\ faults' = faults
  BY DEF TopupInv, SubmitProof, Live
<1>2. /\ stage' \in [Orders -> Stages]
      /\ \A p \in Orders : stage[p] \notin {"absent", "open"} => stage'[p] \notin {"absent", "open"}
  <2>1. Take(o) \/ Close(o) \/ stage' = stage
    BY DEF SubmitProof, lifecycleVars
  <2>2. QED
    BY <1>1, <2>1, TakeStage, CloseStage DEF TypeInv
<1>3. CASE Take(o) /\ Answer(o, TRUE, "x402", "done") /\ UNCHANGED bookVars
  <2>1. ledger' = ledger /\ entries' = entries /\ posting' = posting
    BY <1>3 DEF bookVars
  <2>2. /\ route' \in [Orders -> RouteState]
        /\ \A p \in Orders \ {o} : route'[p] = route[p]
        /\ route'[o].at \in {"answered", "gone"}
        /\ route'[o].at = "answered" => route'[o].ok /\ route'[o].mode = "x402"
    BY <1>1, <1>3, AnswerFacts
  <2>3. stage'[o] = "taken"
    BY <1>1, <1>3, TakeStage
  <2>4. TypeInv' /\ Stays
    BY <1>1, <1>2, <2>1, <2>2 DEF TypeInv, Stays
  <2>5. RouteInv(o)'
    BY <1>1, <2>1, <2>2, <2>3 DEF RouteInv, Holds
  <2>6. QED
    BY <1>1, <2>1, <2>2, <2>4, <2>5, RouteStep
<1>4. CASE FallBack(o, "error")
  <2>1. /\ route' \in [Orders -> RouteState]
        /\ posting' \in [Callers -> [Orders -> Postings]]
        /\ \A p \in Orders \ {o} : /\ route'[p] = route[p]
                                   /\ posting'["route"][p] = posting["route"][p]
        /\ route'[o].at = "fallback" /\ posting'["route"][o] = "called"
        /\ ledger' = ledger /\ entries' = entries
    BY <1>1, <1>4, FallBackFacts
  <2>2. TypeInv' /\ Stays
    BY <1>1, <1>2, <2>1 DEF TypeInv, Stays
  <2>3. RouteInv(o)'
    BY <2>1 DEF RouteInv
  <2>4. QED
    BY <1>1, <2>1, <2>2, <2>3, RouteStep
<1>5. QED
  BY <1>3, <1>4 DEF SubmitProof

LEMMA DemoCreditAnsweredStep ==
    ASSUME TopupInv, NEW o \in Orders, DemoCreditAnswered(o)
    PROVE  TopupInv'
<1>1. /\ TypeInv /\ RouteInv(o) /\ Live(route[o].at)
      /\ stage' = stage /\ ledger' = ledger /\ entries' = entries /\ posting' = posting
      /\ ui' = ui /\ fetches' = fetches /\ agent' = agent /\ faults' = faults
  BY DEF TopupInv, DemoCreditAnswered, lifecycleVars, bookVars, Live
<1>2. /\ route' \in [Orders -> RouteState]
      /\ \A p \in Orders \ {o} : route'[p] = route[p]
      /\ route'[o].at = "answered" =>
            IF route'[o].ok THEN route'[o].mode = "direct" /\ entries[o] > 0
            ELSE route'[o].steps = "error"
  <2>1. CASE posting["route"][o] = "done" /\ Answer(o, TRUE, "direct", "done")
    <3>1. entries[o] > 0
      BY <1>1, <2>1 DEF RouteInv
    <3>2. QED
      BY <1>1, <2>1, <3>1, AnswerFacts
  <2>2. CASE Answer(o, FALSE, "direct", "error")
    BY <1>1, <2>2, AnswerFacts
  <2>3. QED
    BY <2>1, <2>2 DEF DemoCreditAnswered
<1>3. TypeInv' /\ Stays
  BY <1>1, <1>2 DEF TypeInv, Stays
<1>4. RouteInv(o)'
  BY <1>1, <1>2 DEF RouteInv, Holds
<1>5. QED
  BY <1>1, <1>2, <1>3, <1>4, RouteStep

(* A step that leaves the pages and the requests alone. *)
LEMMA ServiceStep ==
    ASSUME TopupInv, TypeInv', Stays, ui' = ui, route' = route,
           \A t \in Tabs : fetches'[t]["topup"].at # "none" => fetches[t]["topup"].at # "none",
           \A p \in Orders : posting'["route"][p] = "done" =>
               posting["route"][p] = "done" \/ entries'[p] > 0,
           faults' \in {faults, faults + 1}
    PROVE  TopupInv'
<1>1. ASSUME NEW o \in Orders
      PROVE  RouteInv(o)'
  <2>1. RouteInv(o) /\ route[o].mode \in {"x402", "direct"}
    BY DEF TopupInv, TypeInv, RouteState
  <2>2. QED
    BY <2>1 DEF RouteInv, Stays, Holds
<1>2. \A t \in Tabs : PageInv(t)'
  BY PageKept DEF TopupInv
<1>3. OrphanInv'
  <2>1. Orphans' \subseteq Orphans
    BY OrphansQuiet
  <2>2. QED
    BY <2>1, OrphansFewer DEF TopupInv
<1>4. QED
  BY <1>1, <1>2, <1>3 DEF TopupInv

LEMMA CreditSelectStep ==
    ASSUME TopupInv, NEW w \in Callers, NEW o \in Orders, CreditSelect(w, o)
    PROVE  TopupInv'
<1>1. /\ TypeInv /\ stage' = stage /\ ledger' = ledger /\ entries' = entries
      /\ ui' = ui /\ fetches' = fetches /\ agent' = agent /\ route' = route /\ faults' = faults
  BY DEF TopupInv, CreditSelect, lifecycleVars
<1>2. PICK x \in Postings : /\ posting' = [posting EXCEPT ![w][o] = x]
                            /\ x = "done" => entries[o] > 0
  BY DEF CreditSelect, Postings
<1>3. posting' \in [Callers -> [Orders -> Postings]]
  BY <1>1, <1>2 DEF TypeInv
<1>4. \A p \in Orders : posting'["route"][p] = "done" =>
          posting["route"][p] = "done" \/ entries'[p] > 0
  BY <1>1, <1>2 DEF TypeInv, Callers
<1>5. TypeInv' /\ Stays
  BY <1>1, <1>3 DEF TypeInv, Stays
<1>6. QED
  BY <1>1, <1>4, <1>5, ServiceStep

LEMMA CreditInsertStep ==
    ASSUME TopupInv, NEW w \in Callers, NEW o \in Orders, CreditInsert(w, o)
    PROVE  TopupInv'
<1>1. /\ TypeInv /\ stage' = stage
      /\ ui' = ui /\ fetches' = fetches /\ agent' = agent /\ route' = route /\ faults' = faults
      /\ posting' = [posting EXCEPT ![w][o] = "done"]
      /\ entries' = [entries EXCEPT ![o] = @ + 1] /\ ledger' = ledger + TopupTokens
  BY DEF TopupInv, CreditInsert, lifecycleVars
<1>2. posting' \in [Callers -> [Orders -> Postings]] /\ ledger' \in Nat
  BY <1>1, HabaAssumption DEF TypeInv, Postings
<1>3. /\ entries' \in [Orders -> Nat] /\ entries'[o] > 0
      /\ \A p \in Orders : entries[p] > 0 => entries'[p] > 0
  BY <1>1 DEF TypeInv
<1>4. \A p \in Orders : posting'["route"][p] = "done" =>
          posting["route"][p] = "done" \/ entries'[p] > 0
  BY <1>1, <1>3 DEF TypeInv, Callers
<1>5. TypeInv' /\ Stays
  BY <1>1, <1>2, <1>3 DEF TypeInv, Stays
<1>6. QED
  BY <1>1, <1>4, <1>5, ServiceStep

LEMMA CreditFailsStep ==
    ASSUME TopupInv, NEW w \in Callers, NEW o \in Orders, CreditFails(w, o)
    PROVE  TopupInv'
<1>1. /\ TypeInv /\ stage' = stage /\ ledger' = ledger /\ entries' = entries
      /\ ui' = ui /\ fetches' = fetches /\ agent' = agent /\ route' = route /\ faults' = faults
  BY DEF TopupInv, CreditFails, lifecycleVars
<1>2. PICK x \in Postings : /\ posting' = [posting EXCEPT ![w][o] = x]
                            /\ w = "route" => x # "done"
  BY DEF CreditFails, Postings
<1>3. posting' \in [Callers -> [Orders -> Postings]]
  BY <1>1, <1>2 DEF TypeInv
<1>4. \A p \in Orders : posting'["route"][p] = "done" =>
          posting["route"][p] = "done" \/ entries'[p] > 0
  BY <1>1, <1>2 DEF TypeInv, Callers
<1>5. TypeInv' /\ Stays
  BY <1>1, <1>3 DEF TypeInv, Stays
<1>6. QED
  BY <1>1, <1>4, <1>5, ServiceStep

LEMMA ConfirmerCreditsStep ==
    ASSUME TopupInv, NEW o \in Orders, ConfirmerCredits(o)
    PROVE  TopupInv'
<1>1. /\ TypeInv /\ stage' = stage /\ ledger' = ledger /\ entries' = entries
      /\ ui' = ui /\ fetches' = fetches /\ agent' = agent /\ route' = route /\ faults' = faults
      /\ posting' = [posting EXCEPT !["confirmer"][o] = "called"]
  BY DEF TopupInv, ConfirmerCredits, Credit
<1>2. /\ posting' \in [Callers -> [Orders -> Postings]]
      /\ \A p \in Orders : posting'["route"][p] = posting["route"][p]
  BY <1>1 DEF TypeInv, Callers, Postings
<1>3. TypeInv' /\ Stays
  BY <1>1, <1>2 DEF TypeInv, Stays
<1>4. QED
  BY <1>1, <1>2, <1>3, ServiceStep

LEMMA GatewayStep ==
    ASSUME TopupInv, Gateway
    PROVE  TopupInv'
<1>1. /\ TypeInv /\ ledger' = ledger /\ entries' = entries /\ posting' = posting
      /\ ui' = ui /\ fetches' = fetches /\ agent' = agent /\ route' = route /\ faults' = faults
  BY DEF TopupInv, Gateway, bookVars
<1>2. /\ stage' \in [Orders -> Stages]
      /\ \A p \in Orders : stage[p] \notin {"absent", "open"} => stage'[p] \notin {"absent", "open"}
  <2>1. ASSUME NEW tx, Execute(tx)
        PROVE  /\ stage' \in [Orders -> Stages]
               /\ \A p \in Orders :
                     stage[p] \notin {"absent", "open"} => stage'[p] \notin {"absent", "open"}
    BY <1>1, <2>1 DEF Execute, TypeInv
  <2>2. ASSUME NEW o \in Orders, Close(o)
        PROVE  /\ stage' \in [Orders -> Stages]
               /\ \A p \in Orders :
                     stage[p] \notin {"absent", "open"} => stage'[p] \notin {"absent", "open"}
    BY <1>1, <2>2, CloseStage
  <2>3. ASSUME NEW o \in Orders, NEW tx, Settle(o, tx)
        PROVE  /\ stage' \in [Orders -> Stages]
               /\ \A p \in Orders :
                     stage[p] \notin {"absent", "open"} => stage'[p] \notin {"absent", "open"}
    BY <1>1, <2>3 DEF Settle, Move, TypeInv, Stages
  <2>4. QED
    BY <2>1, <2>2, <2>3 DEF Gateway
<1>3. TypeInv' /\ Stays
  BY <1>1, <1>2 DEF TypeInv, Stays
<1>4. QED
  BY <1>1, <1>3, ServiceStep

------------------------------------------------------------------------------
(* Steps of a page.                                                        *)

(* What a render leaves: the new state, or the same with a top-up begun.   *)
LEMMA Rendered ==
    ASSUME TypeInv, NEW t \in Tabs, NEW new \in Dashboard, NEW reqs \in [Orders -> RouteState],
           Render(t, new, reqs)
    PROVE  /\ ui' \in [Tabs -> Dashboard] /\ route' \in [Orders -> RouteState]
           /\ \A u \in Tabs \ {t} : ui'[u] = ui[u]
           /\ ~Checks(ui[t], new) =>
                 /\ ui'[t].running = new.running /\ ui'[t].mode = new.mode
                 /\ ui'[t].call = new.call /\ ui'[t].steps = new.steps
                 /\ ui'[t].fired = (new.fired /\ ~Resets(ui[t], new))
                 /\ route' = reqs
           /\ Checks(ui[t], new) =>
                 /\ ui'[t].running /\ ui'[t].mode = "none"
                 /\ ui'[t].fired = ~Resets(ui[t], new)
                 /\ \A o \in Orders :
                       route'[o] = reqs[o] \/ (route'[o].at = "received" /\ ui'[t].call = o)
<1> DEFINE gate == ~Resets(ui[t], new) /\ (new.fired \/ Checks(ui[t], new))
           page == [new EXCEPT !.fired = gate]
           Asking(o) == [page EXCEPT !.running = TRUE, !.mode = "none", !.steps = "active",
                                     !.call = o]
<1>0. Checks(ui[t], new) \in BOOLEAN /\ Resets(ui[t], new) \in BOOLEAN /\ new.fired \in BOOLEAN
  BY DEF Checks, Resets, Dashboard
<1>1. gate \in BOOLEAN
  BY <1>0
<1> HIDE DEF gate
<1>2. page \in Dashboard
  BY <1>1 DEF Dashboard
<1> HIDE DEF page
<1>3. CASE ~Checks(ui[t], new)
  <2>1. ui' = [ui EXCEPT ![t] = page] /\ route' = reqs
    BY <1>3 DEF Render, page, gate
  <2>2. gate = (new.fired /\ ~Resets(ui[t], new))
    BY <1>0, <1>3 DEF gate
  <2>3. /\ page.running = new.running /\ page.mode = new.mode
        /\ page.call = new.call /\ page.steps = new.steps /\ page.fired = gate
    BY DEF page, Dashboard
  <2>4. QED
    BY <1>2, <1>3, <2>1, <2>2, <2>3 DEF TypeInv
<1>4. CASE Checks(ui[t], new)
  <2>1. TriggerTopup(t, page, reqs)
    BY <1>4 DEF Render, page, gate
  <2>2. ASSUME NEW o \in Orders \cup {NoOrder}
        PROVE  /\ Asking(o) \in Dashboard
               /\ Asking(o).running = TRUE /\ Asking(o).mode = "none" /\ Asking(o).call = o
               /\ Asking(o).fired = gate
    <3>1. page.fired = gate
      BY DEF page, Dashboard
    <3>2. QED
      BY <1>2, <3>1 DEF Dashboard
  <2>3. gate = ~Resets(ui[t], new)
    BY <1>0, <1>4 DEF gate
  <2>4. PICK c \in Orders \cup {NoOrder} :
            /\ ui' = [ui EXCEPT ![t] = Asking(c)]
            /\ route' \in [Orders -> RouteState]
            /\ \A o \in Orders : route'[o] = reqs[o] \/ (route'[o].at = "received" /\ c = o)
    <3> DEFINE Fresh == {o \in Orders : reqs[o].at = "none"}
    <3>1. CASE Fresh = {}
      <4>1. ui' = [ui EXCEPT ![t] = Asking(NoOrder)] /\ route' = reqs
        BY <2>1, <3>1 DEF TriggerTopup
      <4>2. QED
        BY <4>1
    <3>2. CASE Fresh # {}
      <4>1. PICK o \in Orders : /\ ui' = [ui EXCEPT ![t] = Asking(o)]
                                /\ route' = [reqs EXCEPT ![o].at = "received"]
        BY <2>1, <3>2 DEF TriggerTopup
      <4>2. /\ route' \in [Orders -> RouteState]
            /\ \A p \in Orders : route'[p] = reqs[p] \/ (route'[p].at = "received" /\ o = p)
        BY <4>1 DEF RouteState
      <4>3. QED
        BY <4>1, <4>2
    <3>3. QED
      BY <3>1, <3>2
  <2>5. PICK asking \in Dashboard :
            /\ ui' = [ui EXCEPT ![t] = asking]
            /\ asking.running /\ asking.mode = "none" /\ asking.call = c
            /\ asking.fired = ~Resets(ui[t], new)
    BY <2>2, <2>3, <2>4
  <2>6. ui' \in [Tabs -> Dashboard] /\ ui'[t] = asking /\ \A u \in Tabs \ {t} : ui'[u] = ui[u]
    BY <2>5 DEF TypeInv
  <2>7. \A o \in Orders : route'[o] = reqs[o] \/ (route'[o].at = "received" /\ ui'[t].call = o)
    BY <2>4, <2>5, <2>6
  <2>8. ui'[t].running /\ ui'[t].mode = "none" /\ ui'[t].fired = ~Resets(ui[t], new)
    BY <2>5, <2>6
  <2>9. QED
    BY <1>4, <2>4, <2>6, <2>7, <2>8
<1>5. QED
  BY <1>3, <1>4

(* A render keeps a page's invariant: the callback before it starts no     *)
(* top-up itself and touches the gate only through the effects.            *)
LEMMA RenderPage ==
    ASSUME TypeInv, NEW t \in Tabs, PageInv(t), NEW new \in Dashboard,
           NEW reqs \in [Orders -> RouteState], Render(t, new, reqs),
           new.fired = ui[t].fired,
           new.running => ui[t].running,
           new.mode = ui[t].mode \/ new.running,
           new.mode # "none" => /\ new.call \in Orders
                                /\ new.mode = "x402" => stage'[new.call] \notin {"absent", "open"}
                                /\ new.mode = "direct" => entries'[new.call] > 0,
           ~new.running /\ new.mode = "none" /\ new.fired => new.steps = "error",
           fetches'[t]["topup"].at # "none" => new.running /\ new.mode # "none"
    PROVE  PageInv(t)'
<1>1. CASE Checks(ui[t], new)
  <2>1. ~new.running /\ ~new.fired /\ ~ui[t].running /\ new.mode = ui[t].mode
    BY <1>1 DEF Checks, PageInv
  <2>2. ~Resets(ui[t], new)
    BY <2>1 DEF Resets, TypeInv, Dashboard
  <2>3. ui'[t].running /\ ui'[t].mode = "none" /\ ui'[t].fired
    BY <1>1, <2>2, Rendered
  <2>4. QED
    BY <2>1, <2>3 DEF PageInv
<1>2. CASE ~Checks(ui[t], new)
  <2>2. /\ ui'[t].running = new.running /\ ui'[t].mode = new.mode /\ ui'[t].call = new.call
        /\ ui'[t].steps = new.steps /\ ui'[t].fired = (new.fired /\ ~Resets(ui[t], new))
    BY <1>2, Rendered
  <2>3. ui'[t].running => ui'[t].fired
    BY <2>2 DEF PageInv, Resets
  <2>4. ui'[t].fired /\ ~ui'[t].running => ui'[t].mode = "none" /\ ui'[t].steps = "error"
    <3>1. SUFFICES ASSUME ui'[t].fired, ~ui'[t].running
                   PROVE  ui'[t].mode = "none" /\ ui'[t].steps = "error"
      OBVIOUS
    <3>2. new.fired /\ ~Resets(ui[t], new) /\ ~new.running /\ new.mode = ui[t].mode
      BY <2>2, <3>1
    <3>3. new.mode = "none"
      <4>1. CASE ui[t].running
        BY <3>2, <4>1 DEF Resets
      <4>2. CASE ~ui[t].running
        BY <3>2, <4>2 DEF PageInv
      <4>3. QED
        BY <4>1, <4>2
    <3>4. QED
      BY <2>2, <3>2, <3>3
  <2>5. QED
    BY <2>2, <2>3, <2>4 DEF PageInv, Holds
<1>3. QED
  BY <1>1, <1>2

(* What a render may leave of the requests: none that no page waits for,   *)
(* but for those it gave up on.                                            *)
LEMMA RenderOrphans ==
    ASSUME TypeInv, NEW t \in Tabs, PageInv(t), NEW new \in Dashboard,
           NEW reqs \in [Orders -> RouteState], Render(t, new, reqs), NEW lost,
           new.fired = ui[t].fired,
           \A o \in Orders : Live(reqs[o].at) => Live(route[o].at),
           ui[t].running /\ ui[t].mode = "none" =>
               \/ new.running /\ new.mode = "none" /\ new.call = ui[t].call
               \/ ui[t].call \in Orders /\ ~Live(reqs[ui[t].call].at)
               \/ ui[t].call \in Orders => ui[t].call \in lost
    PROVE  Orphans' \subseteq Orphans \cup lost
<1> SUFFICES ASSUME NEW o \in Orders, Live(route'[o].at), o \notin Awaited', o \notin lost
             PROVE  Live(route[o].at) /\ o \notin Awaited
  BY DEF Orphans, UnderWay, Live
<1>1. CASE Checks(ui[t], new)
  <2>1. ~ui[t].running
    BY <1>1 DEF Checks, PageInv
  <2>2. /\ ui'[t].running /\ ui'[t].mode = "none"
        /\ \A u \in Tabs \ {t} : ui'[u] = ui[u]
        /\ \A p \in Orders :
              route'[p] = reqs[p] \/ (route'[p].at = "received" /\ ui'[t].call = p)
    BY <1>1, Rendered
  <2>3. ui'[t].call # o
    BY <2>2 DEF Awaited
  <2>4. QED
    BY <2>1, <2>2, <2>3 DEF Awaited
<1>2. CASE ~Checks(ui[t], new)
  <2>1. \A u \in Tabs \ {t} : ui'[u] = ui[u]
    BY Rendered
  <2>2. /\ ui'[t].running = new.running /\ ui'[t].mode = new.mode /\ ui'[t].call = new.call
        /\ route' = reqs
    BY <1>2, Rendered
  <2>3. ~(ui[t].call = o /\ ui[t].running /\ ui[t].mode = "none")
    BY <2>1, <2>2 DEF Awaited
  <2>4. QED
    BY <2>1, <2>2, <2>3 DEF Awaited
<1>3. QED
  BY <1>1, <1>2

(* The requests themselves. *)
LEMMA RenderRoutes ==
    ASSUME TypeInv, NEW t \in Tabs, NEW new \in Dashboard,
           NEW reqs \in [Orders -> RouteState], Render(t, new, reqs),
           Stays, posting' = posting, \A o \in Orders : RouteInv(o),
           \A o \in Orders : reqs[o] = route[o] \/ reqs[o].at # "answered"
    PROVE  \A o \in Orders : RouteInv(o)'
<1> TAKE o \in Orders
<1>1. RouteInv(o) /\ route[o].mode \in {"x402", "direct"}
  BY DEF TypeInv, RouteState
<1>2. route'[o] = route[o] \/ route'[o].at # "answered"
  <2>1. CASE Checks(ui[t], new)
    <3>1. \A p \in Orders : route'[p] = reqs[p] \/ (route'[p].at = "received" /\ ui'[t].call = p)
      BY <2>1, Rendered
    <3>2. QED
      BY <3>1
  <2>2. CASE ~Checks(ui[t], new)
    <3>1. route' = reqs
      BY <2>2, Rendered
    <3>2. QED
      BY <3>1
  <2>3. QED
    BY <2>1, <2>2
<1>3. QED
  BY <1>1, <1>2 DEF RouteInv, Stays, Holds

(* A step of a page that renders, from what its callback did. *)
LEMMA PageStep ==
    ASSUME TopupInv, NEW t \in Tabs, NEW new \in Dashboard,
           NEW reqs \in [Orders -> RouteState], Render(t, new, reqs),
           UNCHANGED <<lifecycleVars, bookVars>>,
           fetches' \in [Tabs -> [Slots -> FetchState]], agent' \in [Tabs -> AgentState],
           \A u \in Tabs \ {t} : fetches'[u] = fetches[u],
           fetches'[t]["topup"].at # "none" => new.running /\ new.mode # "none",
           new.fired = ui[t].fired,
           new.running => ui[t].running,
           new.mode = ui[t].mode \/ new.running,
           new.mode # "none" => new.call \in Orders /\ Holds(new.mode, new.call),
           ~new.running /\ new.mode = "none" /\ new.fired => new.steps = "error",
           \A o \in Orders : reqs[o] = route[o] \/ reqs[o].at = "gone",
           faults' \in {faults, faults + 1}, OrphanInv'
    PROVE  TopupInv'
<1>1. /\ TypeInv /\ PageInv(t) /\ \A o \in Orders : RouteInv(o)
      /\ stage' = stage /\ ledger' = ledger /\ entries' = entries /\ posting' = posting
  BY DEF TopupInv, lifecycleVars, bookVars
<1>2. Stays
  BY <1>1 DEF Stays
<1>3. /\ ui' \in [Tabs -> Dashboard] /\ route' \in [Orders -> RouteState]
      /\ \A u \in Tabs \ {t} : ui'[u] = ui[u]
  BY <1>1, Rendered
<1>4. TypeInv'
  BY <1>1, <1>3 DEF TypeInv
<1>5. \A o \in Orders : RouteInv(o)'
  <2>1. \A o \in Orders : reqs[o] = route[o] \/ reqs[o].at # "answered"
    OBVIOUS
  <2>2. QED
    BY <1>1, <1>2, <2>1, RenderRoutes
<1>6. PageInv(t)'
  <2>1. new.mode # "none" => /\ new.call \in Orders
                             /\ new.mode = "x402" => stage'[new.call] \notin {"absent", "open"}
                             /\ new.mode = "direct" => entries'[new.call] > 0
    BY <1>1 DEF Holds
  <2>2. QED
    BY <1>1, <2>1, RenderPage
<1>7. \A u \in Tabs : PageInv(u)'
  <2> TAKE u \in Tabs
  <2>1. CASE u = t
    BY <1>6, <2>1
  <2>2. CASE u # t
    BY <1>1, <1>2, <1>3, <2>2, PageKept DEF TopupInv
  <2>3. QED
    BY <2>1, <2>2
<1>8. QED
  BY <1>4, <1>5, <1>7 DEF TopupInv

LEMMA FetchStep ==
    ASSUME TypeInv, NEW t \in Tabs, NEW s \in Slots, NEW f \in FetchState,
           fetches' = [fetches EXCEPT ![t][s] = f]
    PROVE  /\ fetches' \in [Tabs -> [Slots -> FetchState]]
           /\ \A u \in Tabs \ {t} : fetches'[u] = fetches[u]
           /\ \A k \in Slots \ {s} : fetches'[t][k] = fetches[t][k]
           /\ fetches'[t][s] = f
BY DEF TypeInv

LEMMA FetchSent ==
    ASSUME TypeInv, NEW t \in Tabs, NEW s \in Slots, Fetch(t, s)
    PROVE  /\ fetches' \in [Tabs -> [Slots -> FetchState]]
           /\ \A u \in Tabs \ {t} : fetches'[u] = fetches[u]
           /\ \A k \in Slots \ {s} : fetches'[t][k] = fetches[t][k]
<1> DEFINE f == [fetches[t][s] EXCEPT !.at = "sent"]
<1>1. f \in FetchState
  <2>1. fetches[t][s] \in FetchState
    BY DEF TypeInv
  <2>2. QED
    BY <2>1 DEF FetchState
<1>2. fetches' = [fetches EXCEPT ![t][s] = f]
  BY DEF Fetch, TypeInv
<1> HIDE DEF f
<1>3. QED
  BY <1>1, <1>2, FetchStep

LEMMA SlotFacts ==
    /\ "topup" \in Slots
    /\ \A s \in Ticks : s \in Slots /\ s # "topup"
BY HabaAssumption DEF Slots

(* A step that only moves balance requests other than a top-up's refresh,  *)
(* agent runs or the agent's debit.                                        *)
LEMMA QuietStep ==
    ASSUME TopupInv, lifecycleVars' = lifecycleVars, ledger' \in Nat,
           entries' = entries, posting' = posting, ui' = ui, route' = route,
           fetches' \in [Tabs -> [Slots -> FetchState]], agent' \in [Tabs -> AgentState],
           \A t \in Tabs : fetches'[t]["topup"].at # "none" => fetches[t]["topup"].at # "none",
           faults' \in {faults, faults + 1}
    PROVE  TopupInv'
<1>1. TypeInv /\ stage' = stage
  BY DEF TopupInv, lifecycleVars
<1>2. TypeInv' /\ Stays
  BY <1>1 DEF TypeInv, Stays
<1>3. QED
  BY <1>2, ServiceStep

LEMMA TickStep ==
    ASSUME TopupInv, NEW t \in Tabs, Tick(t)
    PROVE  TopupInv'
<1>1. /\ TypeInv /\ lifecycleVars' = lifecycleVars /\ ledger' = ledger /\ entries' = entries
      /\ posting' = posting /\ ui' = ui /\ agent' = agent /\ route' = route /\ faults' = faults
  BY DEF TopupInv, Tick, bookVars
<1>2. PICK s \in Ticks : Fetch(t, s)
  BY DEF Tick
<1>3. /\ fetches' \in [Tabs -> [Slots -> FetchState]]
      /\ \A u \in Tabs \ {t} : fetches'[u] = fetches[u]
      /\ fetches'[t]["topup"] = fetches[t]["topup"]
  BY <1>1, <1>2, FetchSent, SlotFacts
<1>4. ledger' \in Nat /\ agent' \in [Tabs -> AgentState]
  BY <1>1 DEF TypeInv
<1>5. QED
  BY <1>1, <1>3, <1>4, QuietStep

LEMMA BalanceStep ==
    ASSUME TopupInv, NEW t \in Tabs, NEW s \in Slots, Balance(t, s)
    PROVE  TopupInv'
<1>1. /\ TypeInv /\ lifecycleVars' = lifecycleVars /\ ledger' = ledger /\ entries' = entries
      /\ posting' = posting /\ ui' = ui /\ agent' = agent /\ route' = route
      /\ fetches[t][s].at = "sent" /\ faults' \in {faults, faults + 1}
  BY DEF TopupInv, Balance, bookVars
<1>2. PICK f \in FetchState : fetches' = [fetches EXCEPT ![t][s] = f]
  <2>1. CASE fetches' = [fetches EXCEPT ![t][s] = [at |-> "answered", value |-> ledger]]
    <3>1. [at |-> "answered", value |-> ledger] \in FetchState
      BY <1>1 DEF FetchState, Balances, TypeInv
    <3>2. QED
      BY <2>1, <3>1
  <2>2. CASE fetches' = [fetches EXCEPT ![t][s].at = "failed"]
    <3>1. fetches[t][s] \in FetchState
      BY <1>1 DEF TypeInv
    <3>2. [fetches[t][s] EXCEPT !.at = "failed"] \in FetchState
      BY <3>1 DEF FetchState
    <3>3. fetches' = [fetches EXCEPT ![t][s] = [fetches[t][s] EXCEPT !.at = "failed"]]
      BY <1>1, <2>2 DEF TypeInv
    <3>4. QED
      BY <3>2, <3>3
  <2>3. QED
    BY <2>1, <2>2 DEF Balance
<1>3. /\ fetches' \in [Tabs -> [Slots -> FetchState]]
      /\ \A u \in Tabs \ {t} : fetches'[u] = fetches[u]
      /\ \A k \in Slots \ {s} : fetches'[t][k] = fetches[t][k]
  BY <1>1, <1>2, FetchStep
<1>4. \A u \in Tabs : fetches'[u]["topup"].at # "none" => fetches[u]["topup"].at # "none"
  BY <1>1, <1>3, SlotFacts
<1>5. ledger' \in Nat /\ agent' \in [Tabs -> AgentState]
  BY <1>1 DEF TypeInv
<1>6. QED
  BY <1>1, <1>3, <1>4, <1>5, QuietStep

LEMMA ReceiveBalanceStep ==
    ASSUME TopupInv, NEW t \in Tabs, NEW s \in Slots, ReceiveBalance(t, s)
    PROVE  TopupInv'
<1> DEFINE f == fetches[t][s]
           page == IF f.at = "answered"
                   THEN [ui[t] EXCEPT !.balance = f.value, !.err = FALSE]
                   ELSE [ui[t] EXCEPT !.err = TRUE]
           new == IF s = "topup" THEN [page EXCEPT !.running = FALSE] ELSE page
<1>1. /\ TypeInv /\ PageInv(t) /\ OrphanInv /\ faults' = faults
      /\ UNCHANGED <<lifecycleVars, bookVars>>
      /\ f.at # "none" /\ fetches' = [fetches EXCEPT ![t][s] = NoFetch]
      /\ Render(t, new, route)
  BY DEF TopupInv, ReceiveBalance
<1>2. ui[t] \in Dashboard /\ f \in FetchState /\ route \in [Orders -> RouteState]
  BY <1>1 DEF TypeInv
<1>3. /\ new \in Dashboard
      /\ new.fired = ui[t].fired /\ new.mode = ui[t].mode
      /\ new.call = ui[t].call /\ new.steps = ui[t].steps
      /\ new.running = (ui[t].running /\ s # "topup")
  <2>1. page \in Dashboard /\ page.fired = ui[t].fired /\ page.mode = ui[t].mode
        /\ page.call = ui[t].call /\ page.steps = ui[t].steps /\ page.running = ui[t].running
    BY <1>2 DEF Dashboard, FetchState
  <2> HIDE DEF page
  <2>2. QED
    BY <2>1 DEF Dashboard
<1>4. NoFetch \in FetchState
  BY DEF NoFetch, FetchState, Balances
<1>5. /\ fetches' \in [Tabs -> [Slots -> FetchState]]
      /\ \A u \in Tabs \ {t} : fetches'[u] = fetches[u]
      /\ \A k \in Slots \ {s} : fetches'[t][k] = fetches[t][k]
      /\ fetches'[t][s].at = "none"
  <2>1. /\ fetches' \in [Tabs -> [Slots -> FetchState]]
        /\ \A u \in Tabs \ {t} : fetches'[u] = fetches[u]
        /\ \A k \in Slots \ {s} : fetches'[t][k] = fetches[t][k]
        /\ fetches'[t][s] = NoFetch
    BY <1>1, <1>4, FetchStep
  <2>2. QED
    BY <2>1 DEF NoFetch
<1>6. agent' \in [Tabs -> AgentState]
  BY <1>1 DEF TypeInv, ReceiveBalance
<1>7. s = "topup" => ui[t].running /\ ui[t].mode # "none"
  BY <1>1 DEF PageInv
<1> HIDE DEF new, page, f
<1>8. fetches'[t]["topup"].at # "none" => new.running /\ new.mode # "none"
  BY <1>1, <1>3, <1>5, SlotFacts DEF PageInv
<1>9. new.mode # "none" => new.call \in Orders /\ Holds(new.mode, new.call)
  BY <1>1, <1>3 DEF PageInv
<1>10. ~new.running /\ new.mode = "none" /\ new.fired => new.steps = "error"
  BY <1>1, <1>3, <1>7 DEF PageInv
<1>11. new.running => ui[t].running
  BY <1>3
<1>12. OrphanInv'
  <2>1. ui[t].running /\ ui[t].mode = "none" =>
            new.running /\ new.mode = "none" /\ new.call = ui[t].call
    BY <1>3, <1>7
  <2>2. Orphans' \subseteq Orphans \cup {}
    BY <1>1, <1>2, <1>3, <2>1, RenderOrphans
  <2>3. QED
    BY <1>1, <2>2, OrphansFewer
<1>13. QED
  BY <1>1, <1>2, <1>3, <1>5, <1>6, <1>8, <1>9, <1>10, <1>11, <1>12, PageStep

LEMMA TopupAnsweredStep ==
    ASSUME TopupInv, NEW t \in Tabs, TopupAnswered(t)
    PROVE  TopupInv'
<1> DEFINE o == ui[t].call
           r == route[o]
           page == [ui[t] EXCEPT !.steps = r.steps]
           good == [page EXCEPT !.mode = r.mode]
           bad == [page EXCEPT !.running = FALSE]
           Delivered == [route EXCEPT ![o] = Forgotten]
<1>1. /\ TypeInv /\ PageInv(t) /\ OrphanInv /\ faults' = faults /\ agent' = agent
      /\ UNCHANGED <<lifecycleVars, bookVars>>
      /\ ui[t].running /\ ui[t].mode = "none" /\ o # NoOrder /\ r.at = "answered"
  BY DEF TopupInv, TopupAnswered
<1>2. ui[t] \in Dashboard /\ o \in Orders
  BY <1>1 DEF TypeInv, Dashboard
<1>3. r \in RouteState /\ RouteInv(o)
  BY <1>1, <1>2 DEF TypeInv, TopupInv
<1>4. /\ Delivered \in [Orders -> RouteState] /\ Delivered[o].at = "gone"
      /\ \A p \in Orders : Delivered[p] = route[p] \/ Delivered[p].at = "gone"
  <2>1. Forgotten \in RouteState /\ Forgotten.at = "gone"
    BY DEF Forgotten, NoCall, RouteState
  <2>2. QED
    BY <1>1, <1>2, <2>1 DEF TypeInv
<1>5. /\ good \in Dashboard /\ bad \in Dashboard
      /\ good.fired = ui[t].fired /\ good.running = ui[t].running /\ good.mode = r.mode
      /\ good.call = o /\ good.steps = r.steps
      /\ bad.fired = ui[t].fired /\ bad.running = FALSE /\ bad.mode = ui[t].mode
      /\ bad.call = o /\ bad.steps = r.steps
  BY <1>2, <1>3 DEF Dashboard, RouteState
<1>6. r.mode # "none" /\ agent' \in [Tabs -> AgentState] /\ fetches[t]["topup"].at = "none"
  BY <1>1, <1>3 DEF RouteState, TypeInv, PageInv
<1>7. CASE r.ok
  <2>1. Render(t, good, Delivered) /\ Fetch(t, "topup")
    BY <1>7 DEF TopupAnswered
  <2>2. Holds(r.mode, o)
    BY <1>1, <1>3, <1>7 DEF RouteInv
  <2>3. /\ fetches' \in [Tabs -> [Slots -> FetchState]]
        /\ \A u \in Tabs \ {t} : fetches'[u] = fetches[u]
    BY <1>1, <2>1, FetchSent, SlotFacts
  <2> HIDE DEF good, bad, page, r, o, Delivered
  <2>4. OrphanInv'
    <3>1. \A p \in Orders : Live(Delivered[p].at) => Live(route[p].at)
      BY <1>4 DEF Live
    <3>2. ui[t].call \in Orders /\ ~Live(Delivered[ui[t].call].at)
      BY <1>2, <1>4 DEF Live, o
    <3>3. Orphans' \subseteq Orphans \cup {}
      BY <1>1, <1>4, <1>5, <2>1, <3>1, <3>2, RenderOrphans
    <3>4. QED
      BY <1>1, <3>3, OrphansFewer
  <2>5. good.mode # "none" => good.call \in Orders /\ Holds(good.mode, good.call)
    BY <1>2, <1>5, <2>2
  <2>6. good.running /\ good.mode # "none"
    BY <1>1, <1>5, <1>6
  <2>7. QED
    BY <1>1, <1>4, <1>5, <1>6, <2>1, <2>3, <2>4, <2>5, <2>6, PageStep
<1>8. CASE ~r.ok
  <2>1. Render(t, bad, Delivered) /\ fetches' = fetches
    BY <1>8 DEF TopupAnswered
  <2>2. r.steps = "error"
    BY <1>1, <1>3, <1>8 DEF RouteInv
  <2>3. fetches' \in [Tabs -> [Slots -> FetchState]] /\ fetches'[t]["topup"].at = "none"
    BY <1>1, <1>6, <2>1 DEF TypeInv
  <2> HIDE DEF good, bad, page, r, o, Delivered
  <2>4. OrphanInv'
    <3>1. \A p \in Orders : Live(Delivered[p].at) => Live(route[p].at)
      BY <1>4 DEF Live
    <3>2. ui[t].call \in Orders /\ ~Live(Delivered[ui[t].call].at)
      BY <1>2, <1>4 DEF Live, o
    <3>3. Orphans' \subseteq Orphans \cup {}
      BY <1>1, <1>4, <1>5, <2>1, <3>1, <3>2, RenderOrphans
    <3>4. QED
      BY <1>1, <3>3, OrphansFewer
  <2>5. bad.mode = "none" /\ bad.steps = "error"
    BY <1>1, <1>5, <2>2
  <2>6. QED
    BY <1>1, <1>4, <1>5, <1>6, <2>1, <2>3, <2>4, <2>5, PageStep
<1>9. QED
  BY <1>7, <1>8

LEMMA TopupThrowsStep ==
    ASSUME TopupInv, NEW t \in Tabs, TopupThrows(t)
    PROVE  TopupInv'
<1> DEFINE new == [ui[t] EXCEPT !.steps = "error", !.running = FALSE]
<1>1. /\ TypeInv /\ PageInv(t) /\ OrphanInv /\ agent' = agent /\ fetches' = fetches
      /\ UNCHANGED <<lifecycleVars, bookVars>>
      /\ ui[t].running /\ ui[t].mode = "none" /\ Render(t, new, route)
      /\ IF ui[t].call = NoOrder THEN faults' = faults ELSE faults' = faults + 1
  BY DEF TopupInv, TopupThrows
<1>2. /\ ui[t] \in Dashboard /\ route \in [Orders -> RouteState]
      /\ fetches' \in [Tabs -> [Slots -> FetchState]] /\ agent' \in [Tabs -> AgentState]
  BY <1>1 DEF TypeInv
<1>3. /\ new \in Dashboard /\ new.fired = ui[t].fired /\ new.running = FALSE
      /\ new.mode = ui[t].mode /\ new.steps = "error"
  BY <1>2 DEF Dashboard
<1>4. fetches'[t]["topup"].at = "none"
  BY <1>1 DEF PageInv
<1> HIDE DEF new
<1>5. OrphanInv'
  <2>1. CASE ui[t].call = NoOrder
    <3>1. ui[t].call \in Orders => ui[t].call \in {}
      BY <2>1, HabaAssumption
    <3>2. Orphans' \subseteq Orphans \cup {}
      BY <1>1, <1>2, <1>3, <3>1, RenderOrphans
    <3>3. QED
      BY <1>1, <2>1, <3>2, OrphansFewer
  <2>2. CASE ui[t].call # NoOrder
    <3>1. Orphans' \subseteq Orphans \cup {ui[t].call}
      BY <1>1, <1>2, <1>3, RenderOrphans
    <3>2. QED
      BY <1>1, <2>2, <3>1, OrphansOneMore
  <2>3. QED
    BY <2>1, <2>2
<1>6. faults' \in {faults, faults + 1}
  BY <1>1
<1>7. QED
  BY <1>1, <1>2, <1>3, <1>4, <1>5, <1>6, PageStep

LEMMA RunAgentStep ==
    ASSUME TopupInv, NEW t \in Tabs, RunAgent(t)
    PROVE  TopupInv'
<1>1. /\ TypeInv /\ lifecycleVars' = lifecycleVars /\ ledger' = ledger /\ entries' = entries
      /\ posting' = posting /\ ui' = ui /\ fetches' = fetches /\ route' = route /\ faults' = faults
      /\ agent' = [agent EXCEPT ![t].at = "sent"]
  BY DEF TopupInv, RunAgent, bookVars
<1>2. agent[t] \in AgentState
  BY <1>1 DEF TypeInv
<1>3. /\ agent' \in [Tabs -> AgentState] /\ ledger' \in Nat
      /\ fetches' \in [Tabs -> [Slots -> FetchState]]
  BY <1>1, <1>2 DEF TypeInv, AgentState
<1>4. QED
  BY <1>1, <1>3, QuietStep

LEMMA AgentServedStep ==
    ASSUME TopupInv, NEW t \in Tabs, AgentServed(t)
    PROVE  TopupInv'
<1>1. /\ TypeInv /\ lifecycleVars' = lifecycleVars /\ entries' = entries
      /\ posting' = posting /\ ui' = ui /\ fetches' = fetches /\ route' = route /\ faults' = faults
  BY DEF TopupInv, AgentServed
<1>2. ledger' \in Nat
  BY <1>1, HabaAssumption DEF AgentServed, TypeInv
<1>3. agent[t] \in AgentState /\ NoRun \in AgentState
  BY <1>1 DEF TypeInv, NoRun, AgentState, Balances
<1>4. PICK a \in AgentState : agent' = [agent EXCEPT ![t] = a]
  <2>1. CASE /\ ledger >= AgentCost
             /\ agent' = [agent EXCEPT ![t] = [at |-> "typing", after |-> ledger - AgentCost]]
    <3>1. ledger - AgentCost \in Nat
      BY <1>1, <2>1, HabaAssumption DEF TypeInv
    <3>2. [at |-> "typing", after |-> ledger - AgentCost] \in AgentState
      BY <3>1 DEF AgentState, Balances
    <3>3. QED
      BY <2>1, <3>2
  <2>2. CASE agent' = [agent EXCEPT ![t] = NoRun]
    BY <1>3, <2>2
  <2>3. QED
    BY <2>1, <2>2 DEF AgentServed
<1>5. agent' \in [Tabs -> AgentState] /\ fetches' \in [Tabs -> [Slots -> FetchState]]
  BY <1>1, <1>4 DEF TypeInv
<1>6. QED
  BY <1>1, <1>2, <1>5, QuietStep

LEMMA AgentTypedStep ==
    ASSUME TopupInv, NEW t \in Tabs, AgentTyped(t)
    PROVE  TopupInv'
<1>1. /\ TypeInv /\ PageInv(t) /\ OrphanInv /\ faults' = faults
      /\ UNCHANGED <<lifecycleVars, bookVars>>
  BY DEF TopupInv, AgentTyped
<1>2. agent[t] \in AgentState /\ ui[t] \in Dashboard /\ route \in [Orders -> RouteState]
  BY <1>1 DEF TypeInv
<1> DEFINE new == [ui[t] EXCEPT !.balance = agent[t].after]
<1>3. /\ Render(t, new, route) /\ agent' = [agent EXCEPT ![t] = NoRun] /\ fetches' = fetches
  BY DEF AgentTyped
<1>4. /\ new \in Dashboard /\ new.fired = ui[t].fired /\ new.running = ui[t].running
      /\ new.mode = ui[t].mode /\ new.steps = ui[t].steps /\ new.call = ui[t].call
  BY <1>2 DEF Dashboard, AgentState
<1>5. agent' \in [Tabs -> AgentState] /\ fetches' \in [Tabs -> [Slots -> FetchState]]
  <2>1. NoRun \in AgentState
    BY DEF NoRun, AgentState, Balances
  <2>2. QED
    BY <1>1, <1>3, <2>1 DEF TypeInv
<1> HIDE DEF new
<1>6. OrphanInv'
  <2>1. Orphans' \subseteq Orphans \cup {}
    BY <1>1, <1>2, <1>3, <1>4, RenderOrphans
  <2>2. QED
    BY <1>1, <2>1, OrphansFewer
<1>7. fetches'[t]["topup"].at # "none" => new.running /\ new.mode # "none"
  BY <1>1, <1>3, <1>4 DEF PageInv
<1>8. new.mode # "none" => new.call \in Orders /\ Holds(new.mode, new.call)
  BY <1>1, <1>4 DEF PageInv
<1>9. ~new.running /\ new.mode = "none" /\ new.fired => new.steps = "error"
  BY <1>1, <1>4 DEF PageInv
<1>10. QED
  BY <1>1, <1>2, <1>3, <1>4, <1>5, <1>6, <1>7, <1>8, <1>9, PageStep

------------------------------------------------------------------------------
(* The invariant, and the properties.                                      *)

LEMMA InitInv == TopupInit => TopupInv
<1> SUFFICES ASSUME TopupInit PROVE TopupInv
  OBVIOUS
<1>1. /\ NewPage \in Dashboard /\ NewPage.call = NoOrder /\ ~NewPage.running /\ ~NewPage.fired
      /\ NewPage.mode = "none"
  BY DEF NewPage, Dashboard, Balances
<1>2. NoFetch \in FetchState /\ NoFetch.at = "none" /\ NoRun \in AgentState
  BY DEF NoFetch, FetchState, NoRun, AgentState, Balances
<1>3. NoCall \in RouteState /\ NoCall.at = "none"
  BY DEF NoCall, RouteState
<1>4. Opening \in Nat
  BY HabaAssumption
<1>5. TypeInv
  BY <1>1, <1>2, <1>3, <1>4 DEF TopupInit, LifecycleInit, TypeInv, Stages, Postings
<1>6. \A t \in Tabs : PageInv(t)
  BY <1>1, <1>2, SlotFacts DEF TopupInit, PageInv
<1>7. \A o \in Orders : RouteInv(o)
  BY <1>3 DEF TopupInit, RouteInv, Callers
<1>8. OrphanInv
  <2>1. Orphans = {} /\ faults = 0
    BY <1>3 DEF TopupInit, Orphans, UnderWay
  <2>2. QED
    BY <2>1, FS_EmptySet DEF OrphanInv
<1>9. QED
  BY <1>5, <1>6, <1>7, <1>8 DEF TopupInv

LEMMA StepInv == TopupInv /\ [TopupNext]_vars => TopupInv'
<1> SUFFICES ASSUME TopupInv, [TopupNext]_vars PROVE TopupInv'
  OBVIOUS
<1>1. ASSUME NEW t \in Tabs, Page(t) PROVE TopupInv'
  BY <1>1, TickStep, TopupAnsweredStep, TopupThrowsStep, BalanceStep, ReceiveBalanceStep,
     RunAgentStep, AgentServedStep, AgentTypedStep DEF Page
<1>2. ASSUME NEW o \in Orders, Route(o) \/ ConfirmerCredits(o) PROVE TopupInv'
  BY <1>2, CreateOrderStep, SignStep, SubmitProofStep, DemoCreditAnsweredStep,
     ConfirmerCreditsStep DEF Route
<1>3. ASSUME NEW w \in Callers, NEW o \in Orders, Ledger(w, o) PROVE TopupInv'
  BY <1>3, CreditSelectStep, CreditInsertStep, CreditFailsStep DEF Ledger
<1>4. CASE Gateway
  BY <1>4, GatewayStep
<1>5. CASE UNCHANGED vars
  <2>1. /\ lifecycleVars' = lifecycleVars /\ ledger' = ledger /\ entries' = entries
        /\ posting' = posting /\ ui' = ui /\ fetches' = fetches /\ agent' = agent
        /\ route' = route /\ faults' = faults
    BY <1>5 DEF vars, bookVars
  <2>2. /\ ledger' \in Nat /\ agent' \in [Tabs -> AgentState]
        /\ fetches' \in [Tabs -> [Slots -> FetchState]]
    BY <2>1 DEF TopupInv, TypeInv
  <2>3. QED
    BY <2>1, <2>2, QuietStep
<1>6. QED
  BY <1>1, <1>2, <1>3, <1>4, <1>5 DEF TopupNext

(* The inductive invariant: types, what a page shows against the order it  *)
(* speaks of, what the route will answer, and the requests left behind     *)
(* against the losses.                                                     *)
THEOREM TopupInvariant == TopupSpec => []TopupInv
<1>1. TopupInit => TopupInv
  BY InitInv
<1>2. TopupInv /\ [TopupNext]_vars => TopupInv'
  BY StepInv
<1>3. QED
  BY <1>1, <1>2, PTL DEF TopupSpec

(* A page that announces a completed top-up is right about its order: the  *)
(* gateway took the payment, or the ledger holds the credit.               *)
THEOREM BannersAreTrue == TopupSpec => []BannerTellsTheTruth
<1>1. TopupInv => BannerTellsTheTruth
  <2> SUFFICES ASSUME TopupInv, NEW t \in Tabs
               PROVE  /\ Banner(t) = "x402" => stage[ui[t].call] \notin {"absent", "open"}
                      /\ Banner(t) = "direct" => entries[ui[t].call] > 0
    BY DEF BannerTellsTheTruth
  <2>1. PageInv(t)
    BY DEF TopupInv
  <2>2. /\ Banner(t) = "x402" => ui[t].mode = "x402"
        /\ Banner(t) = "direct" => ui[t].mode = "direct"
    BY DEF Banner
  <2>3. QED
    BY <2>1, <2>2 DEF PageInv, Holds
<1>2. QED
  BY <1>1, TopupInvariant, PTL

(* The gate of an idle page is shut only by a top-up that failed. *)
THEOREM GateShutByFailure == TopupSpec => []ShutGateMeansFailure
<1>1. TopupInv => ShutGateMeansFailure
  BY DEF TopupInv, PageInv, ShutGateMeansFailure, Stepper
<1>2. QED
  BY <1>1, TopupInvariant, PTL

(* The orders pages wait for are at most as many as the pages. *)
LEMMA AwaitedBound ==
    ASSUME TypeInv
    PROVE  IsFiniteSet(Awaited) /\ Cardinality(Awaited) <= Cardinality(Tabs)
<1> DEFINE W == {t \in Tabs : ui[t].call \in Orders /\ ui[t].running /\ ui[t].mode = "none"}
           f == [t \in W |-> ui[t].call]
<1>1. IsFiniteSet(W) /\ Cardinality(W) <= Cardinality(Tabs)
  <2>1. W \subseteq Tabs /\ IsFiniteSet(Tabs)
    BY HabaAssumption
  <2> HIDE DEF W
  <2>2. QED
    BY <2>1, FS_Subset
<1>2. f \in Surjection(W, Awaited)
  <2>1. f \in [W -> Awaited]
    BY DEF Awaited
  <2>2. \A o \in Awaited : \E t \in W : f[t] = o
    BY DEF Awaited
  <2>3. QED
    BY <2>1, <2>2 DEF Surjection
<1> HIDE DEF W, f
<1>3. IsFiniteSet(Awaited) /\ Cardinality(Awaited) <= Cardinality(W)
  BY <1>1, <1>2, FS_Surjection
<1>4. Cardinality(Awaited) \in Nat /\ Cardinality(W) \in Nat /\ Cardinality(Tabs) \in Nat
  BY <1>1, <1>3, HabaAssumption, FS_CardinalityType
<1>5. QED
  BY <1>1, <1>3, <1>4

(* The requests under way are at most the pages and the lost requests: a   *)
(* page asks for one top-up at a time, however its polls, the refresh and  *)
(* the agent's answers cross.                                              *)
THEOREM OneTopupPerPage == TopupSpec => []TopupsTakeTurns
<1>1. TopupInv => TopupsTakeTurns
  <2> SUFFICES ASSUME TopupInv PROVE TopupsTakeTurns
    OBVIOUS
  <2>1. IsFiniteSet(Awaited) /\ Cardinality(Awaited) <= Cardinality(Tabs)
    BY AwaitedBound DEF TopupInv
  <2>2. IsFiniteSet(Orphans) /\ Cardinality(Orphans) <= faults /\ faults \in Nat
    BY DEF TopupInv, OrphanInv, TypeInv
  <2>3. /\ IsFiniteSet(Orphans \cup Awaited) /\ IsFiniteSet(Orphans \cap Awaited)
        /\ Cardinality(Orphans \cup Awaited) =
              Cardinality(Orphans) + Cardinality(Awaited) - Cardinality(Orphans \cap Awaited)
    BY <2>1, <2>2, FS_Union, FS_Intersection
  <2>4. IsFiniteSet(UnderWay) /\ Cardinality(UnderWay) <= Cardinality(Orphans \cup Awaited)
    <3>1. UnderWay \subseteq Orphans \cup Awaited
      BY DEF Orphans
    <3>2. QED
      BY <2>3, <3>1, FS_Subset
  <2>5. /\ Cardinality(Awaited) \in Nat /\ Cardinality(Orphans) \in Nat
        /\ Cardinality(Orphans \cap Awaited) \in Nat /\ Cardinality(Tabs) \in Nat
        /\ Cardinality(UnderWay) \in Nat /\ Cardinality(Orphans \cup Awaited) \in Nat
    BY <2>1, <2>2, <2>3, <2>4, HabaAssumption, FS_CardinalityType
  <2>6. Cardinality(UnderWay) <= Cardinality(Tabs) + faults
    BY <2>1, <2>2, <2>3, <2>4, <2>5
  <2>7. QED
    BY <2>6 DEF TopupsTakeTurns, UnderWay
<1>2. QED
  BY <1>1, TopupInvariant, PTL

(* Whoever calls the ledger once an order has its credit and nobody is     *)
(* past the SELECT finds the entry, and adds none.                         *)
THEOREM CreditedOnceSettled == TopupSpec => CreditSettled
<1> DEFINE Settled(o) ==
        entries[o] > 0 /\ (\A w \in Callers : posting[w][o] # "selected")
        => entries'[o] = entries[o] /\ (\A w \in Callers : posting'[w][o] # "selected")
<1>1. TopupInv /\ [TopupNext]_vars => \A o \in Orders : Settled(o)
  <2> SUFFICES ASSUME TopupInv, [TopupNext]_vars, NEW o \in Orders, entries[o] > 0,
                      \A w \in Callers : posting[w][o] # "selected"
               PROVE  entries'[o] = entries[o] /\ \A w \in Callers : posting'[w][o] # "selected"
    OBVIOUS
  <2>1. entries \in [Orders -> Nat] /\ posting \in [Callers -> [Orders -> Postings]]
    BY DEF TopupInv, TypeInv
  <2>2. ASSUME NEW w \in Callers, NEW p \in Orders, NEW x \in Postings,
               posting' = [posting EXCEPT ![w][p] = x], p = o => x # "selected",
               entries' = entries
        PROVE  entries'[o] = entries[o] /\ \A v \in Callers : posting'[v][o] # "selected"
    BY <2>1, <2>2
  <2>3. CASE entries' = entries /\ posting' = posting
    BY <2>3
  <2>4. ASSUME NEW t \in Tabs, Page(t)
        PROVE  entries' = entries /\ posting' = posting
    BY <2>4 DEF Page, Tick, TopupAnswered, TopupThrows, Balance, ReceiveBalance, RunAgent,
                AgentServed, AgentTyped, bookVars
  <2>5. ASSUME NEW p \in Orders, FallBack(p, "done") \/ FallBack(p, "error")
        PROVE  entries'[o] = entries[o] /\ \A v \in Callers : posting'[v][o] # "selected"
    <3>1. posting' = [posting EXCEPT !["route"][p] = "called"] /\ entries' = entries
      BY <2>5 DEF FallBack
    <3>2. QED
      BY <2>2, <3>1 DEF Callers, Postings
  <2>6. ASSUME NEW p \in Orders, Route(p)
        PROVE  entries'[o] = entries[o] /\ \A v \in Callers : posting'[v][o] # "selected"
    <3>1. (entries' = entries /\ posting' = posting) \/ FallBack(p, "done") \/ FallBack(p, "error")
      BY <2>6 DEF Route, CreateOrder, Sign, SubmitProof, DemoCreditAnswered, bookVars
    <3>2. QED
      BY <2>3, <2>5, <3>1
  <2>7. ASSUME NEW p \in Orders, ConfirmerCredits(p)
        PROVE  entries'[o] = entries[o] /\ \A v \in Callers : posting'[v][o] # "selected"
    <3>1. posting' = [posting EXCEPT !["confirmer"][p] = "called"] /\ entries' = entries
      BY <2>7 DEF ConfirmerCredits
    <3>2. QED
      BY <2>2, <3>1 DEF Callers, Postings
  <2>8. ASSUME NEW w \in Callers, NEW p \in Orders, Ledger(w, p)
        PROVE  entries'[o] = entries[o] /\ \A v \in Callers : posting'[v][o] # "selected"
    <3>1. CASE CreditSelect(w, p)
      <4>1. PICK x \in Postings : /\ posting' = [posting EXCEPT ![w][p] = x]
                                  /\ p = o => x # "selected"
        BY <3>1 DEF CreditSelect, Postings
      <4>2. QED
        BY <2>2, <3>1, <4>1 DEF CreditSelect
    <3>2. CASE CreditInsert(w, p)
      <4>1. p # o
        BY <3>2 DEF CreditInsert
      <4>2. QED
        BY <2>1, <3>2, <4>1 DEF CreditInsert
    <3>3. CASE CreditFails(w, p)
      <4>1. PICK x \in Postings : /\ posting' = [posting EXCEPT ![w][p] = x]
                                  /\ p = o => x # "selected"
        BY <3>3 DEF CreditFails, Postings
      <4>2. QED
        BY <2>2, <3>3, <4>1 DEF CreditFails
    <3>4. QED
      BY <2>8, <3>1, <3>2, <3>3 DEF Ledger
  <2>9. CASE Gateway \/ UNCHANGED vars
    <3>1. entries' = entries /\ posting' = posting
      BY <2>9 DEF Gateway, vars, bookVars
    <3>2. QED
      BY <2>3, <3>1
  <2>10. QED
    BY <2>3, <2>4, <2>6, <2>7, <2>8, <2>9 DEF TopupNext
<1>2. QED
  BY <1>1, TopupInvariant, PTL DEF TopupSpec, CreditSettled
==============================================================================
