------------------------------ MODULE LiveFeed ------------------------------
(***************************************************************************)
(* The page of the x402 console and the page of the WEA console as         *)
(* monitors: each polls its service for a list of what happened, and for   *)
(* figures, and says in its header whether the service can be reached.     *)
(* What the two pages run is in CheckoutClients.                           *)
(***************************************************************************)
EXTENDS TokenBackend

CONSTANTS
    Looks,      \* bound: polls of such a page under way at a time
    FeedLimit   \* how many entries the list asks for

ASSUME FeedAssumption == FeedLimit \in Nat

VARIABLES
    feed,    \* what the page shows; the lists it has not got are empty
    looks    \* its polls

feedVars == <<feed, looks>>

NewFeed == [list |-> 0, figures |-> 0, known |-> FALSE, live |-> TRUE]
NoLook == [at |-> "none", list |-> NoRequest, figures |-> NoRequest]

FeedInit ==
    /\ feed = NewFeed
    /\ looks = [k \in Looks |-> NoLook]

FeedArrives(p) == feed' = NewFeed /\ looks' = [k \in Looks |-> NoLook]

(* pollOnce: on arrival, every two seconds, by the WEA page's refresh      *)
(* button and after every run, whatever polls are under way.               *)
PollOnce(k) ==
    /\ page = "feed"
    /\ looks[k].at = "none"
    /\ looks' = [looks EXCEPT ![k].at = "asked"]
    /\ UNCHANGED <<backendVars, tabVars, feed>>

(* Each of the two proxy routes asks the service, at a moment of its own.  *)
ServeList(k) ==
    /\ looks[k].at = "asked"
    /\ looks[k].list.at = "none"
    /\ looks' = [looks EXCEPT ![k].list = Served]
    /\ UNCHANGED <<backendVars, tabVars, feed>>

ServeFigures(k) ==
    /\ looks[k].at = "asked"
    /\ looks[k].figures.at = "none"
    /\ looks' = [looks EXCEPT ![k].figures = Served]
    /\ UNCHANGED <<backendVars, tabVars, feed>>

(* Both have answered: the list is shown, while the figures are still      *)
(* being parsed.                                                           *)
ShowList(k) ==
    /\ looks[k].at = "asked"
    /\ looks[k].list.at # "none" /\ looks[k].figures.at # "none"
    /\ looks' = [looks EXCEPT ![k].at = "listed"]
    /\ feed' = [feed EXCEPT !.list = IF looks[k].list.at = "answered" THEN looks[k].list.seen ELSE @]
    /\ UNCHANGED <<backendVars, tabVars>>

(* Fault: nothing takes the alarm back. *)
ShowFiguresAlarmed(k) ==
    /\ looks[k].at = "listed"
    /\ looks' = [looks EXCEPT ![k] = NoLook]
    /\ feed' = [feed EXCEPT
           !.figures = IF looks[k].figures.at = "answered" THEN looks[k].figures.seen ELSE @,
           !.known = @ \/ looks[k].figures.at = "answered",
           !.live = @ /\ looks[k].list.at = "answered" /\ looks[k].figures.at = "answered"]
    /\ UNCHANGED <<backendVars, tabVars>>

(* Then the figures, and whether both were good. *)
ShowFigures(k) ==
    /\ looks[k].at = "listed"
    /\ looks' = [looks EXCEPT ![k] = NoLook]
    /\ feed' = [feed EXCEPT
           !.figures = IF looks[k].figures.at = "answered" THEN looks[k].figures.seen ELSE @,
           !.known = @ \/ looks[k].figures.at = "answered",
           !.live = looks[k].list.at = "answered" /\ looks[k].figures.at = "answered"]
    /\ UNCHANGED <<backendVars, tabVars>>

(* The console's own server cannot be reached either: the page's catch.    *)
PollThrows(k) ==
    /\ looks[k].at = "asked"
    /\ ~up
    /\ looks' = [looks EXCEPT ![k] = NoLook]
    /\ feed' = [feed EXCEPT !.live = FALSE]
    /\ UNCHANGED <<backendVars, tabVars>>

FeedNext ==
    \E k \in Looks : \/ PollOnce(k) \/ ServeList(k) \/ ServeFigures(k)
                     \/ ShowList(k) \/ ShowFigures(k) \/ PollThrows(k)

FeedTypeOK ==
    /\ feed \in [list : 0..MaxEntries, figures : 0..MaxEntries,
               known : BOOLEAN, live : BOOLEAN]
    /\ looks \in [Looks -> [at : {"none", "asked", "listed"}, list : Requests, figures : Requests]]

(* The cards; the strip of figures, and the wallets that come with them,   *)
(* whose balances the WEA itself may not know; the pill of the header.     *)
Cards == Recent(feed.list, FeedLimit)

Strip == IF feed.known THEN [told |-> feed.figures] ELSE [dash |-> TRUE]

Wallets == IF feed.known THEN {"payer", "recipient"} ELSE {}

Pill == IF feed.live THEN "ok" ELSE "danger"
==============================================================================
