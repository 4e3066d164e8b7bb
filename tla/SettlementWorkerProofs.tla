------------------------ MODULE SettlementWorkerProofs ------------------------
(***************************************************************************)
(* Proofs about SettlementWorker, for any number of settlements, any       *)
(* callback schedule, any window of the depeg monitor and any number of    *)
(* faults: what a caller is told, how often, and why settlements are       *)
(* suspended.                                                              *)
(***************************************************************************)
EXTENDS SettlementWorker, TLAPS

(* The rows of a queue are rows of S, each once. *)
Queued(q, S) ==
    /\ q \in Seq(S)
    /\ \A i, j \in 1..Len(q) : q[i] = q[j] => i = j

InStatus(s) == {r \in Settlements : status[r] = s}
InCallback(c) == {r \in Settlements : cb[r] = c}

(* A queue holds rows in the state it is for. *)
QueueInv ==
    /\ Queued(pendingQ, InStatus("pending"))
    /\ Queued(sentQ, InStatus("broadcasting"))
    /\ Queued(dueQ, InCallback("pending"))

(* The worker's row is the head of the queue it took it from, or one whose *)
(* callback it claimed; it was told of what it records as told.            *)
WorkerInv ==
    /\ wpc = "sending" => pendingQ # <<>> /\ wrow = Head(pendingQ)
    /\ wpc \in {"posting", "ok", "not_ok"} => wrow \in Settlements /\ cb[wrow] = "in_flight"
    /\ wpc = "ok" => status[wrow] \in told[wrow]

Undecided == {"absent", "pending", "broadcasting"}

(* What a row says is what the cluster decided, and its caller was told    *)
(* nothing else.                                                           *)
RowInv(r) ==
    /\ status[r] \in Undecided <=> cb[r] = "null"
    /\ status[r] \in {"confirmed", "done"} => onchain[r] = "ok"
    /\ status[r] = "failed" => onchain[r] = "err"
    /\ told[r] \subseteq {IF status[r] = "done" THEN "confirmed" ELSE status[r]}
    /\ status[r] = "done" => "confirmed" \in told[r] /\ cb[r] = "sent_ok"

(* A row that can still be called back has attempts left; a POST is ahead  *)
(* of its count once it is made, for ever if its outcome was not recorded. *)
Ahead(r) ==
    IF cb[r] \in {"in_flight", "sent_ok"} /\ ~(wpc = "posting" /\ wrow = r) THEN 1 ELSE 0

CountInv(r) ==
    /\ cb[r] # "fail_dead_letter" => attempts[r] < MaxCallbacks
    /\ posts[r] <= attempts[r] + Ahead(r)

(* What the monitor remembers was sampled since the last price inside.     *)
MonitorInv ==
    /\ consecutive <= streak
    /\ mpc = "engage" => consecutive >= Window

SettlementInv ==
    /\ WorkerTypeOK /\ QueueInv /\ WorkerInv /\ MonitorInv
    /\ \A r \in Settlements : RowInv(r) /\ CountInv(r)

------------------------------------------------------------------------------
(* Queues.                                                                 *)

LEMMA Stays ==
    ASSUME NEW S, NEW T, NEW q, Queued(q, S), S \subseteq T
    PROVE  Queued(q, T)
<1>1. q \in Seq(S) BY DEF Queued
<1>2. q \in Seq(T) BY <1>1
<1> QED BY <1>2 DEF Queued

LEMMA Joins ==
    ASSUME NEW S, NEW T, NEW q, NEW x \in T, Queued(q, S), S \subseteq T,
           \A i \in 1..Len(q) : q[i] # x
    PROVE  Queued(Append(q, x), T)
<1>1. Queued(q, T) BY Stays
<1>2. q \in Seq(T) /\ Len(q) \in Nat BY <1>1 DEF Queued
<1>3. /\ Append(q, x) \in Seq(T) /\ Len(Append(q, x)) = Len(q) + 1
      /\ Append(q, x)[Len(q) + 1] = x /\ \A i \in 1..Len(q) : Append(q, x)[i] = q[i]
  BY <1>2
<1>4. ASSUME NEW i \in 1..(Len(q) + 1), NEW j \in 1..(Len(q) + 1),
             Append(q, x)[i] = Append(q, x)[j]
      PROVE  i = j
  <2>1. i \in 1..Len(q) \/ i = Len(q) + 1 BY <1>2
  <2>2. j \in 1..Len(q) \/ j = Len(q) + 1 BY <1>2
  <2> QED BY <1>1, <1>3, <1>4, <2>1, <2>2 DEF Queued
<1> QED BY <1>3, <1>4 DEF Queued

LEMMA Leaves ==
    ASSUME NEW S, NEW T, NEW q, Queued(q, S), q # <<>>, S \ {Head(q)} \subseteq T
    PROVE  Head(q) \in S /\ Queued(Tail(q), T)
<1>1. q \in Seq(S) /\ Len(q) \in Nat \ {0} BY DEF Queued
<1>2. Head(q) = q[1] /\ q[1] \in S BY <1>1
<1>3. /\ Tail(q) \in Seq(S) /\ Len(Tail(q)) = Len(q) - 1
      /\ \A i \in 1..(Len(q) - 1) : Tail(q)[i] = q[i + 1]
  BY <1>1
<1>4. \A i \in 1..(Len(q) - 1) : i + 1 \in 1..Len(q) BY <1>1
<1>5. ASSUME NEW i \in 1..(Len(q) - 1) PROVE Tail(q)[i] \in T
  <2>1. q[i + 1] \in S BY <1>1, <1>4
  <2>2. q[i + 1] # q[1] BY <1>1, <1>4 DEF Queued
  <2> QED BY <1>2, <1>3, <2>1, <2>2
<1>6. Tail(q) \in Seq(T)
  <2> DEFINE t == Tail(q)
  <2>1. t \in Seq(S) /\ \A i \in 1..Len(t) : t[i] \in T BY <1>3, <1>5
  <2> HIDE DEF t
  <2>2. t \in Seq(T) BY <2>1
  <2> QED BY <2>2 DEF t
<1>7. ASSUME NEW i \in 1..(Len(q) - 1), NEW j \in 1..(Len(q) - 1), Tail(q)[i] = Tail(q)[j]
      PROVE  i = j
  <2>1. i + 1 = j + 1 BY <1>3, <1>4, <1>7 DEF Queued
  <2> QED BY <2>1
<1> QED BY <1>2, <1>3, <1>6, <1>7 DEF Queued

------------------------------------------------------------------------------
(* Steps that leave the rows alone: the worker goes on to another pass, a  *)
(* call fails, the cluster decides, the monitor runs, the process stops.   *)

LEMMA RowsUntouched ==
    ASSUME SettlementInv, UNCHANGED <<rowVars, told, posts, flaw>>,
           onchain' \in [Settlements -> {"unseen", "sent", "ok", "err"}],
           \A r \in Settlements : onchain[r] \in {"ok", "err"} => onchain'[r] = onchain[r],
           wpc' \in {"broadcast", "sending", "confirm", "callback", "posting", "ok", "not_ok"},
           wrow' \in Settlements \cup {NoRow}, faults' \in 0..MaxFaults,
           wpc' = "posting" => wpc = "posting" /\ wrow' = wrow,
           WorkerInv', DepegTypeOK', MonitorInv'
    PROVE  SettlementInv'
<1>1. /\ status' = status /\ pendingQ' = pendingQ /\ sentQ' = sentQ /\ cb' = cb
      /\ attempts' = attempts /\ dueQ' = dueQ /\ told' = told /\ posts' = posts /\ flaw' = flaw
  BY DEF rowVars
<1>2. WorkerTypeOK' BY <1>1 DEF SettlementInv, WorkerTypeOK
<1>3. QueueInv' BY <1>1 DEF SettlementInv, QueueInv, InStatus, InCallback
<1>4. ASSUME NEW r \in Settlements PROVE RowInv(r)' /\ CountInv(r)'
  <2>1. RowInv(r) /\ CountInv(r) BY DEF SettlementInv
  <2>2. RowInv(r)' BY <1>1, <2>1 DEF RowInv
  <2>3. posts[r] \in Nat /\ attempts[r] \in Nat BY DEF SettlementInv, WorkerTypeOK
  <2>4. CountInv(r)' BY <1>1, <2>1, <2>3 DEF CountInv, Ahead
  <2> QED BY <2>2, <2>4
<1> QED BY <1>2, <1>3, <1>4 DEF SettlementInv

LEMMA FaultCounted == ASSUME WorkerTypeOK, Fault PROVE faults' \in 0..MaxFaults
BY WorkerAssumption DEF WorkerTypeOK, Fault

LEMMA HeadOfPending ==
    ASSUME SettlementInv, pendingQ # <<>>
    PROVE  Head(pendingQ) \in Settlements /\ status[Head(pendingQ)] = "pending"
<1>1. Queued(pendingQ, InStatus("pending")) BY DEF SettlementInv, QueueInv
<1>2. Head(pendingQ) \in InStatus("pending") BY <1>1, Leaves
<1> QED BY <1>2 DEF InStatus

LEMMA MoveKeeps ==
    ASSUME SettlementInv,
           \/ BroadcastPass \/ BroadcastFails \/ ConfirmFails \/ CallbackNone
           \/ CallbackClaimFails \/ CallbackRecordFails
           \/ ConfirmPass /\ UNCHANGED rowVars
    PROVE  SettlementInv'
<1>1. WorkerTypeOK /\ WorkerInv /\ MonitorInv BY DEF SettlementInv
<1>2. UNCHANGED <<rowVars, told, posts, flaw>> /\ UNCHANGED depegVars
  BY DEF BroadcastPass, BroadcastFails, ConfirmFails, CallbackNone, CallbackClaimFails,
         CallbackRecordFails, ConfirmPass, outsideVars
<1>3. /\ onchain' \in [Settlements -> {"unseen", "sent", "ok", "err"}]
      /\ \A r \in Settlements : onchain[r] \in {"ok", "err"} => onchain'[r] = onchain[r]
  <2>1. onchain' = onchain \/ (BroadcastFails /\ Send)
    BY DEF BroadcastPass, BroadcastFails, ConfirmFails, CallbackNone, CallbackClaimFails,
           CallbackRecordFails, ConfirmPass, outsideVars
  <2>2. CASE onchain' = onchain BY <1>1, <2>2 DEF WorkerTypeOK
  <2>3. CASE BroadcastFails /\ Send
    <3>1. wrow \in Settlements BY <1>1, <2>3, HeadOfPending DEF BroadcastFails, WorkerInv
    <3> QED BY <1>1, <2>3, <3>1 DEF Send, WorkerTypeOK
  <2> QED BY <2>1, <2>2, <2>3
<1>4. /\ \/ wpc' \in {"broadcast", "confirm", "callback"} /\ wrow' = NoRow
         \/ wpc' = "sending" /\ pendingQ # <<>> /\ wrow' = Head(pendingQ)
  BY DEF BroadcastPass, BroadcastFails, ConfirmFails, CallbackNone, CallbackClaimFails,
         CallbackRecordFails, ConfirmPass, WGoto
<1>5. wrow' \in Settlements \cup {NoRow} BY <1>4, HeadOfPending
<1>6. faults' \in 0..MaxFaults
  <2>1. faults' = faults \/ Fault
    BY DEF BroadcastPass, BroadcastFails, ConfirmFails, CallbackNone, CallbackClaimFails,
           CallbackRecordFails, ConfirmPass, FailsFor
  <2> QED BY <1>1, <2>1, FaultCounted DEF WorkerTypeOK
<1>7. WorkerInv' BY <1>2, <1>4 DEF WorkerInv, rowVars
<1>8. DepegTypeOK' /\ MonitorInv'
  BY <1>1, <1>2 DEF WorkerTypeOK, DepegTypeOK, MonitorInv, depegVars
<1> QED BY <1>2, <1>3, <1>4, <1>5, <1>6, <1>7, <1>8, RowsUntouched

LEMMA ChainDecidesKeeps ==
    ASSUME SettlementInv, NEW r \in Settlements, ChainDecides(r)
    PROVE  SettlementInv'
<1>1. WorkerTypeOK /\ WorkerInv /\ MonitorInv BY DEF SettlementInv
<1>2. UNCHANGED <<rowVars, told, posts, flaw>> /\ UNCHANGED depegVars /\ UNCHANGED <<workerVars, faults>>
  BY DEF ChainDecides
<1>3. wpc' = wpc /\ wrow' = wrow /\ faults' = faults BY <1>2 DEF workerVars
<1>4. /\ onchain' \in [Settlements -> {"unseen", "sent", "ok", "err"}]
      /\ \A q \in Settlements : onchain[q] \in {"ok", "err"} => onchain'[q] = onchain[q]
  BY <1>1 DEF ChainDecides, WorkerTypeOK
<1>5. WorkerInv' BY <1>1, <1>2, <1>3 DEF WorkerInv, rowVars
<1>6. DepegTypeOK' /\ MonitorInv'
  BY <1>1, <1>2 DEF WorkerTypeOK, DepegTypeOK, MonitorInv, depegVars
<1>7. /\ wpc' \in {"broadcast", "sending", "confirm", "callback", "posting", "ok", "not_ok"}
      /\ wrow' \in Settlements \cup {NoRow} /\ faults' \in 0..MaxFaults
  BY <1>1, <1>3 DEF WorkerTypeOK
<1> QED BY <1>2, <1>3, <1>4, <1>5, <1>6, <1>7, RowsUntouched

(* The monitor alone. *)
LEMMA MonitorStep ==
    ASSUME DepegTypeOK, MonitorInv, DepegNext \/ MonitorRestarts
    PROVE  DepegTypeOK' /\ MonitorInv'
<1> USE DepegAssumption DEF DepegTypeOK, MonitorInv
<1>1. CASE SampleInside BY <1>1 DEF SampleInside
<1>2. CASE SampleOutside BY <1>2 DEF SampleOutside
<1>3. CASE MonitorReads BY <1>3 DEF MonitorReads
<1>4. CASE MonitorEngages BY <1>4 DEF MonitorEngages, Stored, Bound
<1>5. CASE OperatorSets BY <1>5 DEF OperatorSets, Stored
<1>6. CASE MonitorRestarts BY <1>6 DEF MonitorRestarts
<1> QED BY <1>1, <1>2, <1>3, <1>4, <1>5, <1>6 DEF DepegNext

LEMMA MonitorKeeps ==
    ASSUME SettlementInv, Monitor
    PROVE  SettlementInv'
<1>1. WorkerTypeOK /\ WorkerInv /\ MonitorInv BY DEF SettlementInv
<1>2. UNCHANGED <<rowVars, told, posts, flaw>> /\ UNCHANGED <<workerVars, onchain, faults>>
  BY DEF Monitor, outsideVars
<1>3. wpc' = wpc /\ wrow' = wrow /\ faults' = faults /\ onchain' = onchain BY <1>2 DEF workerVars
<1>4. WorkerInv' BY <1>1, <1>2, <1>3 DEF WorkerInv, rowVars
<1>5. DepegTypeOK' /\ MonitorInv' BY <1>1, MonitorStep DEF WorkerTypeOK, Monitor
<1>6. /\ wpc' \in {"broadcast", "sending", "confirm", "callback", "posting", "ok", "not_ok"}
      /\ wrow' \in Settlements \cup {NoRow} /\ faults' \in 0..MaxFaults
      /\ onchain' \in [Settlements -> {"unseen", "sent", "ok", "err"}]
  BY <1>1, <1>3 DEF WorkerTypeOK
<1> QED BY <1>2, <1>3, <1>4, <1>5, <1>6, RowsUntouched

LEMMA CrashKeeps ==
    ASSUME SettlementInv, Crash
    PROVE  SettlementInv'
<1>1. WorkerTypeOK /\ MonitorInv BY DEF SettlementInv
<1>2. UNCHANGED <<rowVars, told, posts, flaw>> /\ onchain' = onchain BY DEF Crash, outsideVars
<1>3. wpc' = "broadcast" /\ wrow' = NoRow BY DEF Crash, WGoto
<1>4. faults' \in 0..MaxFaults BY <1>1, FaultCounted DEF Crash
<1>5. WorkerInv' BY <1>3 DEF WorkerInv
<1>6. DepegTypeOK' /\ MonitorInv' BY <1>1, MonitorStep DEF WorkerTypeOK, Crash
<1>7. onchain' \in [Settlements -> {"unseen", "sent", "ok", "err"}] BY <1>1, <1>2 DEF WorkerTypeOK
<1> QED BY <1>2, <1>3, <1>4, <1>5, <1>6, <1>7, RowsUntouched

------------------------------------------------------------------------------
(* Steps that change a row.                                                *)

LEMMA RowKept ==
    ASSUME NEW r \in Settlements, RowInv(r), CountInv(r), posts[r] \in Nat, attempts[r] \in Nat,
           status'[r] = status[r], cb'[r] = cb[r], onchain'[r] = onchain[r], told'[r] = told[r],
           attempts'[r] = attempts[r], posts'[r] = posts[r],
           wpc' = "posting" /\ wrow' = r => wpc = "posting" /\ wrow = r
    PROVE  RowInv(r)' /\ CountInv(r)'
<1>1. RowInv(r)' BY DEF RowInv
<1>2. CountInv(r)' BY DEF CountInv, Ahead
<1> QED BY <1>1, <1>2

LEMMA Types ==
    ASSUME SettlementInv
    PROVE  /\ WorkerTypeOK /\ QueueInv /\ WorkerInv /\ MonitorInv
           /\ \A r \in Settlements : /\ RowInv(r) /\ CountInv(r)
                                     /\ posts[r] \in Nat /\ attempts[r] \in 0..MaxCallbacks
                                     /\ attempts[r] \in Nat
BY DEF SettlementInv, WorkerTypeOK

LEMMA NotCalledYet ==
    ASSUME WorkerTypeOK, NEW r \in Settlements, RowInv(r), status[r] \in Undecided
    PROVE  cb[r] = "null" /\ told[r] = {}
<1>1. cb[r] = "null" BY DEF RowInv
<1>2. told[r] \subseteq {"confirmed", "failed"} BY DEF WorkerTypeOK
<1>3. status[r] \notin {"confirmed", "failed", "done"} BY DEF Undecided
<1>4. told[r] \subseteq {status[r]} BY <1>3 DEF RowInv
<1>5. \A x \in told[r] : FALSE BY <1>2, <1>3, <1>4
<1> QED BY <1>1, <1>5

(* A queue of rows in a state is a queue of rows. *)
LEMMA QueueTypesKept ==
    ASSUME QueueInv'
    PROVE  {pendingQ', sentQ', dueQ'} \subseteq Seq(Settlements)
<1>1. InStatus("pending")' \subseteq Settlements /\ InStatus("broadcasting")' \subseteq Settlements
      /\ InCallback("pending")' \subseteq Settlements
  BY DEF InStatus, InCallback
<1>2. /\ Queued(pendingQ', Settlements) /\ Queued(sentQ', Settlements) /\ Queued(dueQ', Settlements)
  BY <1>1, Stays DEF QueueInv
<1> QED BY <1>2 DEF Queued

LEMMA CreateKeeps ==
    ASSUME SettlementInv, NEW r \in Settlements, CreateSettlement(r)
    PROVE  SettlementInv'
<1>1. /\ WorkerTypeOK /\ QueueInv /\ WorkerInv /\ MonitorInv
      /\ \A q \in Settlements : /\ RowInv(q) /\ CountInv(q)
                                /\ posts[q] \in Nat /\ attempts[q] \in Nat
  BY Types
<1>2. /\ sentQ' = sentQ /\ cb' = cb /\ attempts' = attempts /\ dueQ' = dueQ /\ wpc' = wpc
      /\ wrow' = wrow /\ onchain' = onchain /\ told' = told /\ posts' = posts /\ flaw' = flaw
      /\ UNCHANGED depegVars /\ pendingQ' = Append(pendingQ, r) /\ status[r] = "absent"
  BY DEF CreateSettlement, workerVars, outsideVars
<1>3. /\ status' = [status EXCEPT ![r] = "pending"]
      /\ status'[r] = "pending" /\ \A q \in Settlements : q # r => status'[q] = status[q]
  BY <1>1 DEF CreateSettlement, SetStatus, WorkerTypeOK
<1>4. QueueInv'
  <2>1. Queued(pendingQ', InStatus("pending")')
    <3>1. InStatus("pending") \subseteq InStatus("pending")' /\ r \in InStatus("pending")'
      BY <1>2, <1>3 DEF InStatus
    <3>2. \A i \in 1..Len(pendingQ) : pendingQ[i] # r
      <4>1. pendingQ \in Seq(InStatus("pending")) BY <1>1 DEF QueueInv, Queued
      <4>2. \A i \in 1..Len(pendingQ) : pendingQ[i] \in InStatus("pending") BY <4>1
      <4>3. r \notin InStatus("pending") BY <1>2 DEF InStatus
      <4> QED BY <4>2, <4>3
    <3>3. Queued(pendingQ, InStatus("pending")) BY <1>1 DEF QueueInv
    <3> QED BY <1>2, <3>1, <3>2, <3>3, Joins
  <2>2. Queued(sentQ', InStatus("broadcasting")')
    <3>1. InStatus("broadcasting") \subseteq InStatus("broadcasting")' BY <1>2, <1>3 DEF InStatus
    <3> QED BY <1>1, <1>2, <3>1, Stays DEF QueueInv
  <2>3. Queued(dueQ', InCallback("pending")') BY <1>1, <1>2 DEF QueueInv, InCallback
  <2> QED BY <2>1, <2>2, <2>3 DEF QueueInv
<1>5. WorkerInv'
  <2>1. wpc = "sending" => pendingQ' # <<>> /\ wrow = Head(pendingQ')
    <3>1. ASSUME pendingQ # <<>> PROVE pendingQ' # <<>> /\ Head(pendingQ') = Head(pendingQ)
      <4>1. pendingQ \in Seq(Settlements) BY <1>1 DEF WorkerTypeOK
      <4> QED BY <1>2, <3>1, <4>1
    <3> QED BY <1>1, <3>1 DEF WorkerInv
  <2>2. wpc \in {"posting", "ok", "not_ok"} => wrow # r
    <3>1. cb[r] = "null" BY <1>1, <1>2 DEF RowInv, Undecided
    <3> QED BY <1>1, <3>1 DEF WorkerInv
  <2>3. wpc = "ok" => status'[wrow] \in told[wrow] BY <1>1, <1>3, <2>2 DEF WorkerInv
  <2> QED BY <1>1, <1>2, <2>1, <2>3 DEF WorkerInv
<1>6. WorkerTypeOK'
  <2>1. faults' \in 0..MaxFaults
    <3>1. faults' = faults \/ Fault BY DEF CreateSettlement
    <3> QED BY <1>1, <3>1, FaultCounted DEF WorkerTypeOK
  <2>2. DepegTypeOK' BY <1>1, <1>2 DEF WorkerTypeOK, DepegTypeOK, depegVars
  <2>3. {pendingQ', sentQ', dueQ'} \subseteq Seq(Settlements) BY <1>4, QueueTypesKept
  <2>4. status' \in [Settlements -> {"absent", "pending", "broadcasting", "confirmed", "failed", "done"}]
    BY <1>1, <1>3 DEF WorkerTypeOK
  <2> QED BY <1>1, <1>2, <2>1, <2>2, <2>3, <2>4 DEF WorkerTypeOK
<1>7. MonitorInv' BY <1>1, <1>2 DEF MonitorInv, depegVars
<1>8. ASSUME NEW q \in Settlements PROVE RowInv(q)' /\ CountInv(q)'
  <2>1. CASE q # r BY <1>1, <1>2, <1>3, <2>1, RowKept
  <2>2. CASE q = r
    <3>0. cb[q] = "null" /\ told[q] = {} BY <1>1, <1>2, <2>2, NotCalledYet DEF Undecided
    <3>1. RowInv(q)' BY <1>2, <1>3, <2>2, <3>0 DEF RowInv, Undecided
    <3>2. CountInv(q)' BY <1>1, <1>2, <2>2 DEF CountInv, Ahead
    <3> QED BY <3>1, <3>2
  <2> QED BY <2>1, <2>2
<1> QED BY <1>4, <1>5, <1>6, <1>7, <1>8 DEF SettlementInv

LEMMA BroadcastSentKeeps ==
    ASSUME SettlementInv, BroadcastSent
    PROVE  SettlementInv'
<1>1. /\ WorkerTypeOK /\ QueueInv /\ WorkerInv /\ MonitorInv
      /\ \A q \in Settlements : /\ RowInv(q) /\ CountInv(q)
                                /\ posts[q] \in Nat /\ attempts[q] \in Nat
  BY Types
<1>2. /\ cb' = cb /\ attempts' = attempts /\ dueQ' = dueQ /\ wpc' = "confirm" /\ wrow' = NoRow
      /\ told' = told /\ posts' = posts /\ flaw' = flaw /\ faults' = faults /\ UNCHANGED depegVars
      /\ pendingQ' = Tail(pendingQ) /\ sentQ' = Append(sentQ, wrow)
  BY DEF BroadcastSent, WGoto
<1>3. pendingQ # <<>> /\ wrow = Head(pendingQ) /\ wrow \in Settlements /\ status[wrow] = "pending"
  BY <1>1, HeadOfPending DEF BroadcastSent, WorkerInv
<1>4. /\ status' \in [Settlements -> {"absent", "pending", "broadcasting", "confirmed", "failed", "done"}]
      /\ status'[wrow] = "broadcasting"
      /\ \A q \in Settlements : q # wrow => status'[q] = status[q]
  BY <1>1, <1>3 DEF BroadcastSent, SetStatus, WorkerTypeOK
<1>5. /\ onchain' \in [Settlements -> {"unseen", "sent", "ok", "err"}]
      /\ \A q \in Settlements : q # wrow => onchain'[q] = onchain[q]
  BY <1>1, <1>3 DEF BroadcastSent, Send, WorkerTypeOK
<1>6. QueueInv'
  <2>1. Queued(pendingQ', InStatus("pending")')
    <3>1. InStatus("pending") \ {Head(pendingQ)} \subseteq InStatus("pending")'
      BY <1>3, <1>4 DEF InStatus
    <3>2. Queued(pendingQ, InStatus("pending")) BY <1>1 DEF QueueInv
    <3> QED BY <1>2, <1>3, <3>1, <3>2, Leaves
  <2>2. Queued(sentQ', InStatus("broadcasting")')
    <3>1. InStatus("broadcasting") \subseteq InStatus("broadcasting")' /\ wrow \in InStatus("broadcasting")'
      BY <1>3, <1>4 DEF InStatus
    <3>2. Queued(sentQ, InStatus("broadcasting")) BY <1>1 DEF QueueInv
    <3>3. \A i \in 1..Len(sentQ) : sentQ[i] # wrow
      <4>1. sentQ \in Seq(InStatus("broadcasting")) BY <3>2 DEF Queued
      <4>2. \A i \in 1..Len(sentQ) : sentQ[i] \in InStatus("broadcasting") BY <4>1
      <4>3. wrow \notin InStatus("broadcasting") BY <1>3 DEF InStatus
      <4> QED BY <4>2, <4>3
    <3> QED BY <1>2, <3>1, <3>2, <3>3, Joins
  <2>3. Queued(dueQ', InCallback("pending")') BY <1>1, <1>2 DEF QueueInv, InCallback
  <2> QED BY <2>1, <2>2, <2>3 DEF QueueInv
<1>7. WorkerTypeOK'
  <2>1. DepegTypeOK' BY <1>1, <1>2 DEF WorkerTypeOK, DepegTypeOK, depegVars
  <2>2. {pendingQ', sentQ', dueQ'} \subseteq Seq(Settlements) BY <1>6, QueueTypesKept
  <2> QED BY <1>1, <1>2, <1>4, <1>5, <2>1, <2>2 DEF WorkerTypeOK
<1>8. WorkerInv' BY <1>2 DEF WorkerInv
<1>9. MonitorInv' BY <1>1, <1>2 DEF MonitorInv, depegVars
<1>10. ASSUME NEW q \in Settlements PROVE RowInv(q)' /\ CountInv(q)'
  <2>1. CASE q # wrow BY <1>1, <1>2, <1>4, <1>5, <2>1, RowKept
  <2>2. CASE q = wrow
    <3>1. cb[q] = "null" /\ told[q] = {} BY <1>1, <1>3, <2>2, NotCalledYet DEF Undecided
    <3>2. RowInv(q)' BY <1>2, <1>4, <2>2, <3>1 DEF RowInv, Undecided
    <3>3. CountInv(q)' BY <1>1, <1>2, <3>1 DEF CountInv, Ahead
    <3> QED BY <3>2, <3>3
  <2> QED BY <2>1, <2>2
<1> QED BY <1>6, <1>7, <1>8, <1>9, <1>10 DEF SettlementInv
(* The head of sentQ is decided as the cluster decided it. *)
LEMMA ConfirmPassKeeps ==
    ASSUME SettlementInv, ConfirmPass
    PROVE  SettlementInv'
<1>1. /\ WorkerTypeOK /\ QueueInv /\ WorkerInv /\ MonitorInv
      /\ \A q \in Settlements : /\ RowInv(q) /\ CountInv(q)
                                /\ posts[q] \in Nat /\ attempts[q] \in Nat
  BY Types
<1>2. /\ pendingQ' = pendingQ /\ attempts' = attempts /\ wpc' = "callback" /\ wrow' = NoRow
      /\ onchain' = onchain /\ told' = told /\ posts' = posts /\ flaw' = flaw /\ faults' = faults
      /\ UNCHANGED depegVars
  BY DEF ConfirmPass, WGoto, outsideVars
<1>3. CASE UNCHANGED rowVars BY <1>3, MoveKeeps
<1> DEFINE h == Head(sentQ)
           s == IF onchain[h] = "ok" THEN "confirmed" ELSE "failed"
<1>4. CASE sentQ # <<>> /\ onchain[h] \in {"ok", "err"} /\ Decide(h, s)
  <2>1. h \in Settlements /\ status[h] = "broadcasting" /\ Queued(Tail(sentQ), InStatus("broadcasting") \ {h})
    <3>1. Queued(sentQ, InStatus("broadcasting")) BY <1>1 DEF QueueInv
    <3>2. h \in InStatus("broadcasting") /\ Queued(Tail(sentQ), InStatus("broadcasting") \ {h})
      BY <1>4, <3>1, Leaves
    <3> QED BY <3>2 DEF InStatus
  <2> HIDE DEF h
  <2>2. /\ status' \in [Settlements -> {"absent", "pending", "broadcasting", "confirmed", "failed", "done"}]
        /\ status'[h] = s /\ \A q \in Settlements : q # h => status'[q] = status[q]
    BY <1>1, <1>4, <2>1 DEF Decide, SetStatus, WorkerTypeOK
  <2>3. /\ cb' \in [Settlements -> {"null", "pending", "in_flight"} \cup Final]
        /\ cb'[h] = "pending" /\ \A q \in Settlements : q # h => cb'[q] = cb[q]
    BY <1>1, <1>4, <2>1 DEF Decide, WorkerTypeOK
  <2>4. sentQ' = Tail(sentQ) /\ dueQ' = Append(dueQ, h) BY <1>4 DEF Decide, h
  <2>5. cb[h] = "null" /\ told[h] = {} BY <1>1, <2>1, NotCalledYet DEF Undecided
  <2>6. QueueInv'
    <3>1. Queued(pendingQ', InStatus("pending")')
      <4>1. InStatus("pending") \subseteq InStatus("pending")' BY <2>1, <2>2 DEF InStatus
      <4> QED BY <1>1, <1>2, <4>1, Stays DEF QueueInv
    <3>2. Queued(sentQ', InStatus("broadcasting")')
      <4>1. InStatus("broadcasting") \ {h} \subseteq InStatus("broadcasting")'
        BY <2>1, <2>2 DEF InStatus
      <4> QED BY <2>1, <2>4, <4>1, Stays
    <3>3. Queued(dueQ', InCallback("pending")')
      <4>1. InCallback("pending") \subseteq InCallback("pending")' /\ h \in InCallback("pending")'
        BY <2>1, <2>3 DEF InCallback
      <4>2. Queued(dueQ, InCallback("pending")) BY <1>1 DEF QueueInv
      <4>3. \A i \in 1..Len(dueQ) : dueQ[i] # h
        <5>1. dueQ \in Seq(InCallback("pending")) BY <4>2 DEF Queued
        <5>2. \A i \in 1..Len(dueQ) : dueQ[i] \in InCallback("pending") BY <5>1
        <5>3. h \notin InCallback("pending") BY <2>5 DEF InCallback
        <5> QED BY <5>2, <5>3
      <4> QED BY <2>4, <4>1, <4>2, <4>3, Joins
    <3> QED BY <3>1, <3>2, <3>3 DEF QueueInv
  <2>7. WorkerTypeOK'
    <3>1. DepegTypeOK' BY <1>1, <1>2 DEF WorkerTypeOK, DepegTypeOK, depegVars
    <3>2. {pendingQ', sentQ', dueQ'} \subseteq Seq(Settlements) BY <2>6, QueueTypesKept
    <3> QED BY <1>1, <1>2, <2>2, <2>3, <3>1, <3>2 DEF WorkerTypeOK
  <2>8. WorkerInv' BY <1>2 DEF WorkerInv
  <2>9. MonitorInv' BY <1>1, <1>2 DEF MonitorInv, depegVars
  <2>10. ASSUME NEW q \in Settlements PROVE RowInv(q)' /\ CountInv(q)'
    <3>1. CASE q # h BY <1>1, <1>2, <2>2, <2>3, <3>1, RowKept
    <3>2. CASE q = h
      <4>1. RowInv(q)' BY <1>2, <1>4, <2>2, <2>3, <2>5, <3>2 DEF RowInv, Undecided
      <4>2. CountInv(q)' BY <1>1, <1>2, <2>3, <2>5, <3>2 DEF CountInv, Ahead
      <4> QED BY <4>1, <4>2
    <3> QED BY <3>1, <3>2
  <2> QED BY <2>6, <2>7, <2>8, <2>9, <2>10 DEF SettlementInv
<1>5. UNCHANGED rowVars \/ (sentQ # <<>> /\ onchain[h] \in {"ok", "err"} /\ Decide(h, s))
  BY <1>2 DEF ConfirmPass, rowVars
<1> QED BY <1>3, <1>4, <1>5

(* What steps have in common that concern callbacks only. *)
LEMMA CallbackFrame ==
    ASSUME SettlementInv, pendingQ' = pendingQ, sentQ' = sentQ, onchain' = onchain,
           UNCHANGED depegVars, faults' = faults,
           \A r \in Settlements : status[r] \in Undecided => status'[r] = status[r],
           Queued(dueQ', InCallback("pending")')
    PROVE  QueueInv' /\ DepegTypeOK' /\ MonitorInv' /\ {pendingQ', sentQ', dueQ'} \subseteq Seq(Settlements)
<1>1. WorkerTypeOK /\ QueueInv /\ MonitorInv BY Types
<1>2. InStatus("pending") \subseteq InStatus("pending")'
      /\ InStatus("broadcasting") \subseteq InStatus("broadcasting")'
  BY DEF InStatus, Undecided
<1>3. Queued(pendingQ', InStatus("pending")') BY <1>1, <1>2, Stays DEF QueueInv
<1>4. Queued(sentQ', InStatus("broadcasting")') BY <1>1, <1>2, Stays DEF QueueInv
<1>5. QueueInv' BY <1>3, <1>4 DEF QueueInv
<1>6. DepegTypeOK' /\ MonitorInv' BY <1>1 DEF WorkerTypeOK, DepegTypeOK, MonitorInv, depegVars
<1> QED BY <1>5, <1>6, QueueTypesKept

LEMMA CallbackDueKeeps ==
    ASSUME SettlementInv, NEW r \in Settlements, CallbackDue(r)
    PROVE  SettlementInv'
<1>1. /\ WorkerTypeOK /\ QueueInv /\ WorkerInv
      /\ \A q \in Settlements : /\ RowInv(q) /\ CountInv(q)
                                /\ posts[q] \in Nat /\ attempts[q] \in Nat
  BY Types
<1>2. /\ status' = status /\ pendingQ' = pendingQ /\ sentQ' = sentQ /\ cb' = cb
      /\ attempts' = attempts /\ wpc' = wpc /\ wrow' = wrow /\ onchain' = onchain
      /\ told' = told /\ posts' = posts /\ flaw' = flaw /\ faults' = faults /\ UNCHANGED depegVars
      /\ dueQ' = Append(dueQ, r)
  BY DEF CallbackDue, workerVars, outsideVars
<1>3. Queued(dueQ', InCallback("pending")')
  <2>1. InCallback("pending")' = InCallback("pending") /\ r \in InCallback("pending")
    BY <1>2 DEF InCallback, CallbackDue
  <2>2. Queued(dueQ, InCallback("pending")) BY <1>1 DEF QueueInv
  <2>3. \A i \in 1..Len(dueQ) : dueQ[i] # r BY DEF CallbackDue
  <2> QED BY <1>2, <2>1, <2>2, <2>3, Joins
<1>4. QueueInv' /\ DepegTypeOK' /\ MonitorInv' /\ {pendingQ', sentQ', dueQ'} \subseteq Seq(Settlements)
  BY <1>2, <1>3, CallbackFrame
<1>5. WorkerTypeOK' BY <1>1, <1>2, <1>4 DEF WorkerTypeOK
<1>6. WorkerInv' BY <1>1, <1>2 DEF WorkerInv
<1>7. ASSUME NEW q \in Settlements PROVE RowInv(q)' /\ CountInv(q)'
  BY <1>1, <1>2, RowKept
<1> QED BY <1>4, <1>5, <1>6, <1>7 DEF SettlementInv

LEMMA CallbackClaimKeeps ==
    ASSUME SettlementInv, CallbackClaim
    PROVE  SettlementInv'
<1>1. /\ WorkerTypeOK /\ QueueInv /\ WorkerInv
      /\ \A q \in Settlements : /\ RowInv(q) /\ CountInv(q)
                                /\ posts[q] \in Nat /\ attempts[q] \in Nat
  BY Types
<1> DEFINE h == Head(dueQ)
<1>2. /\ status' = status /\ pendingQ' = pendingQ /\ sentQ' = sentQ
      /\ attempts' = attempts /\ wpc' = "posting" /\ wrow' = h /\ onchain' = onchain
      /\ told' = told /\ posts' = posts /\ flaw' = flaw /\ faults' = faults /\ UNCHANGED depegVars
      /\ dueQ' = Tail(dueQ) /\ dueQ # <<>>
  BY DEF CallbackClaim, WGoto, outsideVars
<1>3. h \in InCallback("pending") /\ Queued(Tail(dueQ), InCallback("pending") \ {h})
  <2>1. Queued(dueQ, InCallback("pending")) BY <1>1 DEF QueueInv
  <2> QED BY <1>2, <2>1, Leaves
<1>4. h \in Settlements /\ cb[h] = "pending" BY <1>3 DEF InCallback
<1>5. cb' = [cb EXCEPT ![h] = "in_flight"] BY DEF CallbackClaim
<1> HIDE DEF h
<1>6. /\ cb' \in [Settlements -> {"null", "pending", "in_flight"} \cup Final]
      /\ cb'[h] = "in_flight" /\ \A q \in Settlements : q # h => cb'[q] = cb[q]
  BY <1>1, <1>4, <1>5 DEF WorkerTypeOK
<1>7. Queued(dueQ', InCallback("pending")')
  <2>1. InCallback("pending") \ {h} \subseteq InCallback("pending")' BY <1>6 DEF InCallback
  <2> QED BY <1>2, <1>3, <2>1, Stays
<1>8. QueueInv' /\ DepegTypeOK' /\ MonitorInv' /\ {pendingQ', sentQ', dueQ'} \subseteq Seq(Settlements)
  BY <1>2, <1>7, CallbackFrame
<1>9. WorkerTypeOK' BY <1>1, <1>2, <1>4, <1>6, <1>8 DEF WorkerTypeOK
<1>10. WorkerInv' BY <1>2, <1>4, <1>6 DEF WorkerInv
<1>11. ASSUME NEW q \in Settlements PROVE RowInv(q)' /\ CountInv(q)'
  <2>1. CASE q # h BY <1>1, <1>2, <1>6, <2>1, RowKept
  <2>2. CASE q = h
    <3>1. RowInv(q)' BY <1>1, <1>2, <1>4, <1>6, <2>2 DEF RowInv, Undecided
    <3>2. CountInv(q)' BY <1>1, <1>2, <1>4, <1>6, <2>2 DEF CountInv, Ahead
    <3> QED BY <3>1, <3>2
  <2> QED BY <2>1, <2>2
<1> QED BY <1>8, <1>9, <1>10, <1>11 DEF SettlementInv

(* A row in flight is decided and not done. *)
LEMMA InFlight ==
    ASSUME SettlementInv, wpc \in {"posting", "ok", "not_ok"}
    PROVE  wrow \in Settlements /\ cb[wrow] = "in_flight" /\ status[wrow] \in {"confirmed", "failed"}
<1>1. WorkerInv /\ WorkerTypeOK BY Types
<1>2. wrow \in Settlements /\ cb[wrow] = "in_flight" BY <1>1 DEF WorkerInv
<1>3. RowInv(wrow) /\ status[wrow] \in {"absent", "pending", "broadcasting", "confirmed", "failed", "done"}
  BY <1>1, <1>2, Types DEF WorkerTypeOK
<1> QED BY <1>2, <1>3 DEF RowInv, Undecided

LEMMA CallbackPostKeeps ==
    ASSUME SettlementInv, CallbackPost
    PROVE  SettlementInv'
<1>1. /\ WorkerTypeOK /\ QueueInv /\ WorkerInv
      /\ \A q \in Settlements : /\ RowInv(q) /\ CountInv(q)
                                /\ posts[q] \in Nat /\ attempts[q] \in Nat
  BY Types
<1>2. /\ status' = status /\ pendingQ' = pendingQ /\ sentQ' = sentQ /\ cb' = cb /\ dueQ' = dueQ
      /\ attempts' = attempts /\ wrow' = wrow /\ onchain' = onchain /\ flaw' = flaw /\ faults' = faults
      /\ UNCHANGED depegVars /\ wpc' \in {"ok", "not_ok"} /\ wpc = "posting"
  BY DEF CallbackPost, WGoto, rowVars
<1>3. wrow \in Settlements /\ cb[wrow] = "in_flight" /\ status[wrow] \in {"confirmed", "failed"}
  BY <1>2, InFlight
<1>4. \/ /\ told' = [told EXCEPT ![wrow] = told[wrow] \cup {status[wrow]}]
         /\ posts' = [posts EXCEPT ![wrow] = posts[wrow] + 1]
      \/ wpc' = "not_ok" /\ told' = told /\ posts' = posts
  BY DEF CallbackPost, WGoto
<1>5. /\ told' \in [Settlements -> SUBSET {"confirmed", "failed"}]
      /\ \A q \in Settlements : q # wrow => told'[q] = told[q]
      /\ told'[wrow] = told[wrow] \/ told'[wrow] = told[wrow] \cup {status[wrow]}
      /\ wpc' = "ok" => status[wrow] \in told'[wrow]
  <2>1. told \in [Settlements -> SUBSET {"confirmed", "failed"}] BY <1>1 DEF WorkerTypeOK
  <2>2. told[wrow] \cup {status[wrow]} \in SUBSET {"confirmed", "failed"} BY <1>3, <2>1
  <2>3. CASE told' = [told EXCEPT ![wrow] = told[wrow] \cup {status[wrow]}]
    BY <1>3, <2>1, <2>2, <2>3
  <2>4. CASE wpc' = "not_ok" /\ told' = told BY <2>1, <2>4
  <2> QED BY <1>4, <2>3, <2>4
<1>6. /\ posts' \in [Settlements -> Nat]
      /\ \A q \in Settlements : q # wrow => posts'[q] = posts[q]
      /\ posts'[wrow] <= posts[wrow] + 1
  <2>1. posts \in [Settlements -> Nat] /\ posts[wrow] + 1 \in Nat BY <1>1, <1>3 DEF WorkerTypeOK
  <2>2. CASE posts' = [posts EXCEPT ![wrow] = posts[wrow] + 1] BY <1>3, <2>1, <2>2
  <2>3. CASE posts' = posts BY <1>3, <2>1, <2>3
  <2> QED BY <1>4, <2>2, <2>3
<1>7. Queued(dueQ', InCallback("pending")') BY <1>1, <1>2 DEF QueueInv, InCallback
<1>8. QueueInv' /\ DepegTypeOK' /\ MonitorInv' /\ {pendingQ', sentQ', dueQ'} \subseteq Seq(Settlements)
  BY <1>2, <1>7, CallbackFrame
<1>9. WorkerTypeOK' BY <1>1, <1>2, <1>5, <1>6, <1>8 DEF WorkerTypeOK
<1>10. WorkerInv' BY <1>2, <1>3, <1>5 DEF WorkerInv
<1>11. ASSUME NEW q \in Settlements PROVE RowInv(q)' /\ CountInv(q)'
  <2>1. CASE q # wrow BY <1>1, <1>2, <1>5, <1>6, <2>1, RowKept
  <2>2. CASE q = wrow
    <3>1. RowInv(q)' BY <1>1, <1>2, <1>3, <1>5, <2>2 DEF RowInv, Undecided
    <3>2. CountInv(q)'
      <4>1. posts[q] <= attempts[q] BY <1>1, <1>2, <2>2 DEF CountInv, Ahead
      <4>2. posts'[q] \in Nat BY <1>6
      <4> QED BY <1>1, <1>2, <1>3, <1>6, <2>2, <4>1, <4>2 DEF CountInv, Ahead
    <3> QED BY <3>1, <3>2
  <2> QED BY <2>1, <2>2
<1> QED BY <1>8, <1>9, <1>10, <1>11 DEF SettlementInv

LEMMA CallbackSentKeeps ==
    ASSUME SettlementInv, CallbackSent
    PROVE  SettlementInv'
<1>1. /\ WorkerTypeOK /\ QueueInv /\ WorkerInv
      /\ \A q \in Settlements : /\ RowInv(q) /\ CountInv(q)
                                /\ posts[q] \in Nat /\ attempts[q] \in Nat
  BY Types
<1>2. /\ pendingQ' = pendingQ /\ sentQ' = sentQ /\ dueQ' = dueQ /\ attempts' = attempts
      /\ wpc' = "broadcast" /\ wrow' = NoRow /\ onchain' = onchain /\ told' = told
      /\ posts' = posts /\ flaw' = flaw /\ faults' = faults /\ UNCHANGED depegVars /\ wpc = "ok"
  BY DEF CallbackSent, WGoto, outsideVars
<1>3. wrow \in Settlements /\ cb[wrow] = "in_flight" /\ status[wrow] \in {"confirmed", "failed"}
  BY <1>2, InFlight
<1>4. /\ cb' \in [Settlements -> {"null", "pending", "in_flight"} \cup Final]
      /\ cb'[wrow] = "sent_ok" /\ \A q \in Settlements : q # wrow => cb'[q] = cb[q]
  BY <1>1, <1>3 DEF CallbackSent, WorkerTypeOK, Final
<1>5. /\ status' \in [Settlements -> {"absent", "pending", "broadcasting", "confirmed", "failed", "done"}]
      /\ status'[wrow] = (IF status[wrow] = "confirmed" THEN "done" ELSE status[wrow])
      /\ \A q \in Settlements : q # wrow => status'[q] = status[q]
  BY <1>1, <1>3 DEF CallbackSent, WorkerTypeOK
<1>6. Queued(dueQ', InCallback("pending")')
  <2>1. InCallback("pending") \subseteq InCallback("pending")' BY <1>3, <1>4 DEF InCallback
  <2> QED BY <1>1, <1>2, <2>1, Stays DEF QueueInv
<1>7. QueueInv' /\ DepegTypeOK' /\ MonitorInv' /\ {pendingQ', sentQ', dueQ'} \subseteq Seq(Settlements)
  <2>1. \A r \in Settlements : status[r] \in Undecided => status'[r] = status[r]
    BY <1>3, <1>5 DEF Undecided
  <2> QED BY <1>2, <1>6, <2>1, CallbackFrame
<1>8. WorkerTypeOK' BY <1>1, <1>2, <1>4, <1>5, <1>7 DEF WorkerTypeOK
<1>9. WorkerInv' BY <1>2 DEF WorkerInv
<1>10. ASSUME NEW q \in Settlements PROVE RowInv(q)' /\ CountInv(q)'
  <2>1. CASE q # wrow BY <1>1, <1>2, <1>4, <1>5, <2>1, RowKept
  <2>2. CASE q = wrow
    <3>1. status[q] \in told[q] BY <1>1, <1>2, <2>2 DEF WorkerInv
    <3>2. RowInv(q)' BY <1>1, <1>2, <1>3, <1>4, <1>5, <2>2, <3>1 DEF RowInv, Undecided
    <3>3. CountInv(q)' BY <1>1, <1>2, <1>3, <1>4, <2>2 DEF CountInv, Ahead
    <3> QED BY <3>2, <3>3
  <2> QED BY <2>1, <2>2
<1> QED BY <1>7, <1>8, <1>9, <1>10 DEF SettlementInv

LEMMA CallbackMissedKeeps ==
    ASSUME SettlementInv, CallbackMissed
    PROVE  SettlementInv'
<1>1. /\ WorkerTypeOK /\ QueueInv /\ WorkerInv
      /\ \A q \in Settlements : /\ RowInv(q) /\ CountInv(q)
                                /\ posts[q] \in Nat /\ attempts[q] \in Nat
  BY Types
<1>2. /\ status' = status /\ pendingQ' = pendingQ /\ sentQ' = sentQ /\ dueQ' = dueQ
      /\ wpc' = "broadcast" /\ wrow' = NoRow /\ onchain' = onchain /\ told' = told
      /\ posts' = posts /\ flaw' = flaw /\ faults' = faults /\ UNCHANGED depegVars /\ wpc = "not_ok"
  BY DEF CallbackMissed, WGoto, outsideVars
<1>3. wrow \in Settlements /\ cb[wrow] = "in_flight" /\ status[wrow] \in {"confirmed", "failed"}
  BY <1>2, InFlight
<1>4. attempts[wrow] < MaxCallbacks BY <1>1, <1>3 DEF CountInv
<1>5. /\ attempts' \in [Settlements -> 0..MaxCallbacks] /\ attempts'[wrow] = attempts[wrow] + 1
      /\ \A q \in Settlements : q # wrow => attempts'[q] = attempts[q]
  <2>1. attempts[wrow] + 1 \in 0..MaxCallbacks BY <1>1, <1>3, <1>4, WorkerAssumption
  <2>2. attempts' = [attempts EXCEPT ![wrow] = attempts[wrow] + 1] BY DEF CallbackMissed
  <2> QED BY <1>1, <1>3, <2>1, <2>2 DEF WorkerTypeOK
<1>6. /\ cb' \in [Settlements -> {"null", "pending", "in_flight"} \cup Final]
      /\ cb'[wrow] = (IF attempts[wrow] + 1 >= MaxCallbacks THEN "fail_dead_letter" ELSE "pending")
      /\ \A q \in Settlements : q # wrow => cb'[q] = cb[q]
  <2>1. cb' = [cb EXCEPT ![wrow] = IF attempts[wrow] + 1 >= MaxCallbacks THEN "fail_dead_letter" ELSE "pending"]
    BY <1>5 DEF CallbackMissed
  <2> QED BY <1>1, <1>3, <2>1 DEF WorkerTypeOK, Final
<1>7. Queued(dueQ', InCallback("pending")')
  <2>1. InCallback("pending") \subseteq InCallback("pending")' BY <1>3, <1>6 DEF InCallback
  <2> QED BY <1>1, <1>2, <2>1, Stays DEF QueueInv
<1>8. QueueInv' /\ DepegTypeOK' /\ MonitorInv' /\ {pendingQ', sentQ', dueQ'} \subseteq Seq(Settlements)
  BY <1>2, <1>7, CallbackFrame
<1>9. WorkerTypeOK' BY <1>1, <1>2, <1>5, <1>6, <1>8 DEF WorkerTypeOK
<1>10. WorkerInv' BY <1>2 DEF WorkerInv
<1>11. ASSUME NEW q \in Settlements PROVE RowInv(q)' /\ CountInv(q)'
  <2>1. CASE q # wrow BY <1>1, <1>2, <1>5, <1>6, <2>1, RowKept
  <2>2. CASE q = wrow
    <3>1. RowInv(q)' BY <1>1, <1>2, <1>3, <1>6, <2>2 DEF RowInv, Undecided
    <3>2. CountInv(q)'
      <4>1. posts[q] <= attempts[q] + 1 BY <1>1, <1>3, <2>2 DEF CountInv, Ahead
      <4> QED BY <1>1, <1>2, <1>5, <1>6, <2>2, <4>1, WorkerAssumption DEF CountInv, Ahead
    <3> QED BY <3>1, <3>2
  <2> QED BY <2>1, <2>2
<1> QED BY <1>8, <1>9, <1>10, <1>11 DEF SettlementInv

------------------------------------------------------------------------------
LEMMA SettlementInitInv == WorkerInit => SettlementInv
<1> SUFFICES ASSUME WorkerInit PROVE SettlementInv OBVIOUS
<1>1. WorkerTypeOK
  <2>1. DepegTypeOK BY DepegAssumption DEF WorkerInit, DepegInit, DepegTypeOK, Stored
  <2> QED BY <2>1, WorkerAssumption DEF WorkerInit, WorkerTypeOK
<1>2. QueueInv BY DEF WorkerInit, QueueInv, Queued
<1>3. WorkerInv BY DEF WorkerInit, WorkerInv
<1>4. MonitorInv BY DEF WorkerInit, DepegInit, MonitorInv
<1>5. \A r \in Settlements : RowInv(r) /\ CountInv(r)
  BY WorkerAssumption DEF WorkerInit, RowInv, CountInv, Ahead, Undecided
<1> QED BY <1>1, <1>2, <1>3, <1>4, <1>5 DEF SettlementInv

LEMMA SettlementStepInv == SettlementInv /\ [WorkerNext]_vars => SettlementInv'
<1> SUFFICES ASSUME SettlementInv, [WorkerNext]_vars PROVE SettlementInv' OBVIOUS
<1>1. CASE UNCHANGED vars
  <2>1. UNCHANGED <<rowVars, told, posts, flaw>> /\ wpc' = wpc /\ wrow' = wrow /\ onchain' = onchain
        /\ faults' = faults /\ UNCHANGED depegVars
    BY <1>1 DEF vars, workerVars, outsideVars
  <2>2. WorkerTypeOK /\ WorkerInv /\ MonitorInv BY Types
  <2>3. WorkerInv' BY <2>1, <2>2 DEF WorkerInv, rowVars
  <2>4. DepegTypeOK' /\ MonitorInv'
    BY <2>1, <2>2 DEF WorkerTypeOK, DepegTypeOK, MonitorInv, depegVars
  <2>5. /\ wpc' \in {"broadcast", "sending", "confirm", "callback", "posting", "ok", "not_ok"}
        /\ wrow' \in Settlements \cup {NoRow} /\ faults' \in 0..MaxFaults
        /\ onchain' \in [Settlements -> {"unseen", "sent", "ok", "err"}]
    BY <2>1, <2>2 DEF WorkerTypeOK
  <2> QED BY <2>1, <2>3, <2>4, <2>5, RowsUntouched
<1>2. CASE \E r \in Settlements : CreateSettlement(r) \/ ChainDecides(r) \/ CallbackDue(r)
  BY <1>2, CreateKeeps, ChainDecidesKeeps, CallbackDueKeeps
<1>3. CASE WorkerStep
  BY <1>3, MoveKeeps, BroadcastSentKeeps, ConfirmPassKeeps, CallbackClaimKeeps,
     CallbackPostKeeps, CallbackSentKeeps, CallbackMissedKeeps
  DEF WorkerStep
<1> QED BY <1>1, <1>2, <1>3, MonitorKeeps, CrashKeeps DEF WorkerNext

(* The rows, their queues, the worker and the monitor stay as              *)
(* SettlementInv describes them through crashes, failed calls and lost     *)
(* answers.                                                                *)
THEOREM SettlementInvariant == WorkerSpec => []SettlementInv
BY SettlementInitInv, SettlementStepInv, PTL DEF WorkerSpec

(* A caller is told confirmed or failed only if the cluster decided so,    *)
(* never both, and a settlement is done only when its caller was told it   *)
(* is confirmed, however often the worker is restarted in between.         *)
THEOREM CallersTold == WorkerSpec => []CallbackTellsTheChain
<1>1. SettlementInv => CallbackTellsTheChain
  <2> SUFFICES ASSUME SettlementInv, NEW r \in Settlements
               PROVE  /\ "confirmed" \in told[r] => onchain[r] = "ok"
                      /\ "failed" \in told[r] => onchain[r] = "err"
                      /\ status[r] = "done" => told[r] = {"confirmed"}
    BY DEF CallbackTellsTheChain
  <2> QED BY Types DEF RowInv
<1> QED BY <1>1, SettlementInvariant, PTL

(* No caller gets more callbacks than the schedule has intervals: a claim  *)
(* is committed before its POST, so a restart repeats none.                *)
THEOREM CallbacksWithinSchedule == WorkerSpec => []CallbacksBounded
<1>1. ASSUME SettlementInv, NEW r \in Settlements PROVE posts[r] <= MaxCallbacks
  <2>1. CountInv(r) /\ posts[r] \in Nat /\ attempts[r] \in 0..MaxCallbacks BY <1>1, Types
  <2> QED BY <2>1, WorkerAssumption DEF CountInv, Ahead
<1>2. SettlementInv => CallbacksBounded BY <1>1 DEF CallbacksBounded
<1> QED BY <1>2, SettlementInvariant, PTL

(* Settlements are suspended by the monitor only after a whole window of   *)
(* samples out of the band without one inside it, whatever the operator    *)
(* sets and however often the process is restarted.                        *)
THEOREM WindowBeforeSuspension == WorkerSpec => SuspendedOnlyAfterWindow
<1>1. SettlementInv /\ [WorkerNext]_vars
      => [updatedBy' = "depeg_monitor" /\ updatedBy # "depeg_monitor" => streak >= Window]_depegVars
  <2> SUFFICES ASSUME SettlementInv, [WorkerNext]_vars,
                      updatedBy' = "depeg_monitor", updatedBy # "depeg_monitor"
               PROVE  streak >= Window
    OBVIOUS
  <2>1. ~UNCHANGED depegVars BY DEF depegVars
  <2>2. Monitor \/ Crash
    BY <2>1 DEF WorkerNext, WorkerStep, vars, CreateSettlement, ChainDecides, CallbackDue,
       BroadcastPass, BroadcastSent, BroadcastFails, ConfirmPass, ConfirmFails, CallbackNone,
       CallbackClaim, CallbackClaimFails, CallbackPost, CallbackSent, CallbackMissed,
       CallbackRecordFails
  <2>3. MonitorEngages
    BY <2>2 DEF Monitor, Crash, MonitorRestarts, DepegNext, SampleInside, SampleOutside,
       MonitorReads, OperatorSets
  <2>4. consecutive >= Window /\ consecutive <= streak
    BY <2>3, Types DEF MonitorEngages, MonitorInv
  <2>5. consecutive \in Nat /\ streak \in Nat BY Types DEF WorkerTypeOK, DepegTypeOK
  <2> QED BY <2>4, <2>5, DepegAssumption
<1> QED BY <1>1, SettlementInvariant, PTL DEF WorkerSpec, SuspendedOnlyAfterWindow
==============================================================================
