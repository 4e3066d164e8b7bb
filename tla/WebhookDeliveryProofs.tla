------------------------ MODULE WebhookDeliveryProofs ------------------------
(***************************************************************************)
(* Proofs about WebhookDelivery, for any number of rows, any batch size    *)
(* and any number of crashes and failing UPDATEs: what a row ends with is  *)
(* earned, and the receiver sees a row a bounded number of times.          *)
(***************************************************************************)
EXTENDS WebhookDelivery, TLAPS

Live == {"pending", "failed_retrying"}

(* A due row is due once and is not concluded. *)
QueueInv ==
    /\ \A i \in 1..Len(dueQ) : state[dueQ[i]] \in Live
    /\ \A i, j \in 1..Len(dueQ) : dueQ[i] = dueQ[j] => i = j

(* The deliverer knows how often a row was tried, no row that may be tried *)
(* has used up its attempts, and what it has heard was said.               *)
WorkInv(r) ==
    /\ work[r].at # "none" => work[r].seen = attempts[r] /\ state[r] \in Live
    /\ state[r] \in Live \cup {"absent"} => attempts[r] < MaxAttempts
    /\ work[r].at = "2xx" => accepted[r]
    /\ work[r].at = "4xx" => refused[r]

(* A POST is ahead of its count only while its outcome is being recorded.  *)
CountInv(r) ==
    posts[r] <= attempts[r] + faults + (IF work[r].at \in Outcome THEN 1 ELSE 0)

EndInv(r) ==
    /\ state[r] = "delivered" => accepted[r]
    /\ state[r] = "failed_dead_letter" => refused[r] \/ attempts[r] = MaxAttempts

RowInv(r) == WorkInv(r) /\ CountInv(r) /\ EndInv(r)

WebhookInv == WebhookTypeOK /\ QueueInv /\ \A r \in Rows : RowInv(r)

------------------------------------------------------------------------------
(* The queue.                                                              *)

LEMMA RemoveAtFacts ==
    ASSUME NEW S, NEW q \in Seq(S), NEW i \in 1..Len(q)
    PROVE  /\ RemoveAt(q, i) \in Seq(S)
           /\ Len(RemoveAt(q, i)) = Len(q) - 1
           /\ \A j \in 1..(Len(q) - 1) : RemoveAt(q, i)[j] = q[IF j < i THEN j ELSE j + 1]
<1> DEFINE a == SubSeq(q, 1, i - 1)
           b == SubSeq(q, i + 1, Len(q))
<1>1. a \in Seq(S) /\ Len(a) = i - 1 /\ \A j \in 1..(i - 1) : a[j] = q[j]
  OBVIOUS
<1>2. b \in Seq(S) /\ Len(b) = Len(q) - i /\ \A j \in 1..(Len(q) - i) : b[j] = q[i + j]
  <2>1. b \in Seq(S) /\ Len(b) = Len(q) - i
    OBVIOUS
  <2>2. ASSUME NEW j \in 1..(Len(q) - i) PROVE b[j] = q[i + j]
    <3>1. b[j] = q[(i + 1) + j - 1] BY <2>1
    <3>2. (i + 1) + j - 1 = i + j OBVIOUS
    <3> QED BY <3>1, <3>2
  <2> QED BY <2>1, <2>2
<1>3. RemoveAt(q, i) = a \o b BY DEF RemoveAt
<1> HIDE DEF a, b
<1>4. (a \o b) \in Seq(S) /\ Len(a \o b) = Len(q) - 1
  <2>0. a \in Seq(S) /\ b \in Seq(S) BY <1>1, <1>2
  <2>1. (a \o b) \in Seq(S) BY <2>0
  <2>2. Len(a \o b) = Len(a) + Len(b) BY <2>0
  <2>3. Len(q) \in Nat /\ i \in Nat OBVIOUS
  <2>4. Len(a \o b) = (i - 1) + (Len(q) - i) BY <1>1, <1>2, <2>2
  <2>5. (i - 1) + (Len(q) - i) = Len(q) - 1 BY <2>3
  <2> QED BY <2>1, <2>4, <2>5
<1>5. ASSUME NEW j \in 1..(Len(q) - 1) PROVE (a \o b)[j] = q[IF j < i THEN j ELSE j + 1]
  <2>1. CASE j < i
    <3>1. j \in 1..Len(a) /\ (a \o b)[j] = a[j] BY <1>1, <1>2, <2>1
    <3> QED BY <1>1, <2>1, <3>1
  <2>2. CASE ~(j < i)
    <3>1. j - Len(a) \in 1..Len(b) /\ j - Len(a) = j - i + 1 BY <1>1, <1>2, <2>2
    <3>2. (a \o b)[j] = b[j - Len(a)] BY <1>1, <1>2, <2>2
    <3>3. b[j - i + 1] = q[i + (j - i + 1)] BY <1>2, <3>1
    <3>4. i + (j - i + 1) = j + 1 OBVIOUS
    <3>5. (a \o b)[j] = q[j + 1] BY <3>1, <3>2, <3>3, <3>4
    <3> QED BY <2>2, <3>5
  <2> QED BY <2>1, <2>2
<1> QED BY <1>3, <1>4, <1>5

(* A row that is taken out is not in the queue any more. *)
LEMMA TakenOut ==
    ASSUME WebhookTypeOK, QueueInv, NEW i \in 1..Len(dueQ), dueQ' = RemoveAt(dueQ, i),
           \A r \in Rows : r # dueQ[i] => state'[r] = state[r]
    PROVE  dueQ' \in Seq(Rows) /\ QueueInv'
<1> DEFINE at(j) == IF j < i THEN j ELSE j + 1
<1>1. dueQ \in Seq(Rows) /\ Len(dueQ) \in Nat BY DEF WebhookTypeOK
<1>2. /\ dueQ' \in Seq(Rows) /\ Len(dueQ') = Len(dueQ) - 1
      /\ \A j \in 1..(Len(dueQ) - 1) : dueQ'[j] = dueQ[at(j)]
  BY <1>1, RemoveAtFacts
<1>3. \A j \in 1..(Len(dueQ) - 1) : at(j) \in 1..Len(dueQ) /\ at(j) # i
  BY <1>1
<1>4. \A j, k \in 1..(Len(dueQ) - 1) : at(j) = at(k) => j = k
  BY <1>1
<1> HIDE DEF at
<1>5. ASSUME NEW j \in 1..Len(dueQ') PROVE state'[dueQ'[j]] \in Live
  <2>1. dueQ'[j] = dueQ[at(j)] /\ at(j) \in 1..Len(dueQ) /\ at(j) # i BY <1>2, <1>3
  <2>2. dueQ[at(j)] # dueQ[i] BY <2>1 DEF QueueInv
  <2>3. dueQ[at(j)] \in Rows BY <1>1, <2>1
  <2>4. state'[dueQ[at(j)]] = state[dueQ[at(j)]] BY <2>2, <2>3
  <2> QED BY <2>1, <2>4 DEF QueueInv
<1>6. ASSUME NEW j \in 1..Len(dueQ'), NEW k \in 1..Len(dueQ'), dueQ'[j] = dueQ'[k] PROVE j = k
  <2>1. dueQ[at(j)] = dueQ[at(k)] /\ at(j) \in 1..Len(dueQ) /\ at(k) \in 1..Len(dueQ)
    BY <1>2, <1>3, <1>6
  <2> QED BY <1>2, <1>4, <2>1 DEF QueueInv
<1> QED BY <1>2, <1>5, <1>6 DEF QueueInv

(* A row that becomes due is added once. *)
LEMMA PutIn ==
    ASSUME WebhookTypeOK, QueueInv, NEW r \in Rows, dueQ' = Append(dueQ, r),
           \A i \in 1..Len(dueQ) : dueQ[i] # r, state'[r] \in Live,
           \A q \in Rows : q # r => state'[q] = state[q]
    PROVE  dueQ' \in Seq(Rows) /\ QueueInv'
<1>1. dueQ \in Seq(Rows) /\ Len(dueQ) \in Nat BY DEF WebhookTypeOK
<1>2. /\ dueQ' \in Seq(Rows) /\ Len(dueQ') = Len(dueQ) + 1 /\ dueQ'[Len(dueQ) + 1] = r
      /\ \A i \in 1..Len(dueQ) : dueQ'[i] = dueQ[i] /\ dueQ[i] \in Rows
  BY <1>1
<1>3. ASSUME NEW i \in 1..Len(dueQ') PROVE state'[dueQ'[i]] \in Live
  <2>1. CASE i \in 1..Len(dueQ) BY <1>2, <2>1 DEF QueueInv
  <2>2. CASE i = Len(dueQ) + 1 BY <1>2, <2>2
  <2> QED BY <1>1, <1>2, <2>1, <2>2
<1>4. ASSUME NEW i \in 1..Len(dueQ'), NEW j \in 1..Len(dueQ'), dueQ'[i] = dueQ'[j] PROVE i = j
  <2>1. i \in 1..Len(dueQ) \/ i = Len(dueQ) + 1 BY <1>1, <1>2
  <2>2. j \in 1..Len(dueQ) \/ j = Len(dueQ) + 1 BY <1>1, <1>2
  <2> QED BY <1>2, <1>4, <2>1, <2>2 DEF QueueInv
<1> QED BY <1>2, <1>3, <1>4 DEF QueueInv

------------------------------------------------------------------------------
(* The rows.                                                               *)

(* A row nothing happens to keeps its invariant. *)
LEMMA RowKept ==
    ASSUME NEW r, RowInv(r), state'[r] = state[r], attempts'[r] = attempts[r],
           work'[r] = work[r], posts'[r] = posts[r], accepted'[r] = accepted[r],
           refused'[r] = refused[r], faults' = faults
    PROVE  RowInv(r)'
BY DEF RowInv, WorkInv, CountInv, EndInv

LEMMA EnqueueKeeps ==
    ASSUME WebhookInv, NEW r \in Rows, Enqueue(r)
    PROVE  WebhookInv'
<1>1. WebhookTypeOK /\ QueueInv /\ \A q \in Rows : RowInv(q) BY DEF WebhookInv
<1>2. \A i \in 1..Len(dueQ) : dueQ[i] # r BY <1>1 DEF QueueInv, Enqueue, Live
<1>3. state'[r] = "pending" /\ \A q \in Rows : q # r => state'[q] = state[q]
  BY <1>1 DEF Enqueue, WebhookTypeOK
<1>4. dueQ' \in Seq(Rows) /\ QueueInv'
  <2>1. dueQ' = Append(dueQ, r) /\ state'[r] \in Live BY <1>3 DEF Enqueue, Live
  <2> QED BY <1>1, <1>2, <1>3, <2>1, PutIn
<1>5. WebhookTypeOK' BY <1>1, <1>4 DEF Enqueue, WebhookTypeOK, State, receiverVars
<1>6. ASSUME NEW q \in Rows PROVE RowInv(q)'
  <2>1. CASE q = r
    <3>1. state[r] = "absent" /\ state'[r] = "pending" BY <1>3 DEF Enqueue
    <3> QED BY <1>1, <2>1, <3>1
        DEF Enqueue, receiverVars, RowInv, WorkInv, CountInv, EndInv, Live
  <2>2. CASE q # r BY <1>1, <1>3, <2>2, RowKept DEF Enqueue, receiverVars
  <2> QED BY <2>1, <2>2
<1> QED BY <1>4, <1>5, <1>6 DEF WebhookInv

LEMMA BackoffElapsesKeeps ==
    ASSUME WebhookInv, NEW r \in Rows, BackoffElapses(r)
    PROVE  WebhookInv'
<1>1. WebhookTypeOK /\ QueueInv /\ \A q \in Rows : RowInv(q) BY DEF WebhookInv
<1>2. dueQ' \in Seq(Rows) /\ QueueInv'
  <2>1. dueQ' = Append(dueQ, r) /\ state'[r] \in Live /\ \A q \in Rows : state'[q] = state[q]
    BY DEF BackoffElapses, Live
  <2>2. \A i \in 1..Len(dueQ) : dueQ[i] # r BY DEF BackoffElapses
  <2> QED BY <1>1, <2>1, <2>2, PutIn
<1>3. WebhookTypeOK' BY <1>1, <1>2 DEF BackoffElapses, WebhookTypeOK, receiverVars
<1>4. ASSUME NEW q \in Rows PROVE RowInv(q)'
  BY <1>1, RowKept DEF BackoffElapses, receiverVars
<1> QED BY <1>2, <1>3, <1>4 DEF WebhookInv

LEMMA TickKeeps ==
    ASSUME WebhookInv, Tick
    PROVE  WebhookInv'
<1>1. WebhookTypeOK /\ QueueInv /\ \A q \in Rows : RowInv(q) BY DEF WebhookInv
<1>2. /\ state' = state /\ attempts' = attempts /\ dueQ' = dueQ
      /\ posts' = posts /\ accepted' = accepted /\ refused' = refused /\ faults' = faults
  BY DEF Tick, rowVars, receiverVars
<1>3. \A q \in Batch : state[q] \in Live
  <2>1. dueQ \in Seq(Rows) /\ Len(dueQ) \in Nat BY <1>1 DEF WebhookTypeOK
  <2>2. ASSUME NEW q \in Batch PROVE \E i \in 1..Len(dueQ) : q = dueQ[i]
    BY <2>1, WebhookAssumption DEF Batch
  <2> QED BY <1>1, <2>2 DEF QueueInv
<1>4. work' \in [Rows -> [at : Work, seen : 0..MaxAttempts]]
  <2>1. work' = [r \in Rows |->
            IF r \in Batch THEN [at |-> "selected", seen |-> attempts[r]] ELSE Idle]
    BY DEF Tick
  <2>2. \A r \in Rows : attempts[r] \in 0..MaxAttempts BY <1>1 DEF WebhookTypeOK
  <2>3. Idle \in [at : Work, seen : 0..MaxAttempts] BY WebhookAssumption DEF Idle, Work
  <2> HIDE DEF Idle, Batch
  <2> QED BY <2>1, <2>2, <2>3 DEF Work
<1>5. WebhookTypeOK' BY <1>1, <1>2, <1>4 DEF WebhookTypeOK
<1>6. QueueInv' BY <1>1, <1>2 DEF QueueInv
<1>7. ASSUME NEW q \in Rows PROVE RowInv(q)'
  <2>1. work[q].at = "none" BY DEF Tick, Idle
  <2>2. \/ q \in Batch /\ work'[q].at = "selected" /\ work'[q].seen = attempts[q]
        \/ work'[q].at = "none"
    BY DEF Tick, Idle
  <2>3. RowInv(q) BY <1>1
  <2> QED BY <1>2, <1>3, <2>1, <2>2, <2>3 DEF RowInv, WorkInv, CountInv, EndInv, Outcome
<1> QED BY <1>5, <1>6, <1>7 DEF WebhookInv

(* An answer, or its absence, is heard and not yet recorded. *)
LEMMA PostKeeps ==
    ASSUME WebhookInv, NEW r \in Rows, PostAnswered(r) \/ PostLost(r)
    PROVE  WebhookInv'
<1>1. WebhookTypeOK /\ QueueInv /\ \A q \in Rows : RowInv(q) BY DEF WebhookInv
<1>2. state' = state /\ attempts' = attempts /\ dueQ' = dueQ /\ faults' = faults
  BY DEF PostAnswered, PostLost, rowVars
<1>3. work[r].at = "selected" BY DEF PostAnswered, PostLost
<1>4. PICK o \in Outcome :
        /\ work' = [work EXCEPT ![r].at = o]
        /\ posts' = [posts EXCEPT ![r] = @ + 1] \/ posts' = posts
        /\ accepted' = [accepted EXCEPT ![r] = TRUE] \/ (accepted' = accepted /\ o # "2xx")
        /\ refused' = [refused EXCEPT ![r] = TRUE] \/ (refused' = refused /\ o # "4xx")
  BY DEF PostAnswered, PostLost, Got, Outcome
<1>5. /\ work' \in [Rows -> [at : Work, seen : 0..MaxAttempts]]
      /\ work'[r].at = o /\ work'[r].seen = work[r].seen
      /\ \A q \in Rows : q # r => work'[q] = work[q]
  BY <1>1, <1>4 DEF WebhookTypeOK, Work
<1>6. posts' \in [Rows -> Nat] /\ accepted' \in [Rows -> BOOLEAN] /\ refused' \in [Rows -> BOOLEAN]
  <2>1. posts' \in [Rows -> Nat]
    <3>1. posts \in [Rows -> Nat] /\ posts[r] + 1 \in Nat BY <1>1 DEF WebhookTypeOK
    <3>2. posts' = [posts EXCEPT ![r] = posts[r] + 1] \/ posts' = posts BY <1>4
    <3> QED BY <3>1, <3>2
  <2>2. accepted' \in [Rows -> BOOLEAN] BY <1>1, <1>4, ZenonT(30) DEF WebhookTypeOK
  <2>3. refused' \in [Rows -> BOOLEAN] BY <1>1, <1>4, ZenonT(30) DEF WebhookTypeOK
  <2> QED BY <2>1, <2>2, <2>3
<1>7. WebhookTypeOK' BY <1>1, <1>2, <1>5, <1>6 DEF WebhookTypeOK
<1>8. QueueInv' BY <1>1, <1>2 DEF QueueInv
<1>9. ASSUME NEW q \in Rows PROVE RowInv(q)'
  <2>1. CASE q # r
    <3>1. posts'[q] = posts[q] BY <1>1, <1>4, <2>1 DEF WebhookTypeOK
    <3>2. accepted'[q] = accepted[q] /\ refused'[q] = refused[q]
      BY <1>1, <1>4, <2>1 DEF WebhookTypeOK
    <3> QED BY <1>1, <1>2, <1>5, <2>1, <3>1, <3>2, RowKept
  <2>2. CASE q = r
    <3>1. RowInv(r) BY <1>1
    <3>2. (o = "2xx" => accepted'[r]) /\ (accepted[r] => accepted'[r])
      BY <1>1, <1>4 DEF WebhookTypeOK
    <3>3. (o = "4xx" => refused'[r]) /\ (refused[r] => refused'[r])
      BY <1>1, <1>4 DEF WebhookTypeOK
    <3>4. WorkInv(r)' BY <1>2, <1>3, <1>5, <3>1, <3>2, <3>3 DEF RowInv, WorkInv
    <3>5. CountInv(r)'
      <4>1. posts'[r] = posts[r] + 1 \/ posts'[r] = posts[r] BY <1>1, <1>4 DEF WebhookTypeOK
      <4>2. posts[r] \in Nat /\ attempts[r] \in Nat /\ faults \in Nat
        BY <1>1 DEF WebhookTypeOK
      <4>3. posts[r] <= attempts[r] + faults + 0 BY <1>3, <3>1 DEF RowInv, CountInv, Outcome
      <4>4. work'[r].at \in Outcome BY <1>4, <1>5
      <4> QED BY <1>2, <4>1, <4>2, <4>3, <4>4 DEF CountInv
    <3>6. EndInv(r)' BY <1>2, <3>1, <3>2, <3>3 DEF RowInv, EndInv
    <3> QED BY <2>2, <3>4, <3>5, <3>6 DEF RowInv
  <2> QED BY <2>1, <2>2
<1> QED BY <1>7, <1>8, <1>9 DEF WebhookInv

(* Every way of recording an outcome counts one more attempt. *)
LEMMA MarkKeeps ==
    ASSUME WebhookInv, NEW r \in Rows, NEW s \in State, Mark(r, s, attempts[r] + 1),
           work[r].at \in Outcome,
           s \in {"delivered", "failed_dead_letter", "failed_retrying"},
           s = "delivered" => accepted[r],
           s = "failed_dead_letter" => refused[r] \/ attempts[r] + 1 = MaxAttempts,
           s = "failed_retrying" => attempts[r] + 1 < MaxAttempts
    PROVE  WebhookInv'
<1>1. WebhookTypeOK /\ QueueInv /\ \A q \in Rows : RowInv(q) BY DEF WebhookInv
<1>2. posts' = posts /\ accepted' = accepted /\ refused' = refused /\ faults' = faults
  BY DEF Mark, receiverVars
<1>3. attempts[r] \in 0..MaxAttempts /\ attempts[r] < MaxAttempts
  <2>1. work[r].at # "none" BY DEF Outcome
  <2> QED BY <1>1, <2>1 DEF WebhookTypeOK, RowInv, WorkInv
<1>4. /\ state'[r] = s /\ attempts'[r] = attempts[r] + 1 /\ work'[r].at = "none"
      /\ \A q \in Rows : q # r =>
            state'[q] = state[q] /\ attempts'[q] = attempts[q] /\ work'[q] = work[q]
  <2>1. state'[r] = s /\ \A q \in Rows : q # r => state'[q] = state[q]
    BY <1>1 DEF Mark, WebhookTypeOK
  <2>2. attempts'[r] = attempts[r] + 1 /\ \A q \in Rows : q # r => attempts'[q] = attempts[q]
    BY <1>1 DEF Mark, WebhookTypeOK
  <2>3. work'[r].at = "none" /\ \A q \in Rows : q # r => work'[q] = work[q]
    BY <1>1 DEF Mark, WebhookTypeOK, Idle
  <2> QED BY <2>1, <2>2, <2>3
<1>5. dueQ' \in Seq(Rows) /\ QueueInv'
  <2>1. PICK i \in 1..Len(dueQ) : dueQ[i] = r /\ dueQ' = RemoveAt(dueQ, i) BY DEF Mark
  <2>2. \A q \in Rows : q # dueQ[i] => state'[q] = state[q] BY <1>4, <2>1
  <2> QED BY <1>1, <2>1, <2>2, TakenOut
<1>6. WebhookTypeOK'
  <2>1. state' \in [Rows -> State] BY <1>1 DEF Mark, WebhookTypeOK
  <2>2. attempts' \in [Rows -> 0..MaxAttempts]
    <3>1. attempts[r] + 1 \in 0..MaxAttempts BY <1>3, WebhookAssumption
    <3> QED BY <1>1, <3>1 DEF Mark, WebhookTypeOK
  <2>3. work' \in [Rows -> [at : Work, seen : 0..MaxAttempts]]
    <3>1. Idle \in [at : Work, seen : 0..MaxAttempts] BY WebhookAssumption DEF Idle, Work
    <3> QED BY <1>1, <3>1 DEF Mark, WebhookTypeOK
  <2> QED BY <1>1, <1>2, <1>5, <2>1, <2>2, <2>3 DEF WebhookTypeOK
<1>7. ASSUME NEW q \in Rows PROVE RowInv(q)'
  <2>1. CASE q # r BY <1>1, <1>2, <1>4, <2>1, RowKept
  <2>2. CASE q = r
    <3>1. WorkInv(r)' BY <1>3, <1>4 DEF WorkInv, Live
    <3>2. CountInv(r)'
      <4>1. posts[r] <= attempts[r] + faults + 1 BY <1>1 DEF RowInv, CountInv
      <4>2. posts[r] \in Nat /\ faults \in Nat BY <1>1 DEF WebhookTypeOK
      <4>3. work'[r].at \notin Outcome BY <1>4 DEF Outcome
      <4> QED BY <1>2, <1>3, <1>4, <4>1, <4>2, <4>3 DEF CountInv
    <3>3. EndInv(r)' BY <1>2, <1>4 DEF EndInv
    <3> QED BY <2>2, <3>1, <3>2, <3>3 DEF RowInv
  <2> QED BY <2>1, <2>2
<1> QED BY <1>5, <1>6, <1>7 DEF WebhookInv

LEMMA OutcomeRecorded ==
    ASSUME WebhookInv, NEW r \in Rows,
           \/ MarkDelivered(r) \/ MarkRefused(r) \/ MarkRetrying(r) \/ MarkExhausted(r)
    PROVE  WebhookInv'
<1>1. work[r].at \in Outcome
  BY DEF MarkDelivered, MarkRefused, MarkRetrying, MarkExhausted, Outcome
<1>2. WorkInv(r) BY DEF WebhookInv, RowInv
<1>3. work[r].seen = attempts[r] /\ attempts[r] < MaxAttempts /\ attempts[r] \in Nat
  <2>1. work[r].at # "none" BY <1>1 DEF Outcome
  <2>2. attempts[r] \in Nat BY DEF WebhookInv, WebhookTypeOK
  <2> QED BY <1>2, <2>1, <2>2 DEF WorkInv
<1>4. CASE MarkDelivered(r)
  <2>1. Mark(r, "delivered", attempts[r] + 1) /\ accepted[r] BY <1>2, <1>4 DEF MarkDelivered, WorkInv
  <2> QED BY <1>1, <2>1, MarkKeeps DEF State
<1>5. CASE MarkRefused(r)
  <2>1. Mark(r, "failed_dead_letter", attempts[r] + 1) /\ refused[r]
    BY <1>2, <1>5 DEF MarkRefused, WorkInv
  <2> QED BY <1>1, <2>1, MarkKeeps DEF State
<1>6. CASE MarkRetrying(r)
  <2>1. Mark(r, "failed_retrying", attempts[r] + 1) /\ attempts[r] + 1 < MaxAttempts
    BY <1>3, <1>6 DEF MarkRetrying
  <2> QED BY <1>1, <2>1, MarkKeeps DEF State
<1>7. CASE MarkExhausted(r)
  <2>1. Mark(r, "failed_dead_letter", attempts[r] + 1) BY <1>7 DEF MarkExhausted
  <2>2. attempts[r] + 1 = MaxAttempts BY <1>3, <1>7, WebhookAssumption DEF MarkExhausted
  <2> QED BY <1>1, <2>1, <2>2, MarkKeeps DEF State
<1> QED BY <1>4, <1>5, <1>6, <1>7

(* A fault forgets what was heard; it is what one more POST is charged to. *)
LEMMA FaultKeeps ==
    ASSUME WebhookInv, Crash \/ \E r \in Rows : MarkFails(r)
    PROVE  WebhookInv'
<1>1. WebhookTypeOK /\ QueueInv /\ \A q \in Rows : RowInv(q) BY DEF WebhookInv
<1>2. /\ state' = state /\ attempts' = attempts /\ dueQ' = dueQ
      /\ posts' = posts /\ accepted' = accepted /\ refused' = refused
      /\ faults' = faults + 1 /\ faults < MaxFaults
  BY DEF Crash, MarkFails, rowVars, receiverVars
<1>3. /\ work' \in [Rows -> [at : Work, seen : 0..MaxAttempts]]
      /\ \A q \in Rows : work'[q] = Idle \/ work'[q] = work[q]
  <2>1. Idle \in [at : Work, seen : 0..MaxAttempts] BY WebhookAssumption DEF Idle, Work
  <2> HIDE DEF Idle
  <2>2. CASE Crash BY <2>1, <2>2 DEF Crash
  <2>3. CASE \E r \in Rows : MarkFails(r) BY <1>1, <2>1, <2>3 DEF MarkFails, WebhookTypeOK
  <2> QED BY <2>2, <2>3
<1>4. faults' \in 0..MaxFaults BY <1>1, <1>2, WebhookAssumption DEF WebhookTypeOK
<1>5. WebhookTypeOK' BY <1>1, <1>2, <1>3, <1>4 DEF WebhookTypeOK
<1>6. QueueInv' BY <1>1, <1>2 DEF QueueInv
<1>7. ASSUME NEW q \in Rows PROVE RowInv(q)'
  <2>1. work'[q].at = "none" \/ work'[q] = work[q] BY <1>3 DEF Idle
  <2>2. RowInv(q) BY <1>1
  <2>3. WorkInv(q)' BY <1>2, <2>1, <2>2 DEF RowInv, WorkInv
  <2>4. CountInv(q)'
    <3>1. posts[q] \in Nat /\ attempts[q] \in Nat /\ faults \in Nat BY <1>1 DEF WebhookTypeOK
    <3>2. posts[q] <= attempts[q] + faults + (IF work[q].at \in Outcome THEN 1 ELSE 0)
      BY <2>2 DEF RowInv, CountInv
    <3> QED BY <1>2, <2>1, <3>1, <3>2 DEF CountInv, Outcome
  <2>5. EndInv(q)' BY <1>2, <2>2 DEF RowInv, EndInv
  <2> QED BY <2>3, <2>4, <2>5 DEF RowInv
<1> QED BY <1>5, <1>6, <1>7 DEF WebhookInv

------------------------------------------------------------------------------
LEMMA WebhookInitInv == WebhookInit => WebhookInv
<1> SUFFICES ASSUME WebhookInit PROVE WebhookInv OBVIOUS
<1>1. WebhookTypeOK
  <2>1. work \in [Rows -> [at : Work, seen : 0..MaxAttempts]]
    BY WebhookAssumption DEF WebhookInit, Idle, Work
  <2> QED BY <2>1, WebhookAssumption DEF WebhookInit, WebhookTypeOK, State
<1>2. QueueInv BY DEF WebhookInit, QueueInv
<1>3. ASSUME NEW r \in Rows PROVE RowInv(r)
  BY WebhookAssumption DEF WebhookInit, Idle, RowInv, WorkInv, CountInv, EndInv, Live, Outcome
<1> QED BY <1>1, <1>2, <1>3 DEF WebhookInv

LEMMA WebhookStepInv == WebhookInv /\ [WebhookNext]_vars => WebhookInv'
<1> SUFFICES ASSUME WebhookInv, [WebhookNext]_vars PROVE WebhookInv' OBVIOUS
<1>1. CASE UNCHANGED vars
  <2>1. /\ state' = state /\ attempts' = attempts /\ dueQ' = dueQ /\ work' = work
        /\ posts' = posts /\ accepted' = accepted /\ refused' = refused /\ faults' = faults
    BY <1>1 DEF vars, rowVars, receiverVars
  <2>2. WebhookTypeOK' BY <2>1 DEF WebhookInv, WebhookTypeOK
  <2>3. QueueInv' BY <2>1 DEF WebhookInv, QueueInv
  <2>4. \A r \in Rows : RowInv(r)' BY <2>1, RowKept DEF WebhookInv
  <2> QED BY <2>2, <2>3, <2>4 DEF WebhookInv
<1>2. CASE WebhookNext
  BY <1>2, EnqueueKeeps, BackoffElapsesKeeps, TickKeeps, PostKeeps, OutcomeRecorded, FaultKeeps
  DEF WebhookNext, RowStep
<1> QED BY <1>1, <1>2

(* The deliverer's rows, its queue and what its receivers saw stay as      *)
(* WebhookInv describes them, whatever fails in between.                   *)
THEOREM WebhookInvariant == WebhookSpec => []WebhookInv
BY WebhookInitInv, WebhookStepInv, PTL DEF WebhookSpec

(* Type correctness: an attempt is never counted past MAX_ATTEMPTS, and a  *)
(* crash leaves nothing but rows of the table behind.                      *)
THEOREM WebhookTypes == WebhookSpec => []WebhookTypeOK
<1>1. WebhookInv => WebhookTypeOK BY DEF WebhookInv
<1> QED BY <1>1, WebhookInvariant, PTL

(* A row is marked delivered only after a 2xx of its receiver and given up *)
(* only after a client error or MAX_ATTEMPTS attempts, although the POST   *)
(* and the UPDATE that records it are two steps and either may be lost.    *)
THEOREM OutcomesEarned == WebhookSpec => []OutcomeIsEarned
<1>1. WebhookInv => OutcomeIsEarned BY DEF WebhookInv, RowInv, EndInv, OutcomeIsEarned
<1> QED BY <1>1, WebhookInvariant, PTL

(* At-least-once delivery repeats a POST only for a crash or a failed      *)
(* UPDATE: at most one more per fault, for every row.                      *)
THEOREM BoundedPosts == WebhookSpec => []PostsBounded
<1>1. ASSUME WebhookInv, NEW r \in Rows PROVE posts[r] <= MaxAttempts + faults
  <2>1. /\ posts[r] \in Nat /\ attempts[r] \in 0..MaxAttempts /\ faults \in Nat
        /\ RowInv(r)
    BY <1>1 DEF WebhookInv, WebhookTypeOK
  <2>2. work[r].at \in Outcome => attempts[r] < MaxAttempts
    BY <2>1 DEF RowInv, WorkInv, Outcome
  <2> QED BY <2>1, <2>2, WebhookAssumption DEF RowInv, CountInv
<1>2. WebhookInv => PostsBounded BY <1>1 DEF PostsBounded
<1> QED BY <1>2, WebhookInvariant, PTL
==============================================================================
