--------------------------- MODULE NotificationsProofs ---------------------------
(***************************************************************************)
(* Proofs about the notification queue, for any keys, any number of        *)
(* dispatches that overlap, any limit of attempts and any number of        *)
(* crashes: what is 'sending' is accounted for, an ended row stays as it   *)
(* is, attempts are bounded, and only an overlap sends a notice twice.     *)
(***************************************************************************)
EXTENDS NotificationsProperties, FiniteSetTheorems, TLAPS

(* A dispatch that waits has the row it waits for in hand; one that has    *)
(* returned has nothing in hand.                                           *)
InHand ==
    \A d \in Dispatches :
        /\ pc[d] = "wait" => current[d] \in batch[d]
        /\ pc[d] = "idle" => batch[d] = {}

(* The rows that two dispatches have in hand are shared.                   *)
SharedKnown ==
    \A d, e \in Dispatches, r \in Rows : r \in batch[d] /\ r \in batch[e] => d = e \/ r \in shared

(* A row that no two dispatches ever had in hand at once has been          *)
(* acknowledged once at most, and then it is 'sent' and in nobody's hand.  *)
AckedOnce ==
    \A r \in Rows : acked[r] # 0 /\ r \notin shared =>
        /\ acked[r] = 1 /\ status[r] = "sent"
        /\ \A d \in Dispatches : r \notin batch[d]

(* The dispatches that may still send row r: they read it with fewer       *)
(* attempts than the limit and have not asked its provider yet.            *)
Holders(r) ==
    {d \in Dispatches :
        /\ r \in batch[d] /\ seen[d][r] < MaxAttempts
        /\ ~(pc[d] = "wait" /\ current[d] = r)}

AttemptsHeld ==
    \A r \in Rows :
        attempts[r] + Cardinality(Holders(r)) <= MaxAttempts + Cardinality(Dispatches) - 1

(* The inductive invariants: of the table and the hands, and of attempts.  *)
QueueInv == NotificationsTypeOK /\ InHand /\ SendingAccounted /\ SharedKnown /\ AckedOnce
AttemptsInv == QueueInv /\ AttemptsHeld

-----------------------------------------------------------------------------
LEMMA RowsCounted ==
    ASSUME NEW S, S \subseteq Rows
    PROVE  Cardinality(S) \in Nat
<1>1. IsFiniteSet(Channels)
  <2>1. /\ IsFiniteSet({}) /\ IsFiniteSet({"dashboard"}) /\ IsFiniteSet({"pwa"})
        /\ IsFiniteSet({"email"}) /\ IsFiniteSet({"telegram"}) /\ IsFiniteSet({"webhook"})
    BY FS_EmptySet, FS_Singleton
  <2>2. Channels = {"dashboard"} \union ({"pwa"} \union ({"email"} \union
                       ({"telegram"} \union {"webhook"})))
    BY DEF Channels
  <2> QED BY <2>1, <2>2, FS_Union
<1>2. IsFiniteSet(Keys \X Channels)
  BY <1>1, FS_Product, NotificationsAssumption DEF NotificationsAssumption
<1> QED BY <1>2, FS_Subset, FS_CardinalityType DEF Rows

LEMMA OutcomeStatus ==
    ASSUME NEW o
    PROVE  NextStatus(o) \in Statuses /\ NextStatus(o) \notin {"sending", "none"}
           /\ (o = "ok" => NextStatus(o) = "sent")
BY DEF NextStatus, Statuses

LEMMA QueueInit == ASSUME Init PROVE QueueInv
<1> USE NotificationsAssumption DEF NotificationsAssumption, Init
<1>1. NotificationsTypeOK
  BY DEF NotificationsTypeOK, Statuses
<1>2. InHand /\ SendingAccounted /\ SharedKnown /\ AckedOnce
  BY DEF InHand, SendingAccounted, SharedKnown, AckedOnce
<1> QED BY <1>1, <1>2 DEF QueueInv

-----------------------------------------------------------------------------
(* Emit inserts rows that did not exist, and changes no other.             *)
LEMMA EmitRows ==
    ASSUME QueueInv, NEW k \in Keys, Emit(k)
    PROVE  /\ status' \in [Rows -> Statuses] /\ attempts' \in [Rows -> Nat]
           /\ born' \in [Rows -> Nat]
           /\ \A r \in Rows :
                 \/ status[r] = "none" /\ status'[r] = "queued" /\ attempts'[r] = 0
                 \/ status'[r] = status[r] /\ attempts'[r] = attempts[r]
           /\ UNCHANGED <<lapsed, pc, batch, seen, current, acked, shared, orphans, restarts>>
<1>1. PICK new :
         /\ \A r \in new : status[r] = "none"
         /\ status' = [r \in Rows |-> IF r \in new THEN "queued" ELSE status[r]]
         /\ attempts' = [r \in Rows |-> IF r \in new THEN 0 ELSE attempts[r]]
         /\ born' = [r \in Rows |->
               IF r \in new THEN 1 + Cardinality({q \in Rows : status[q] # "none"})
                            ELSE born[r]]
         /\ UNCHANGED <<lapsed, pc, batch, seen, current, acked, shared, orphans, restarts>>
  BY DEF Emit, Inserted
<1>2. Cardinality({q \in Rows : status[q] # "none"}) \in Nat
  BY RowsCounted
<1>3. born' \in [Rows -> Nat]
  BY <1>1, <1>2 DEF QueueInv, NotificationsTypeOK
<1> QED BY <1>1, <1>3 DEF QueueInv, NotificationsTypeOK, Statuses

LEMMA QueueEmit == ASSUME QueueInv, NEW k \in Keys, Emit(k) PROVE QueueInv'
<1> USE EmitRows
<1>1. NotificationsTypeOK'
  BY DEF QueueInv, NotificationsTypeOK
<1>2. InHand' /\ SharedKnown'
  BY DEF QueueInv, InHand, SharedKnown
<1>3. SendingAccounted'
  BY DEF QueueInv, SendingAccounted
<1>4. AckedOnce'
  BY DEF QueueInv, AckedOnce
<1> QED BY <1>1, <1>2, <1>3, <1>4 DEF QueueInv

LEMMA ResolveRows ==
    ASSUME QueueInv, NEW k \in Keys, Resolve(k)
    PROVE  /\ status' \in [Rows -> Statuses]
           /\ \A r \in Rows :
                 \/ status[r] \in {"queued", "sending"} /\ status'[r] = "resolved"
                 \/ status'[r] = status[r]
           /\ UNCHANGED <<attempts, born, lapsed, pc, batch, seen, current, acked, shared,
                          orphans, restarts>>
BY DEF Resolve, QueueInv, NotificationsTypeOK, Statuses

LEMMA QueueResolve == ASSUME QueueInv, NEW k \in Keys, Resolve(k) PROVE QueueInv'
<1> USE ResolveRows
<1>1. NotificationsTypeOK'
  BY DEF QueueInv, NotificationsTypeOK
<1>2. InHand' /\ SharedKnown'
  BY DEF QueueInv, InHand, SharedKnown
<1>3. SendingAccounted'
  BY DEF QueueInv, SendingAccounted
<1>4. AckedOnce'
  BY DEF QueueInv, AckedOnce
<1> QED BY <1>1, <1>2, <1>3, <1>4 DEF QueueInv

LEMMA QueueLapse == ASSUME QueueInv, NEW k \in Keys, Lapse(k) PROVE QueueInv'
<1>1. NotificationsTypeOK'
  BY DEF QueueInv, NotificationsTypeOK, Lapse, table
<1> QED
  BY <1>1 DEF QueueInv, InHand, SendingAccounted, SharedKnown, AckedOnce, Lapse, table

(* A dispatch begins with rows that are queued.                            *)
LEMMA QueueStart == ASSUME QueueInv, NEW d \in Dispatches, Start(d) PROVE QueueInv'
<1>1. PICK rs \in SUBSET Queued \ {{}} :
         /\ batch' = [batch EXCEPT ![d] = rs]
         /\ seen' = [seen EXCEPT ![d] = [r \in Rows |-> IF r \in rs THEN attempts[r] ELSE 0]]
         /\ shared' = shared \union {r \in rs : \E e \in Dispatches \ {d} : r \in batch[e]}
  BY DEF Start
<1>2. /\ rs \subseteq Rows /\ \A r \in rs : status[r] = "queued"
      /\ pc[d] = "idle" /\ pc' = [pc EXCEPT ![d] = "run"]
      /\ UNCHANGED <<status, attempts, born, lapsed, current, acked, orphans, restarts>>
  BY <1>1 DEF Start, Queued, table
<1>3. /\ batch'[d] = rs /\ pc'[d] = "run"
      /\ \A e \in Dispatches : e # d => batch'[e] = batch[e] /\ pc'[e] = pc[e]
  BY <1>1, <1>2 DEF QueueInv, NotificationsTypeOK
<1>4. NotificationsTypeOK'
  <2>1. [r \in Rows |-> IF r \in rs THEN attempts[r] ELSE 0] \in [Rows -> Nat]
    BY DEF QueueInv, NotificationsTypeOK
  <2> QED BY <1>1, <1>2, <2>1 DEF QueueInv, NotificationsTypeOK
<1>5. InHand'
  BY <1>2, <1>3 DEF QueueInv, InHand
<1>6. SendingAccounted'
  BY <1>2, <1>3 DEF QueueInv, SendingAccounted
<1>7. SharedKnown'
  <2> SUFFICES ASSUME NEW e \in Dispatches, NEW f \in Dispatches, NEW r \in Rows,
                      r \in batch'[e], r \in batch'[f], e # f
               PROVE  r \in shared'
    BY DEF SharedKnown
  <2> QED BY <1>1, <1>3 DEF QueueInv, SharedKnown
<1>8. AckedOnce'
  <2> SUFFICES ASSUME NEW r \in Rows, acked[r] # 0, r \notin shared'
               PROVE  /\ acked[r] = 1 /\ status[r] = "sent"
                      /\ \A e \in Dispatches : r \notin batch'[e]
    BY <1>2 DEF AckedOnce
  <2>1. acked[r] = 1 /\ status[r] = "sent" /\ \A e \in Dispatches : r \notin batch[e]
    BY <1>1 DEF QueueInv, AckedOnce
  <2> QED BY <2>1, <1>2, <1>3
<1> QED BY <1>4, <1>5, <1>6, <1>7, <1>8 DEF QueueInv

-----------------------------------------------------------------------------
(* Dispatch d is done with row r, which it had in hand, and leaves status  *)
(* x; the row is acknowledged with it or not.                              *)
Finishes(d, r, x) ==
    /\ Done(d, r) /\ r \in batch[d]
    /\ pc[d] = "run" \/ (pc[d] = "wait" /\ current[d] = r)
    /\ x \in Statuses \ {"sending", "none"}
    /\ status' = [status EXCEPT ![r] = x]
    /\ acked' = acked \/ (x = "sent" /\ acked' = [acked EXCEPT ![r] = @ + 1])
    /\ current' = current \/ current' = [current EXCEPT ![d] = NoRow]
    /\ UNCHANGED <<born, lapsed, shared, orphans, restarts>>

LEMMA DoneHands ==
    ASSUME QueueInv, NEW d \in Dispatches, NEW r \in Rows, NEW x, Finishes(d, r, x)
    PROVE  /\ batch'[d] = batch[d] \ {r} /\ pc'[d] \in {"idle", "run"}
           /\ pc'[d] = "idle" => batch'[d] = {}
           /\ seen' \in [Dispatches -> [Rows -> Nat]]
           /\ \A q \in Rows : q # r => seen'[d][q] = seen[d][q] /\ status'[q] = status[q]
           /\ status'[r] = x
           /\ \A e \in Dispatches : e # d =>
                 /\ batch'[e] = batch[e] /\ pc'[e] = pc[e] /\ seen'[e] = seen[e]
                 /\ current'[e] = current[e]
<1>1. /\ batch' = [batch EXCEPT ![d] = @ \ {r}]
      /\ pc' = [pc EXCEPT ![d] = IF batch[d] = {r} THEN "idle" ELSE "run"]
      /\ seen' = [seen EXCEPT ![d][r] = 0]
  BY DEF Finishes, Done
<1>2. seen' \in [Dispatches -> [Rows -> Nat]]
  BY <1>1 DEF QueueInv, NotificationsTypeOK
<1>3. /\ batch'[d] = batch[d] \ {r} /\ pc'[d] \in {"idle", "run"}
      /\ pc'[d] = "idle" => batch'[d] = {}
  BY <1>1 DEF QueueInv, NotificationsTypeOK
<1>4. \A q \in Rows : q # r => seen'[d][q] = seen[d][q] /\ status'[q] = status[q]
  BY <1>1 DEF QueueInv, NotificationsTypeOK, Finishes
<1>5. \A e \in Dispatches : e # d =>
         /\ batch'[e] = batch[e] /\ pc'[e] = pc[e] /\ seen'[e] = seen[e]
         /\ current'[e] = current[e]
  BY <1>1 DEF QueueInv, NotificationsTypeOK, Finishes
<1>6. status'[r] = x
  BY DEF QueueInv, NotificationsTypeOK, Finishes
<1> QED BY <1>2, <1>3, <1>4, <1>5, <1>6

LEMMA QueueFinish ==
    ASSUME QueueInv, NEW d \in Dispatches, NEW r \in Rows, NEW x, Finishes(d, r, x),
           attempts' \in [Rows -> Nat]
    PROVE  QueueInv'
<1> USE DoneHands
<1>1. NotificationsTypeOK'
  <2>1. status' \in [Rows -> Statuses] /\ acked' \in [Rows -> Nat]
    BY DEF QueueInv, NotificationsTypeOK, Finishes
  <2>2. current' \in [Dispatches -> Rows \union {NoRow}]
    BY DEF QueueInv, NotificationsTypeOK, Finishes
  <2>3. /\ pc' \in [Dispatches -> {"idle", "run", "wait"}]
        /\ batch' \in [Dispatches -> SUBSET Rows]
    BY DEF QueueInv, NotificationsTypeOK, Finishes, Done
  <2> QED BY <2>1, <2>2, <2>3 DEF QueueInv, NotificationsTypeOK, Finishes
<1>2. InHand'
  BY DEF QueueInv, InHand
<1>3. SendingAccounted'
  <2> SUFFICES ASSUME NEW q \in Rows, status'[q] = "sending", q \notin orphans'
               PROVE  \E e \in Dispatches : pc'[e] = "wait" /\ current'[e] = q
    BY DEF SendingAccounted
  <2>1. q # r /\ status[q] = "sending" /\ q \notin orphans
    BY DEF Finishes
  <2>2. PICK e \in Dispatches : pc[e] = "wait" /\ current[e] = q
    BY <2>1 DEF QueueInv, SendingAccounted
  <2>3. e # d
    BY <2>1, <2>2 DEF Finishes
  <2> QED BY <2>2, <2>3
<1>4. SharedKnown'
  <2>1. shared' = shared /\ \A e \in Dispatches : batch'[e] \subseteq batch[e]
    BY DEF Finishes
  <2> QED BY <2>1 DEF QueueInv, SharedKnown
<1>5. AckedOnce'
  <2> SUFFICES ASSUME NEW q \in Rows, acked'[q] # 0, q \notin shared
               PROVE  /\ acked'[q] = 1 /\ status'[q] = "sent"
                      /\ \A e \in Dispatches : q \notin batch'[e]
    BY DEF AckedOnce, Finishes
  <2>1. CASE q # r
    <3>1. acked'[q] = acked[q] /\ status'[q] = status[q]
      BY <2>1 DEF QueueInv, NotificationsTypeOK, Finishes
    <3> QED BY <2>1, <3>1 DEF QueueInv, AckedOnce
  <2>2. CASE q = r
    <3>1. acked[r] = 0
      BY <2>2 DEF QueueInv, AckedOnce, Finishes
    <3>2. x = "sent" /\ acked'[r] = 1
      BY <2>2, <3>1 DEF QueueInv, NotificationsTypeOK, Finishes
    <3>3. \A e \in Dispatches : r \notin batch'[e]
      <4>1. r \in batch[d] /\ r \notin shared
        BY <2>2 DEF Finishes
      <4>2. \A e \in Dispatches : e # d => r \notin batch[e]
        BY <4>1 DEF QueueInv, SharedKnown
      <4> QED BY <4>2
    <3> QED BY <2>2, <3>2, <3>3
  <2> QED BY <2>1, <2>2
<1> QED BY <1>1, <1>2, <1>3, <1>4, <1>5 DEF QueueInv

LEMMA DropFinishes ==
    ASSUME QueueInv, NEW d \in Dispatches, Drop(d)
    PROVE  \E r \in Rows : \E x : Finishes(d, r, x) /\ attempts' = attempts
<1>1. PICK r \in Upcoming(d) :
         /\ \/ status' = [status EXCEPT ![r] = "expired"]
            \/ status' = [status EXCEPT ![r] = "failed"]
         /\ Done(d, r)
  BY DEF Drop
<1>2. r \in batch[d] /\ r \in Rows
  BY DEF Upcoming, QueueInv, NotificationsTypeOK
<1>3. "expired" \in Statuses \ {"sending", "none"} /\ "failed" \in Statuses \ {"sending", "none"}
  BY DEF Statuses
<1>4. Finishes(d, r, "expired") \/ Finishes(d, r, "failed")
  BY <1>1, <1>2, <1>3 DEF Drop, Finishes
<1> QED BY <1>2, <1>4 DEF Drop

(* What is sent without a wait was held, and is counted.                   *)
LEMMA InternalFinishes ==
    ASSUME QueueInv, NEW d \in Dispatches, SendInternally(d)
    PROVE  \E r \in Rows :
              /\ Finishes(d, r, "sent") /\ d \in Holders(r)
              /\ attempts' = [attempts EXCEPT ![r] = @ + 1]
<1>1. PICK r \in Upcoming(d) :
         /\ Sendable(d, r)
         /\ status' = [status EXCEPT ![r] = "sent"]
         /\ attempts' = [attempts EXCEPT ![r] = @ + 1]
         /\ acked' = [acked EXCEPT ![r] = @ + 1]
         /\ Done(d, r)
  BY DEF SendInternally
<1>2. r \in batch[d] /\ r \in Rows
  BY DEF Upcoming, QueueInv, NotificationsTypeOK
<1>3. Finishes(d, r, "sent")
  BY <1>1, <1>2 DEF SendInternally, Finishes, Statuses
<1>4. d \in Holders(r)
  BY <1>1, <1>2 DEF Holders, Sendable, SendInternally
<1> QED BY <1>1, <1>2, <1>3, <1>4

LEMMA AnswerFinishes ==
    ASSUME QueueInv, NEW d \in Dispatches, Answer(d)
    PROVE  \E r \in Rows : \E x : Finishes(d, r, x) /\ attempts' = attempts
<1>1. /\ pc[d] = "wait" /\ current[d] \in batch[d] /\ current[d] \in Rows
      /\ UNCHANGED <<attempts, born, lapsed, shared, orphans, restarts>>
      /\ current' = [current EXCEPT ![d] = NoRow]
  BY DEF Answer, QueueInv, NotificationsTypeOK, InHand
<1>2. PICK answer \in Answers :
         /\ status' = [status EXCEPT ![current[d]] = NextStatus(Outcome(current[d][2], answer))]
         /\ acked' = IF Outcome(current[d][2], answer) = "ok"
                     THEN [acked EXCEPT ![current[d]] = @ + 1] ELSE acked
         /\ Done(d, current[d])
  BY DEF Answer
<1>3. Finishes(d, current[d], NextStatus(Outcome(current[d][2], answer)))
  BY <1>1, <1>2, OutcomeStatus DEF Finishes
<1> QED BY <1>1, <1>3

-----------------------------------------------------------------------------
(* A dispatch asks a provider about a row it held.                         *)
LEMMA SendRows ==
    ASSUME QueueInv, NEW d \in Dispatches, Send(d)
    PROVE  \E r \in Rows :
              /\ r \in batch[d] /\ d \in Holders(r) /\ pc[d] = "run"
              /\ status' = [status EXCEPT ![r] = "sending"]
              /\ attempts' = [attempts EXCEPT ![r] = @ + 1]
              /\ current' = [current EXCEPT ![d] = r]
              /\ pc' = [pc EXCEPT ![d] = "wait"]
              /\ UNCHANGED <<born, lapsed, batch, seen, acked, shared, orphans, restarts>>
<1>1. PICK r \in Upcoming(d) :
         /\ Sendable(d, r)
         /\ status' = [status EXCEPT ![r] = "sending"]
         /\ attempts' = [attempts EXCEPT ![r] = @ + 1]
         /\ current' = [current EXCEPT ![d] = r]
  BY DEF Send
<1>2. r \in batch[d] /\ r \in Rows
  BY DEF Upcoming, QueueInv, NotificationsTypeOK
<1>3. d \in Holders(r)
  BY <1>1, <1>2 DEF Holders, Sendable, Send
<1> QED BY <1>1, <1>2, <1>3 DEF Send

LEMMA QueueSend == ASSUME QueueInv, NEW d \in Dispatches, Send(d) PROVE QueueInv'
<1>1. PICK r \in Rows :
         /\ r \in batch[d] /\ pc[d] = "run"
         /\ status' = [status EXCEPT ![r] = "sending"]
         /\ attempts' = [attempts EXCEPT ![r] = @ + 1]
         /\ current' = [current EXCEPT ![d] = r]
         /\ pc' = [pc EXCEPT ![d] = "wait"]
         /\ UNCHANGED <<born, lapsed, batch, seen, acked, shared, orphans, restarts>>
  BY SendRows
<1>2. /\ pc'[d] = "wait" /\ current'[d] = r /\ status'[r] = "sending"
      /\ \A e \in Dispatches : e # d => pc'[e] = pc[e] /\ current'[e] = current[e]
      /\ \A q \in Rows : q # r => status'[q] = status[q]
  BY <1>1 DEF QueueInv, NotificationsTypeOK
<1>3. NotificationsTypeOK'
  <2>1. status' \in [Rows -> Statuses] /\ attempts' \in [Rows -> Nat]
    BY <1>1 DEF QueueInv, NotificationsTypeOK, Statuses
  <2> QED BY <1>1, <2>1 DEF QueueInv, NotificationsTypeOK
<1>4. InHand'
  BY <1>1, <1>2 DEF QueueInv, InHand
<1>5. SendingAccounted'
  <2> SUFFICES ASSUME NEW q \in Rows, status'[q] = "sending", q \notin orphans, q # r
               PROVE  \E e \in Dispatches : pc'[e] = "wait" /\ current'[e] = q
    BY <1>1, <1>2 DEF SendingAccounted
  <2>1. PICK e \in Dispatches : pc[e] = "wait" /\ current[e] = q
    BY <1>2 DEF QueueInv, SendingAccounted
  <2> QED BY <1>1, <1>2, <2>1
<1>6. SharedKnown'
  BY <1>1 DEF QueueInv, SharedKnown
<1>7. AckedOnce'
  BY <1>1, <1>2 DEF QueueInv, AckedOnce
<1> QED BY <1>3, <1>4, <1>5, <1>6, <1>7 DEF QueueInv

(* A crash leaves every row that was being sent an orphan.                 *)
LEMMA QueueRestart == ASSUME QueueInv, Restart PROVE QueueInv'
<1> USE NotificationsAssumption DEF NotificationsAssumption
<1>1. NotificationsTypeOK'
  BY DEF QueueInv, NotificationsTypeOK, Restart, table
<1>2. InHand' /\ SharedKnown'
  BY DEF InHand, SharedKnown, Restart
<1>3. SendingAccounted'
  BY DEF SendingAccounted, Restart, table
<1>4. AckedOnce'
  BY DEF QueueInv, AckedOnce, Restart, table
<1> QED BY <1>1, <1>2, <1>3, <1>4 DEF QueueInv

LEMMA QueueFrame == ASSUME QueueInv, UNCHANGED vars PROVE QueueInv'
BY DEF QueueInv, NotificationsTypeOK, InHand, SendingAccounted, SharedKnown, AckedOnce, vars

LEMMA AttemptsTyped ==
    ASSUME QueueInv, NEW r \in Rows
    PROVE  [attempts EXCEPT ![r] = @ + 1] \in [Rows -> Nat] /\ attempts \in [Rows -> Nat]
BY DEF QueueInv, NotificationsTypeOK

LEMMA QueueStep == ASSUME QueueInv, [Next]_vars PROVE QueueInv'
<1>1. ASSUME NEW k \in Keys, Emit(k) \/ Resolve(k) \/ Lapse(k) PROVE QueueInv'
  BY <1>1, QueueEmit, QueueResolve, QueueLapse
<1>2. ASSUME NEW d \in Dispatches, Drop(d) PROVE QueueInv'
  BY <1>2, DropFinishes, QueueFinish, AttemptsTyped
<1>3. ASSUME NEW d \in Dispatches, SendInternally(d) PROVE QueueInv'
  BY <1>3, InternalFinishes, QueueFinish, AttemptsTyped
<1>4. ASSUME NEW d \in Dispatches, Answer(d) PROVE QueueInv'
  BY <1>4, AnswerFinishes, QueueFinish, AttemptsTyped
<1> QED
  BY <1>1, <1>2, <1>3, <1>4, QueueStart, QueueSend, QueueRestart, QueueFrame DEF Next, Step

-----------------------------------------------------------------------------
(* Attempts.  The holders of a row are finitely many.                      *)
LEMMA HoldersFinite ==
    ASSUME NEW S, S \subseteq Dispatches
    PROVE  /\ IsFiniteSet(S) /\ Cardinality(S) \in Nat
           /\ Cardinality(S) <= Cardinality(Dispatches) /\ Cardinality(Dispatches) \in Nat
BY FS_Subset, FS_CardinalityType, NotificationsAssumption DEF NotificationsAssumption

(* Fewer holders, and no more attempts.                                    *)
LEMMA HeldLess ==
    ASSUME QueueInv, AttemptsHeld, NEW r \in Rows,
           attempts'[r] = attempts[r], Holders(r)' \subseteq Holders(r)
    PROVE  attempts'[r] + Cardinality(Holders(r)')
              <= MaxAttempts + Cardinality(Dispatches) - 1
<1> DEFINE H == Holders(r)
           G == Holders(r)'
<1>1. H \subseteq Dispatches
  BY DEF Holders
<1>2. IsFiniteSet(H) /\ Cardinality(H) \in Nat /\ Cardinality(Dispatches) \in Nat
  BY <1>1, HoldersFinite
<1>3. Cardinality(G) <= Cardinality(H) /\ Cardinality(G) \in Nat
  BY <1>2, FS_Subset, FS_CardinalityType
<1>4. attempts[r] \in Nat /\ MaxAttempts \in Nat
  BY NotificationsAssumption DEF NotificationsAssumption, QueueInv, NotificationsTypeOK
<1>5. attempts[r] + Cardinality(H) <= MaxAttempts + Cardinality(Dispatches) - 1
  BY DEF AttemptsHeld
<1> HIDE DEF H, G
<1> QED BY <1>2, <1>3, <1>4, <1>5 DEF G

(* One attempt more, and a holder less.                                    *)
LEMMA HeldSent ==
    ASSUME QueueInv, AttemptsHeld, NEW r \in Rows, NEW d \in Holders(r),
           attempts'[r] = attempts[r] + 1, Holders(r)' \subseteq Holders(r) \ {d}
    PROVE  attempts'[r] + Cardinality(Holders(r)')
              <= MaxAttempts + Cardinality(Dispatches) - 1
<1> DEFINE H == Holders(r)
           G == Holders(r)'
<1>1. H \subseteq Dispatches
  BY DEF Holders
<1>2. IsFiniteSet(H) /\ Cardinality(H) \in Nat /\ Cardinality(Dispatches) \in Nat
  BY <1>1, HoldersFinite
<1>3. /\ IsFiniteSet(H \ {d}) /\ Cardinality(H \ {d}) = Cardinality(H) - 1
  BY <1>2, FS_RemoveElement
<1>4. Cardinality(G) <= Cardinality(H \ {d}) /\ Cardinality(G) \in Nat
  BY <1>3, FS_Subset, FS_CardinalityType
<1>5. attempts[r] \in Nat /\ MaxAttempts \in Nat
  BY NotificationsAssumption DEF NotificationsAssumption, QueueInv, NotificationsTypeOK
<1>6. attempts[r] + Cardinality(H) <= MaxAttempts + Cardinality(Dispatches) - 1
  BY DEF AttemptsHeld
<1> HIDE DEF H, G
<1> QED BY <1>2, <1>3, <1>4, <1>5, <1>6 DEF G

(* A dispatch that reads a row with its attempts used up does not hold it; *)
(* otherwise there is room for it, since it did not hold it before.        *)
LEMMA HeldStart ==
    ASSUME QueueInv, AttemptsHeld, NEW d \in Dispatches, Start(d)
    PROVE  AttemptsHeld'
<1>1. PICK rs \in SUBSET Queued \ {{}} :
         /\ batch' = [batch EXCEPT ![d] = rs]
         /\ seen' = [seen EXCEPT ![d] = [r \in Rows |-> IF r \in rs THEN attempts[r] ELSE 0]]
  BY DEF Start
<1>2. /\ pc[d] = "idle" /\ pc' = [pc EXCEPT ![d] = "run"] /\ rs \subseteq Rows
      /\ attempts' = attempts /\ current' = current
  BY <1>1 DEF Start, table, Queued
<1>3. /\ batch'[d] = rs /\ \A r \in rs : seen'[d][r] = attempts[r]
      /\ \A e \in Dispatches : e # d =>
            batch'[e] = batch[e] /\ pc'[e] = pc[e] /\ seen'[e] = seen[e]
  BY <1>1, <1>2 DEF QueueInv, NotificationsTypeOK
<1>4. batch[d] = {}
  BY <1>2 DEF QueueInv, InHand
<1> SUFFICES ASSUME NEW r \in Rows
             PROVE  attempts'[r] + Cardinality(Holders(r)')
                       <= MaxAttempts + Cardinality(Dispatches) - 1
  BY DEF AttemptsHeld
<1>5. CASE r \in rs /\ attempts[r] < MaxAttempts
  <2>1. Cardinality(Holders(r)') <= Cardinality(Dispatches) /\ Cardinality(Holders(r)') \in Nat
        /\ Cardinality(Dispatches) \in Nat
    <3>1. Holders(r)' \subseteq Dispatches
      BY DEF Holders
    <3> QED BY <3>1, HoldersFinite
  <2>2. attempts'[r] \in Nat /\ attempts'[r] <= MaxAttempts - 1 /\ MaxAttempts \in Nat
    BY <1>2, <1>5, NotificationsAssumption
       DEF NotificationsAssumption, QueueInv, NotificationsTypeOK
  <2> QED BY <2>1, <2>2
<1>6. CASE ~(r \in rs /\ attempts[r] < MaxAttempts)
  <2>1. Holders(r)' \subseteq Holders(r)
    BY <1>2, <1>3, <1>6 DEF Holders
  <2> QED BY <1>2, <2>1, HeldLess
<1> QED BY <1>5, <1>6

LEMMA HoldersFinish ==
    ASSUME QueueInv, NEW d \in Dispatches, NEW r \in Rows, NEW x, Finishes(d, r, x)
    PROVE  /\ Holders(r)' \subseteq Holders(r) \ {d}
           /\ \A q \in Rows : Holders(q)' \subseteq Holders(q)
<1> USE DoneHands
<1>1. Holders(r)' \subseteq Holders(r) \ {d}
  BY DEF Holders
<1>2. ASSUME NEW q \in Rows, q # r PROVE Holders(q)' \subseteq Holders(q)
  <2>1. ~(pc[d] = "wait" /\ current[d] = q)
    BY <1>2 DEF Finishes
  <2> QED BY <1>2, <2>1 DEF Holders
<1> QED BY <1>1, <1>2

LEMMA HeldInit == ASSUME Init PROVE AttemptsHeld
<1> SUFFICES ASSUME NEW r \in Rows
             PROVE  attempts[r] + Cardinality(Holders(r))
                       <= MaxAttempts + Cardinality(Dispatches) - 1
  BY DEF AttemptsHeld
<1>1. Holders(r) = {} /\ attempts[r] = 0
  BY DEF Init, Holders
<1>2. Cardinality(Holders(r)) = 0 /\ Cardinality(Dispatches) \in Nat
  BY <1>1, FS_EmptySet, HoldersFinite
<1> QED BY <1>1, <1>2, NotificationsAssumption DEF NotificationsAssumption

(* New rows begin without attempts, and nobody may have more holders than  *)
(* there are dispatches.                                                   *)
LEMMA HeldEmit == ASSUME QueueInv, AttemptsHeld, NEW k \in Keys, Emit(k) PROVE AttemptsHeld'
<1> SUFFICES ASSUME NEW r \in Rows
             PROVE  attempts'[r] + Cardinality(Holders(r)')
                       <= MaxAttempts + Cardinality(Dispatches) - 1
  BY DEF AttemptsHeld
<1>1. Holders(r)' = Holders(r)
  BY EmitRows DEF Holders
<1>2. CASE attempts'[r] = attempts[r]
  BY <1>1, <1>2, HeldLess
<1>3. CASE attempts'[r] = 0
  <2>1. Cardinality(Holders(r)') <= Cardinality(Dispatches) /\ Cardinality(Holders(r)') \in Nat
        /\ Cardinality(Dispatches) \in Nat
    <3>1. Holders(r)' \subseteq Dispatches
      BY DEF Holders
    <3> QED BY <3>1, HoldersFinite
  <2> QED BY <1>3, <2>1, NotificationsAssumption DEF NotificationsAssumption
<1> QED BY <1>2, <1>3, EmitRows

LEMMA HeldFrame ==
    ASSUME QueueInv, AttemptsHeld, attempts' = attempts,
           \A r \in Rows : Holders(r)' \subseteq Holders(r)
    PROVE  AttemptsHeld'
BY HeldLess DEF AttemptsHeld

LEMMA HeldInternal ==
    ASSUME QueueInv, AttemptsHeld, NEW d \in Dispatches, SendInternally(d)
    PROVE  AttemptsHeld'
<1>1. PICK r \in Rows :
         /\ Finishes(d, r, "sent") /\ d \in Holders(r)
         /\ attempts' = [attempts EXCEPT ![r] = @ + 1]
  BY InternalFinishes
<1>2. /\ Holders(r)' \subseteq Holders(r) \ {d}
      /\ \A q \in Rows : Holders(q)' \subseteq Holders(q)
  BY <1>1, HoldersFinish
<1>3. /\ attempts'[r] = attempts[r] + 1
      /\ \A q \in Rows : q # r => attempts'[q] = attempts[q]
  BY <1>1 DEF QueueInv, NotificationsTypeOK
<1> QED BY <1>1, <1>2, <1>3, HeldSent, HeldLess DEF AttemptsHeld

LEMMA HeldSend ==
    ASSUME QueueInv, AttemptsHeld, NEW d \in Dispatches, Send(d)
    PROVE  AttemptsHeld'
<1>1. PICK r \in Rows :
         /\ r \in batch[d] /\ d \in Holders(r) /\ pc[d] = "run"
         /\ attempts' = [attempts EXCEPT ![r] = @ + 1]
         /\ current' = [current EXCEPT ![d] = r]
         /\ pc' = [pc EXCEPT ![d] = "wait"]
         /\ UNCHANGED <<batch, seen>>
  BY SendRows
<1>2. /\ pc'[d] = "wait" /\ current'[d] = r
      /\ \A e \in Dispatches : e # d => pc'[e] = pc[e] /\ current'[e] = current[e]
  BY <1>1 DEF QueueInv, NotificationsTypeOK
<1>3. /\ Holders(r)' \subseteq Holders(r) \ {d}
      /\ \A q \in Rows : Holders(q)' \subseteq Holders(q)
  BY <1>1, <1>2 DEF Holders
<1>4. /\ attempts'[r] = attempts[r] + 1
      /\ \A q \in Rows : q # r => attempts'[q] = attempts[q]
  BY <1>1 DEF QueueInv, NotificationsTypeOK
<1> QED BY <1>1, <1>3, <1>4, HeldSent, HeldLess DEF AttemptsHeld

LEMMA AttemptsStep == ASSUME AttemptsInv, [Next]_vars PROVE AttemptsInv'
<1> USE DEF AttemptsInv
<1>1. ASSUME NEW k \in Keys, Emit(k) \/ Resolve(k) \/ Lapse(k) PROVE AttemptsHeld'
  <2>1. CASE Emit(k)
    BY <2>1, HeldEmit
  <2>2. CASE Resolve(k) \/ Lapse(k)
    BY <2>2, HeldFrame DEF Resolve, Lapse, table, Holders
  <2> QED BY <1>1, <2>1, <2>2
<1>2. ASSUME NEW d \in Dispatches, Drop(d) \/ Answer(d) PROVE AttemptsHeld'
  BY <1>2, DropFinishes, AnswerFinishes, HoldersFinish, HeldFrame
<1>3. CASE Restart
  <2>1. attempts' = attempts /\ \A r \in Rows : Holders(r)' \subseteq Holders(r)
    BY <1>3 DEF Restart, table, Holders
  <2> QED BY <2>1, HeldFrame, QueueStep
<1>4. CASE UNCHANGED vars
  <2>1. attempts' = attempts /\ \A r \in Rows : Holders(r)' \subseteq Holders(r)
    BY <1>4 DEF vars, Holders
  <2> QED BY <2>1, HeldFrame, QueueStep
<1> QED
  BY <1>1, <1>2, <1>3, <1>4, QueueStep, HeldStart, HeldInternal, HeldSend DEF Next, Step

LEMMA AttemptsInvariant == Spec => []AttemptsInv
<1>1. Init => AttemptsInv
  BY QueueInit, HeldInit DEF AttemptsInv
<1>2. AttemptsInv /\ [Next]_vars => AttemptsInv'
  BY AttemptsStep
<1> QED BY <1>1, <1>2, PTL DEF Spec

-----------------------------------------------------------------------------
(* The table, the dispatches and what they have in hand have the types the *)
(* code gives them (notification-store.ts, notification-manager.ts).       *)
THEOREM NotificationsTypeCorrect == Spec => []NotificationsTypeOK
<1>1. AttemptsInv => NotificationsTypeOK
  BY DEF AttemptsInv, QueueInv
<1> QED BY <1>1, AttemptsInvariant, PTL

(* Nothing is 'sending' without a dispatch that waits for the answer, but  *)
(* for rows that a crash left behind (dispatch, line 195).                 *)
THEOREM NothingLeftSending == Spec => []SendingAccounted
<1>1. AttemptsInv => SendingAccounted
  BY DEF AttemptsInv, QueueInv
<1> QED BY <1>1, AttemptsInvariant, PTL

(* Only rows that two dispatches had in hand at once are acknowledged more *)
(* than once (dispatchQueued, started by a timer that does not wait).      *)
THEOREM OnlyOverlapSendsTwice == Spec => []TwiceOnlyByOverlap
<1>1. AttemptsInv => TwiceOnlyByOverlap
  BY DEF AttemptsInv, QueueInv, AckedOnce, TwiceOnlyByOverlap, NotificationsTypeOK
<1> QED BY <1>1, AttemptsInvariant, PTL

(* The limit of attempts, though compared with a number read earlier, is   *)
(* exceeded by one for each other dispatch at most (dispatchQueued, 240).  *)
THEOREM AttemptsLimited == Spec => []AttemptsBounded
<1>1. AttemptsInv => AttemptsBounded
  <2> SUFFICES ASSUME AttemptsInv, NEW r \in Rows
               PROVE  attempts[r] <= MaxAttempts + Cardinality(Dispatches) - 1
    BY DEF AttemptsBounded
  <2>1. Holders(r) \subseteq Dispatches
    BY DEF Holders
  <2>2. Cardinality(Holders(r)) \in Nat /\ Cardinality(Dispatches) \in Nat
    BY <2>1, HoldersFinite
  <2>3. attempts[r] \in Nat /\ MaxAttempts \in Nat
    BY NotificationsAssumption
       DEF NotificationsAssumption, AttemptsInv, QueueInv, NotificationsTypeOK
  <2> QED BY <2>2, <2>3 DEF AttemptsInv, AttemptsHeld
<1> QED BY <1>1, AttemptsInvariant, PTL

(* A row that has ended is opened again by no event, resolution, crash or  *)
(* dispatch but one that has had it in hand since it was queued.           *)
THEOREM EndedRowsStay == Spec => EndedStays
<1>1. AttemptsInv /\ [Next]_vars =>
         [\A r \in Rows :
             status[r] \in Final /\ (\A d \in Dispatches : r \notin batch[d])
                 => status'[r] = status[r]]_vars
  <2> SUFFICES ASSUME AttemptsInv, Next, NEW r \in Rows, status[r] \in Final,
                      \A d \in Dispatches : r \notin batch[d]
               PROVE  status'[r] = status[r]
    BY DEF Final
  <2> USE DEF AttemptsInv
  <2>1. ASSUME NEW k \in Keys, Emit(k) \/ Resolve(k) \/ Lapse(k) PROVE status'[r] = status[r]
    BY <2>1, EmitRows, ResolveRows DEF Final, Lapse, table
  <2>2. ASSUME NEW d \in Dispatches, NEW q \in Rows, NEW x, Finishes(d, q, x)
        PROVE  status'[r] = status[r]
    <3>1. q \in batch[d] /\ q # r
      BY <2>2 DEF Finishes
    <3> QED BY <2>2, <3>1, DoneHands
  <2>3. ASSUME NEW d \in Dispatches, Drop(d) \/ SendInternally(d) \/ Answer(d)
        PROVE  status'[r] = status[r]
    BY <2>2, <2>3, DropFinishes, InternalFinishes, AnswerFinishes
  <2>4. ASSUME NEW d \in Dispatches, Send(d) PROVE status'[r] = status[r]
    <3>1. PICK q \in Rows : q \in batch[d] /\ status' = [status EXCEPT ![q] = "sending"]
      BY <2>4, SendRows
    <3> QED BY <3>1 DEF QueueInv, NotificationsTypeOK
  <2>5. ASSUME NEW d \in Dispatches, Start(d) PROVE status'[r] = status[r]
    BY <2>5 DEF Start, table
  <2> QED BY <2>1, <2>3, <2>4, <2>5 DEF Next, Step, Restart, table
<1> QED BY <1>1, AttemptsInvariant, PTL DEF Spec, EndedStays
=============================================================================
