---------------------- MODULE NotificationsProperties ----------------------
(***************************************************************************)
(* What the notification queue is expected to satisfy.                     *)
(***************************************************************************)
EXTENDS Notifications

(* Type invariant.                                                         *)
NotificationsTypeOK ==
    /\ status \in [Rows -> Statuses]
    /\ attempts \in [Rows -> Nat] /\ born \in [Rows -> Nat] /\ acked \in [Rows -> Nat]
    /\ lapsed \subseteq Keys
    /\ pc \in [Dispatches -> {"idle", "run", "wait"}]
    /\ batch \in [Dispatches -> SUBSET Rows]
    /\ seen \in [Dispatches -> [Rows -> Nat]]
    /\ current \in [Dispatches -> Rows \union {NoRow}]
    /\ shared \subseteq Rows /\ orphans \subseteq Rows /\ restarts \in 0..MaxRestarts

(* A row is 'sending' only while a dispatch waits for its provider; the     *)
(* exception is a row that a crash of the worker left behind, which no     *)
(* dispatch ever looks at again.                                           *)
SendingAccounted ==
    \A r \in Rows : status[r] = "sending" =>
        r \in orphans \/ \E d \in Dispatches : pc[d] = "wait" /\ current[d] = r

(* However many dispatches overlap, and though each decides by the number  *)
(* of attempts it read before, a row is tried at most once more than       *)
(* max_attempts for each other dispatch that can run.                      *)
AttemptsBounded ==
    \A r \in Rows : attempts[r] <= MaxAttempts + Cardinality(Dispatches) - 1

(* A message is acknowledged twice only when two dispatches had its row in *)
(* hand at once: one dispatch alone never sends again what was accepted,   *)
(* whatever fails, expires, is resolved or is interrupted in between.      *)
TwiceOnlyByOverlap ==
    \A r \in Rows : acked[r] > 1 => r \in shared

(* A row that has ended is not opened again, neither by a new event with   *)
(* its key nor by a restart, unless a dispatch that read it while it was   *)
(* queued still has it in hand.                                            *)
EndedStays ==
    [][\A r \in Rows :
          status[r] \in Final /\ (\A d \in Dispatches : r \notin batch[d])
              => status'[r] = status[r]]_vars

(* Every notice comes to rest: in the end its status no longer changes and *)
(* is a final one, or it is a row that a crash left behind.                *)
EveryNoticeSettles ==
    \A r \in Rows :
        <>[](status[r] \in Final \union {"none"} \/ (status[r] = "sending" /\ r \in orphans))
=============================================================================
