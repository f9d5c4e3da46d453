---------------------------- MODULE ProjectLocks ----------------------------
(***************************************************************************)
(* The in-memory lock registry of src/projects/project-locks.ts.           *)
(*                                                                         *)
(* The registry is a map from <<project id, environment>> to the lock held *)
(* there.  Time is abstracted to one bit per lock: expired is TRUE once    *)
(* the wall clock has passed expiresAt.  An expired lock stays in the map  *)
(* until some call removes it, as in the code.  Every caller in the        *)
(* repository asks for a lock of type 'write'.                             *)
(*                                                                         *)
(* The operators take the registry and return the new registry, so that a  *)
(* handler that makes several calls can compose them.                      *)
(***************************************************************************)

CONSTANTS
    LockIds,        \* project ids a lock can be taken for
    Environments,   \* local, staging, production
    Holders         \* task ids, and the ids of tasks that were never stored

LockKeys == LockIds \X Environments

NoLock == [held |-> FALSE]
Lock   == [held : {TRUE}, holder : Holders, expired : BOOLEAN]

Registries == [LockKeys -> Lock \union {NoLock}]

EmptyRegistry == [k \in LockKeys |-> NoLock]

HeldBy(reg, k, t) == reg[k].held /\ reg[k].holder = t

Expired(reg, k) == reg[k].held /\ reg[k].expired

(* The entries of reg at the keys in K are deleted.                        *)
Without(reg, K) == [k \in LockKeys |-> IF k \in K THEN NoLock ELSE reg[k]]

(* acquireLock, first part: an expired lock at the very key is deleted,    *)
(* whether or not the lock is granted afterwards.                          *)
SweepKey(reg, k) == Without(reg, {j \in {k} : Expired(reg, j)})

(* acquireLock, second part: any other task's lock on the project, in any  *)
(* environment, blocks a write.  The scan over the other environments does *)
(* not look at their expiry.                                               *)
BlockedFor(reg, p, t) ==
    \E e \in Environments : reg[<<p, e>>].held /\ reg[<<p, e>>].holder # t

(* Mutant: only the lock at the very key is looked at.                     *)
CanAcquire_SameEnv(reg, p, e, t) ==
    SweepKey(reg, <<p, e>>)[<<p, e>>] \in {NoLock} \union
        {[held |-> TRUE, holder |-> t, expired |-> x] : x \in BOOLEAN}

CanAcquire(reg, p, e, t) == ~BlockedFor(SweepKey(reg, <<p, e>>), p, t)

Granted(reg, p, e, t) ==
    [SweepKey(reg, <<p, e>>) EXCEPT
        ![<<p, e>>] = [held |-> TRUE, holder |-> t, expired |-> FALSE]]

(* Mutant: whoever holds the lock loses it.                                *)
Released_Anybody(reg, R) == Without(reg, {x[1] : x \in R})

(* releaseLock, called for every pair of R: only the holder's own entry is *)
(* removed.                                                                *)
Released(reg, R) ==
    Without(reg, {k \in LockKeys : \E x \in R : x[1] = k /\ HeldBy(reg, k, x[2])})

(* clearExpiredLocks *)
Cleared(reg) == Without(reg, {k \in LockKeys : Expired(reg, k)})

(* The wall clock passes expiresAt of the lock at k.                       *)
Aged(reg, k) == [reg EXCEPT ![k].expired = TRUE]
=============================================================================
