------------------------- MODULE DomainEventOutbox -------------------------
(***************************************************************************)
(* The transactional outbox: deliveries enqueued by the transactions of    *)
(* other components, claimed under a lease by workers that run in every    *)
(* server process, and marked delivered or rescheduled by whoever still    *)
(* holds the lease.                                                        *)
(*                                                                         *)
(* Time appears as two facts a delivery may acquire: it is due, and its    *)
(* lease has run out. A worker drains one batch at a time, so a claim's    *)
(* lock token is told by the worker that made it: a token is stale exactly *)
(* when the row's owner is another. What a delivery does is left to the    *)
(* components that use the outbox; see NotificationDispatch and            *)
(* CompletionCredit.                                                       *)
(***************************************************************************)
EXTENDS Naturals, FiniteSets

CONSTANTS
  Deliveries,              \* (eventKey, consumer) pairs of one consumer
  Workers,                 \* drains running at the same time, one per server process
  MaxFaults                \* bound: crashes, failed statements and overrun leases

ASSUME MaxFaultsAssumption == MaxFaults \in Nat

VARIABLES
  state,                   \* DomainEventDelivery.state, "NONE" when there is no row
  due,                     \* availableAt has passed
  expired,                 \* leaseExpiresAt has passed
  owner,                   \* the worker whose lockToken the row holds
  batch,                   \* deliveries a worker has claimed and not yet done with
  working,                 \* the one it works on, and how far it is
  faults                   \* how many faults have happened

outboxVars == <<state, due, expired, owner, batch, working, faults>>

Nobody == "nobody"
ASSUME NobodyAssumption == Nobody \notin Workers

States == {"NONE", "PENDING", "PROCESSING", "DELIVERED"}
Resting == [on |-> Nobody, at |-> "EFFECT"]

Fault == faults < MaxFaults /\ faults' = faults + 1

Enqueue(d) ==
  IF state[d] = "NONE"
    THEN /\ state' = [state EXCEPT ![d] = "PENDING"]
         /\ due' = [due EXCEPT ![d] = TRUE]
    ELSE UNCHANGED <<state, due>>

(***************************************************************************)
(* Time.                                                                   *)
(***************************************************************************)
BecomeDue(d) ==
  /\ state[d] = "PENDING" /\ ~ due[d]
  /\ due' = [due EXCEPT ![d] = TRUE]
  /\ UNCHANGED <<state, expired, owner, batch, working, faults>>

Held(d) == owner[d] # Nobody /\ d \in batch[owner[d]]

(* A lease nobody works under any more runs out in time. *)
ExpireLostLease(d) ==
  /\ state[d] = "PROCESSING" /\ ~ expired[d] /\ ~ Held(d)
  /\ expired' = [expired EXCEPT ![d] = TRUE]
  /\ UNCHANGED <<state, due, owner, batch, working, faults>>

(* A worker may be slower than its lease of a minute. *)
OverrunLease(d) ==
  /\ state[d] = "PROCESSING" /\ ~ expired[d] /\ Held(d)
  /\ expired' = [expired EXCEPT ![d] = TRUE]
  /\ Fault
  /\ UNCHANGED <<state, due, owner, batch, working>>

(***************************************************************************)
(* A worker's drain.                                                       *)
(***************************************************************************)
(* Faulty: a row in processing is claimed while its lease still runs. *)
ClaimableAnyLease(d) == (state[d] = "PENDING" /\ due[d]) \/ state[d] = "PROCESSING"

(* Faulty: a row whose lease ran out is never claimed again. *)
ClaimableOnlyPending(d) == state[d] = "PENDING" /\ due[d]

Claimable(d) ==
  \/ state[d] = "PENDING" /\ due[d]
  \/ state[d] = "PROCESSING" /\ expired[d]

(* Every claimable row: the limit of 25 rows exceeds the deliveries here. *)
ClaimPending(w) ==
  LET claimed == {d \in Deliveries : Claimable(d)} IN
    /\ batch[w] = {} /\ claimed # {}
    /\ state' = [d \in Deliveries |-> IF d \in claimed THEN "PROCESSING" ELSE state[d]]
    /\ owner' = [d \in Deliveries |-> IF d \in claimed THEN w ELSE owner[d]]
    /\ expired' = [d \in Deliveries |-> d \notin claimed /\ expired[d]]
    /\ batch' = [batch EXCEPT ![w] = claimed]
    /\ UNCHANGED <<due, working, faults>>

WorkOn(w, d, point) ==
  /\ d \in batch[w]
  /\ working[w] = Resting
  /\ working' = [working EXCEPT ![w] = [on |-> d, at |-> point]]
  /\ UNCHANGED <<state, due, expired, owner, batch>>

(* One delivery of the batch takes effect, or is refused its effect. *)
TakeEffect(w, d, ok) ==
  WorkOn(w, d, IF ok THEN "MARK" ELSE "RESCHEDULE") /\ UNCHANGED faults

(* The transaction that would give it its effect fails. *)
FailToTakeEffect(w, d) == WorkOn(w, d, "RESCHEDULE") /\ Fault

Proceed(w) ==
  /\ batch' = [batch EXCEPT ![w] = @ \ {working[w].on}]
  /\ working' = [working EXCEPT ![w] = Resting]

(* Faulty: the update does not ask for the lock token. *)
ReleaseIgnoringToken(w, newState, isDue) ==
  LET d == working[w].on IN
    /\ state' = [state EXCEPT ![d] = newState]
    /\ owner' = [owner EXCEPT ![d] = Nobody]
    /\ due' = [due EXCEPT ![d] = isDue]
    /\ expired' = [expired EXCEPT ![d] = FALSE]

(* Both updates name the lock token, and change nothing if it is stale. *)
Release(w, newState, isDue) ==
  LET d == working[w].on IN
    IF state[d] = "PROCESSING" /\ owner[d] = w
      THEN /\ state' = [state EXCEPT ![d] = newState]
           /\ owner' = [owner EXCEPT ![d] = Nobody]
           /\ due' = [due EXCEPT ![d] = isDue]
           /\ expired' = [expired EXCEPT ![d] = FALSE]
      ELSE UNCHANGED <<state, owner, due, expired>>

MarkDelivered(w) ==
  /\ working[w].at = "MARK"
  /\ Release(w, "DELIVERED", FALSE)
  /\ Proceed(w)
  /\ UNCHANGED faults

Reschedule(w) ==
  /\ working[w].at = "RESCHEDULE"
  /\ Release(w, "PENDING", FALSE)
  /\ Proceed(w)
  /\ UNCHANGED faults

(* The statement fails: a delivery that took effect is rescheduled, one    *)
(* that could not be rescheduled is left to its lease.                     *)
FailToMark(w) ==
  /\ working[w].at = "MARK"
  /\ working' = [working EXCEPT ![w].at = "RESCHEDULE"]
  /\ Fault
  /\ UNCHANGED <<state, due, expired, owner, batch>>

FailToReschedule(w) ==
  /\ working[w].at = "RESCHEDULE"
  /\ Proceed(w)
  /\ Fault
  /\ UNCHANGED <<state, due, expired, owner>>

(* The process dies, in the middle of a transaction or between two, and is *)
(* started again.                                                          *)
Crash(w) ==
  /\ batch[w] # {}
  /\ batch' = [batch EXCEPT ![w] = {}]
  /\ working' = [working EXCEPT ![w] = Resting]
  /\ Fault
  /\ UNCHANGED <<state, due, expired, owner>>

OutboxInit ==
  /\ state = [d \in Deliveries |-> "NONE"]
  /\ due = [d \in Deliveries |-> FALSE]
  /\ expired = [d \in Deliveries |-> FALSE]
  /\ owner = [d \in Deliveries |-> Nobody]
  /\ batch = [w \in Workers |-> {}]
  /\ working = [w \in Workers |-> Resting]
  /\ faults = 0

(* The steps of the outbox that need no effect. *)
OutboxStep ==
  \/ \E d \in Deliveries : BecomeDue(d) \/ ExpireLostLease(d) \/ OverrunLease(d)
  \/ \E w \in Workers :
       \/ ClaimPending(w) \/ MarkDelivered(w) \/ Reschedule(w)
       \/ FailToMark(w) \/ FailToReschedule(w) \/ Crash(w)

(***************************************************************************)
(* Properties.                                                             *)
(***************************************************************************)
(* Rows hold the values of their columns; a token is set exactly while a   *)
(* row is in processing, and a worker works on a row of its own batch.     *)
OutboxTypeOK ==
  /\ state \in [Deliveries -> States]
  /\ due \in [Deliveries -> BOOLEAN] /\ expired \in [Deliveries -> BOOLEAN]
  /\ owner \in [Deliveries -> Workers \union {Nobody}]
  /\ \A d \in Deliveries :
       /\ (owner[d] # Nobody) <=> (state[d] = "PROCESSING")
       /\ expired[d] => state[d] = "PROCESSING"
  /\ batch \in [Workers -> SUBSET Deliveries]
  /\ working \in [Workers -> [on : Deliveries \union {Nobody},
                             at : {"EFFECT", "MARK", "RESCHEDULE"}]]
  /\ \A w \in Workers :
       \/ working[w] = Resting
       \/ working[w].on \in batch[w] /\ working[w].at # "EFFECT"
  /\ faults \in 0..MaxFaults

(* While a lease runs, only the worker that holds it moves the delivery:   *)
(* a slow worker whose row was claimed by another neither marks it nor     *)
(* reschedules it under the other's feet.                                  *)
LeaseRespected ==
  [][\A d \in Deliveries :
       state[d] = "PROCESSING" /\ (state'[d] # "PROCESSING" \/ owner'[d] # owner[d])
         => expired[d] \/ working[owner[d]].on = d]_outboxVars
===========================================================================
