----------------------- MODULE NotificationDispatch -----------------------
(***************************************************************************)
(* The dispatcher of the outbox's notifications: an event is emitted to    *)
(* its target users' sockets, and counts as emitted only when every one of *)
(* them is connected at that moment to the process the dispatcher runs in. *)
(***************************************************************************)
EXTENDS DomainEventOutbox

CONSTANTS
  Users,                   \* users with a socket room of their own
  Targets                  \* [Deliveries -> SUBSET Users]: DomainEventOutbox.targetUserIds

ASSUME TargetsAssumption == Targets \in [Deliveries -> SUBSET Users]

VARIABLES
  online,                  \* <<user, worker>>: the user has a socket to the worker's process
  emitted                  \* how often each event was sent to its targets

dispatchVars == <<outboxVars, online, emitted>>

(* RealtimeGateway.notifyUsers: all rooms, or nothing at all. *)
Reachable(w, d) == Targets[d] # {} /\ Targets[d] \X {w} \subseteq online

Notify(w) ==
  \E d \in Deliveries :
    /\ TakeEffect(w, d, Reachable(w, d))
    /\ emitted' = IF Reachable(w, d) THEN [emitted EXCEPT ![d] = @ + 1] ELSE emitted
    /\ UNCHANGED online

EnqueueNotification(d) ==
  /\ state[d] = "NONE"
  /\ Enqueue(d)
  /\ UNCHANGED <<expired, owner, batch, working, faults, online, emitted>>

(* A socket connects, or is lost. *)
SwitchConnection(u, w) ==
  /\ online' = IF <<u, w>> \in online THEN online \ {<<u, w>>} ELSE online \union {<<u, w>>}
  /\ UNCHANGED <<outboxVars, emitted>>

DispatchInit ==
  /\ OutboxInit
  /\ online = {}
  /\ emitted = [d \in Deliveries |-> 0]

DispatchNext ==
  \/ \E d \in Deliveries : EnqueueNotification(d)
  \/ \E w \in Workers : Notify(w)
  \/ \E u \in Users, w \in Workers : SwitchConnection(u, w)
  \/ OutboxStep /\ UNCHANGED <<online, emitted>>

(* The poll interval drives every worker, and time passes. *)
DispatchFairness ==
  /\ \A d \in Deliveries :
       WF_dispatchVars((BecomeDue(d) \/ ExpireLostLease(d)) /\ UNCHANGED <<online, emitted>>)
  /\ \A w \in Workers :
       /\ WF_dispatchVars(Notify(w))
       /\ WF_dispatchVars(/\ ClaimPending(w) \/ MarkDelivered(w) \/ Reschedule(w)
                          /\ UNCHANGED <<online, emitted>>)

DispatchSpec == DispatchInit /\ [][DispatchNext]_dispatchVars /\ DispatchFairness

(***************************************************************************)
(* Properties.                                                             *)
(***************************************************************************)
(* Nothing is recorded as delivered that was not sent, and a user sees an  *)
(* event twice only after a fault: a crash between the emission and its    *)
(* record, a record that failed, or a lease overrun while emitting.        *)
EmittedOncePerFault ==
  \A d \in Deliveries :
    /\ state[d] = "DELIVERED" => emitted[d] >= 1
    /\ emitted[d] <= 1 + faults

(* An event reaches its users once they all stay connected to every        *)
(* process, whatever crashes, failed statements and overrun leases came    *)
(* before; sockets that come and go promise nothing.                       *)
ReachableIsDelivered ==
  \A d \in Deliveries :
    <>[](state[d] # "NONE" /\ \A w \in Workers : Reachable(w, d)) => <>(state[d] = "DELIVERED")
===========================================================================
