--------------------------- MODULE StoreProjection ---------------------------
(***************************************************************************)
(* The queue by which a store in memory is written to the database: every  *)
(* change is a generation with a snapshot of the whole store, the          *)
(* snapshots are written one after the other, each in a transaction of its *)
(* own that may fail, and a caller that must not answer before its change  *)
(* is saved waits for the generation of the change.                        *)
(*                                                                         *)
(* The trade service and the roomlog service have one such queue each,     *)
(* written the same way. Generations are counted anew by every process.    *)
(***************************************************************************)
EXTENDS Integers, Sequences

CONSTANT Snapshots         \* what a snapshot may hold

VARIABLES
  generation,              \* projectionGeneration: snapshots taken so far
  queue,                   \* pendingProjection: the snapshots not yet dealt with
  completed,               \* completedProjectionGeneration
  failure                  \* projectionFailure.generation, 0 for undefined

projectionVars == <<generation, queue, completed, failure>>

(* The snapshots dealt with: written or given up. *)
Done == generation - Len(queue)

ProjectionInit == generation = 0 /\ queue = <<>> /\ completed = 0 /\ failure = 0

Project(s) ==
  /\ generation' = generation + 1
  /\ queue' = Append(queue, s)
  /\ UNCHANGED <<completed, failure>>

(* The oldest snapshot is written. *)
Persist ==
  /\ queue # <<>>
  /\ completed' = Done + 1
  /\ failure' = IF failure <= Done + 1 THEN 0 ELSE failure
  /\ queue' = Tail(queue)
  /\ UNCHANGED generation

(* Writing it fails. *)
PersistFails ==
  /\ queue # <<>>
  /\ failure' = IF Done + 1 >= failure THEN Done + 1 ELSE failure
  /\ queue' = Tail(queue)
  /\ UNCHANGED <<generation, completed>>

(* The process starts anew with an empty queue. *)
Restart == generation' = 0 /\ queue' = <<>> /\ completed' = 0 /\ failure' = 0

(***************************************************************************)
(* Waiting for generation g: the wait ends when g has been dealt with, and *)
(* the caller goes on if it was written, by itself or with a later one.    *)
(***************************************************************************)
Settled(g) == Done >= g
Saved(g) == completed >= g

(* Nothing was projected since the last projection failed. *)
LastFailed == failure = generation /\ completed < generation

ProjectionNext ==
  \/ \E s \in Snapshots : Project(s)
  \/ Persist
  \/ PersistFails
  \/ Restart

ProjectionSpec == ProjectionInit /\ [][ProjectionNext]_projectionVars

(***************************************************************************)
(* Properties.                                                             *)
(***************************************************************************)
(* A caller whose wait has ended is let through only if a snapshot as new  *)
(* as its own was written, and is refused only if the latest attempt to    *)
(* write, its own or a later one, failed: there is an error to report.     *)
GateIsHonest ==
  /\ completed <= Done
  /\ \A g \in 1..generation : Settled(g) /\ ~Saved(g) => failure = Done

(* A projection is repeated only when none is on its way. *)
RepeatsWhenIdle == generation > 0 /\ LastFailed => queue = <<>>
=============================================================================
