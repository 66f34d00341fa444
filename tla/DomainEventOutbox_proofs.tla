---------------------- MODULE DomainEventOutbox_proofs ----------------------
(***************************************************************************)
(* What holds of the outbox and of what it drives, for any deliveries,     *)
(* workers and faults. First the outbox itself: what a step may do to a    *)
(* delivery, how often it may be tried, and who may move it under a lease. *)
(* Then payments: the payment request behaves as VendorPayment says, so    *)
(* that all that is proved of VendorPayment holds here too, and the        *)
(* deliveries agree with it. Then notifications: one emission and no more  *)
(* for each fault.                                                         *)
(***************************************************************************)
EXTENDS CompletionCredit, NotificationDispatch, VendorPayment_proofs, FiniteSetTheorems

(***************************************************************************)
(* The outbox.                                                             *)
(***************************************************************************)
(* What a step of the outbox may do to a delivery, whatever it delivers:   *)
(* none comes into being, none that was delivered moves, and one becomes   *)
(* delivered only by a worker that has given it its effect.                *)
Advances(d) ==
  /\ (state'[d] = "NONE") <=> (state[d] = "NONE")
  /\ state[d] = "DELIVERED" => state'[d] = "DELIVERED"
  /\ state'[d] = "DELIVERED" /\ state[d] # "DELIVERED" =>
       \E w \in Workers : working[w] = [on |-> d, at |-> "MARK"]
(* No worker comes to mark a delivery without having given it its effect.  *)
NoNewMarks == \A w \in Workers : working'[w].at = "MARK" => working'[w] = working[w]

RestingAt == [on : Deliveries \union {Nobody}, at : {"EFFECT", "MARK", "RESCHEDULE"}]

LEMMA ReleaseEffect ==
  ASSUME OutboxTypeOK, NEW w \in Workers, working[w].at # "EFFECT",
         NEW s \in {"PENDING", "DELIVERED"}, s = "DELIVERED" => working[w].at = "MARK",
         Release(w, s, FALSE), Proceed(w), faults' \in 0..MaxFaults
  PROVE  OutboxTypeOK' /\ NoNewMarks /\ \A d \in Deliveries : Advances(d)
<1> DEFINE d == working[w].on
<1> USE DEF OutboxTypeOK
<1>1. d \in batch[w] /\ d \in Deliveries /\ working[w] = [on |-> d, at |-> working[w].at]
  BY DEF Resting
<1>2. /\ batch' \in [Workers -> SUBSET Deliveries] /\ batch'[w] = batch[w] \ {d}
      /\ \A v \in Workers \ {w} : batch'[v] = batch[v]
  BY DEF Proceed
<1>3. /\ working' \in [Workers -> RestingAt] /\ working'[w] = Resting
      /\ \A v \in Workers \ {w} : working'[v] = working[v]
  BY DEF Proceed, Resting, RestingAt
<1>4. CASE /\ state[d] = "PROCESSING" /\ owner[d] = w
           /\ state' = [state EXCEPT ![d] = s] /\ owner' = [owner EXCEPT ![d] = Nobody]
           /\ due' = [due EXCEPT ![d] = FALSE] /\ expired' = [expired EXCEPT ![d] = FALSE]
  <2>1. /\ state' \in [Deliveries -> States] /\ due' \in [Deliveries -> BOOLEAN]
        /\ expired' \in [Deliveries -> BOOLEAN] /\ owner' \in [Deliveries -> Workers \union {Nobody}]
        /\ state'[d] = s /\ owner'[d] = Nobody /\ expired'[d] = FALSE
        /\ \A e \in Deliveries \ {d} :
             state'[e] = state[e] /\ owner'[e] = owner[e] /\ expired'[e] = expired[e]
    BY <1>1, <1>4 DEF States
  <2>2. OutboxTypeOK'
    BY <1>2, <1>3, <2>1 DEF RestingAt
  <2>3. \A e \in Deliveries : Advances(e)
    BY <1>1, <1>4, <2>1 DEF Advances
  <2> QED
    BY <1>3, <2>2, <2>3 DEF NoNewMarks, Resting
<1>5. CASE UNCHANGED <<state, owner, due, expired>>
  <2>1. OutboxTypeOK'
    BY <1>2, <1>3, <1>5 DEF RestingAt
  <2>2. \A e \in Deliveries : Advances(e)
    BY <1>5 DEF Advances
  <2> QED
    BY <1>3, <2>1, <2>2 DEF NoNewMarks, Resting
<1> QED
  BY <1>4, <1>5 DEF Release

LEMMA OutboxStepAdvances ==
  ASSUME OutboxTypeOK, OutboxStep
  PROVE  OutboxTypeOK' /\ NoNewMarks /\ \A d \in Deliveries : Advances(d)
<1> USE MaxFaultsAssumption DEF OutboxTypeOK, Fault
<1>1. ASSUME NEW d \in Deliveries, BecomeDue(d) \/ ExpireLostLease(d) \/ OverrunLease(d)
      PROVE  OutboxTypeOK' /\ NoNewMarks /\ \A e \in Deliveries : Advances(e)
  <2>1. UNCHANGED <<state, owner, batch, working>>
    BY <1>1 DEF BecomeDue, ExpireLostLease, OverrunLease
  <2>2. due' \in [Deliveries -> BOOLEAN]
    BY <1>1 DEF BecomeDue, ExpireLostLease, OverrunLease
  <2>3. faults' \in 0..MaxFaults
    BY <1>1 DEF BecomeDue, ExpireLostLease, OverrunLease
  <2>4. /\ expired' \in [Deliveries -> BOOLEAN]
        /\ \A e \in Deliveries : expired'[e] => state[e] = "PROCESSING"
    BY <1>1 DEF BecomeDue, ExpireLostLease, OverrunLease
  <2> QED
    BY <2>1, <2>2, <2>3, <2>4 DEF NoNewMarks, Advances
<1>2. ASSUME NEW w \in Workers, ClaimPending(w)
      PROVE  OutboxTypeOK' /\ NoNewMarks /\ \A e \in Deliveries : Advances(e)
  <2> DEFINE claimed == {d \in Deliveries : Claimable(d)}
  <2>1. /\ batch[w] = {} /\ UNCHANGED <<due, working, faults>>
        /\ state' = [d \in Deliveries |-> IF d \in claimed THEN "PROCESSING" ELSE state[d]]
        /\ owner' = [d \in Deliveries |-> IF d \in claimed THEN w ELSE owner[d]]
        /\ expired' = [d \in Deliveries |-> d \notin claimed /\ expired[d]]
        /\ batch' = [batch EXCEPT ![w] = claimed]
    BY <1>2 DEF ClaimPending
  <2>2. \A d \in claimed : state[d] \in {"PENDING", "PROCESSING"}
    BY DEF Claimable
  <2>3. /\ state' \in [Deliveries -> States] /\ expired' \in [Deliveries -> BOOLEAN]
        /\ owner' \in [Deliveries -> Workers \union {Nobody}]
    <3> HIDE DEF claimed
    <3> QED
      BY <2>1 DEF States
  <2>4. /\ batch' \in [Workers -> SUBSET Deliveries]
        /\ \A v \in Workers \ {w} : batch'[v] = batch[v]
    <3>1. claimed \subseteq Deliveries
      OBVIOUS
    <3> HIDE DEF claimed
    <3> QED
      BY <2>1, <3>1
  <2>5. \A d \in Deliveries : /\ (owner'[d] # Nobody) <=> (state'[d] = "PROCESSING")
                              /\ expired'[d] => state'[d] = "PROCESSING"
    <3> HIDE DEF claimed
    <3> QED
      BY <2>1, NobodyAssumption
  <2>6. \A v \in Workers : \/ working[v] = Resting
                           \/ working[v].on \in batch'[v] /\ working[v].at # "EFFECT"
    BY <2>1, <2>4
  <2>7. \A e \in Deliveries : Advances(e)
    <3> HIDE DEF claimed
    <3> QED
      BY <2>1, <2>2 DEF Advances
  <2> HIDE DEF claimed
  <2>8. OutboxTypeOK'
    BY <2>1, <2>3, <2>4, <2>5, <2>6
  <2> QED
    BY <2>1, <2>7, <2>8 DEF NoNewMarks
<1>3. ASSUME NEW w \in Workers, MarkDelivered(w) \/ Reschedule(w)
      PROVE  OutboxTypeOK' /\ NoNewMarks /\ \A e \in Deliveries : Advances(e)
  BY <1>3, ReleaseEffect DEF MarkDelivered, Reschedule
<1>4. ASSUME NEW w \in Workers, FailToMark(w)
      PROVE  OutboxTypeOK' /\ NoNewMarks /\ \A e \in Deliveries : Advances(e)
  <2>1. /\ working' \in [Workers -> RestingAt]
        /\ working'[w].on = working[w].on /\ working'[w].at = "RESCHEDULE"
        /\ \A v \in Workers \ {w} : working'[v] = working[v]
        /\ working[w].on \in batch[w]
    BY <1>4 DEF FailToMark, RestingAt, Resting
  <2>2. UNCHANGED <<state, due, expired, owner, batch>> /\ faults' \in 0..MaxFaults
    BY <1>4 DEF FailToMark
  <2> QED
    BY <2>1, <2>2 DEF NoNewMarks, Advances, RestingAt
<1>5. ASSUME NEW w \in Workers, FailToReschedule(w) \/ Crash(w)
      PROVE  OutboxTypeOK' /\ NoNewMarks /\ \A e \in Deliveries : Advances(e)
  <2>1. /\ working' \in [Workers -> RestingAt] /\ working'[w] = Resting
        /\ \A v \in Workers \ {w} : working'[v] = working[v]
    <3>1. Resting \in RestingAt
      BY DEF RestingAt, Resting
    <3>2. working' = [working EXCEPT ![w] = Resting]
      BY <1>5 DEF FailToReschedule, Crash, Proceed
    <3> QED
      BY <3>1, <3>2 DEF RestingAt
  <2>2. /\ batch' \in [Workers -> SUBSET Deliveries]
        /\ \A v \in Workers \ {w} : batch'[v] = batch[v]
    BY <1>5 DEF FailToReschedule, Crash, Proceed
  <2>3. UNCHANGED <<state, due, expired, owner>> /\ faults' \in 0..MaxFaults
    BY <1>5 DEF FailToReschedule, Crash
  <2> QED
    BY <2>1, <2>2, <2>3 DEF NoNewMarks, Advances, RestingAt, Resting
<1> QED
  BY <1>1, <1>2, <1>3, <1>4, <1>5 DEF OutboxStep

(***************************************************************************)
(* The chances a delivery has to take effect without another fault: the    *)
(* workers that may still try it, and Nobody when the row is there to be   *)
(* claimed. A fault adds at most one of them; every other step takes one   *)
(* away for each that it adds.                                             *)
(***************************************************************************)
MayTry(w, d) ==
  /\ d \in batch[w]
  /\ working[w] # Resting /\ working[w].on = d => working[w].at = "RESCHEDULE" /\ owner[d] = w
ToBeClaimed(d) ==
  \/ state[d] \in {"NONE", "PENDING"}
  \/ state[d] = "PROCESSING" /\ (expired[d] \/ ~ Held(d))
Chances(d) == {w \in Workers : MayTry(w, d)} \union {x \in {Nobody} : ToBeClaimed(d)}

ChancesPass(d) ==
  \/ faults' = faults /\ Chances(d)' \subseteq Chances(d)
  \/ faults' = faults /\ \E a \in Chances(d), b \in Workers \union {Nobody} :
                           Chances(d)' \subseteq (Chances(d) \ {a}) \union {b}
  \/ faults' = faults + 1 /\ \E b \in Workers \union {Nobody} :
                               Chances(d)' \subseteq Chances(d) \union {b}

LEMMA TimePasses ==
  ASSUME OutboxTypeOK, NEW e \in Deliveries, BecomeDue(e) \/ ExpireLostLease(e) \/ OverrunLease(e)
  PROVE  \A d \in Deliveries : ChancesPass(d)
<1> SUFFICES ASSUME NEW d \in Deliveries  PROVE ChancesPass(d)
  OBVIOUS
<1>1. UNCHANGED <<state, owner, batch, working>>
  BY DEF BecomeDue, ExpireLostLease, OverrunLease
<1>2. \A w \in Workers : MayTry(w, d)' => MayTry(w, d)
  BY <1>1 DEF MayTry
<1>3. CASE BecomeDue(e) \/ ExpireLostLease(e)
  <2>1. faults' = faults /\ (ToBeClaimed(d)' => ToBeClaimed(d))
    BY <1>1, <1>3 DEF BecomeDue, ExpireLostLease, ToBeClaimed, Held, OutboxTypeOK
  <2> QED
    BY <1>2, <2>1 DEF ChancesPass, Chances
<1>4. CASE OverrunLease(e)
  BY <1>2, <1>4 DEF OverrunLease, Fault, ChancesPass, Chances
<1> QED
  BY <1>3, <1>4

LEMMA ClaimPasses ==
  ASSUME OutboxTypeOK, NEW w \in Workers, ClaimPending(w)
  PROVE  \A d \in Deliveries : ChancesPass(d)
<1> SUFFICES ASSUME NEW d \in Deliveries  PROVE ChancesPass(d)
  OBVIOUS
<1> DEFINE claimed == {e \in Deliveries : Claimable(e)}
<1>1. /\ batch[w] = {} /\ UNCHANGED <<due, working, faults>>
      /\ state' = [e \in Deliveries |-> IF e \in claimed THEN "PROCESSING" ELSE state[e]]
      /\ owner' = [e \in Deliveries |-> IF e \in claimed THEN w ELSE owner[e]]
      /\ expired' = [e \in Deliveries |-> e \notin claimed /\ expired[e]]
      /\ batch' = [batch EXCEPT ![w] = claimed]
  BY DEF ClaimPending
<1>2. d \in claimed <=> Claimable(d)
  OBVIOUS
<1> HIDE DEF claimed
<1>3. batch'[w] = claimed /\ \A v \in Workers \ {w} : batch'[v] = batch[v]
  BY <1>1 DEF OutboxTypeOK
<1>4. CASE d \in claimed
  <2>1. ToBeClaimed(d) /\ Nobody \in Chances(d)
    BY <1>2, <1>4 DEF Claimable, ToBeClaimed, Chances
  <2>2. state'[d] = "PROCESSING" /\ owner'[d] = w /\ ~ expired'[d]
    BY <1>1, <1>4
  <2>3. ~ ToBeClaimed(d)'
    BY <1>3, <1>4, <2>2, NobodyAssumption DEF ToBeClaimed, Held
  <2>4. \A v \in Workers \ {w} : MayTry(v, d)' => MayTry(v, d)
    BY <1>1, <1>3, <2>2 DEF MayTry
  <2>5. Chances(d)' \subseteq (Chances(d) \ {Nobody}) \union {w}
    BY <2>3, <2>4, NobodyAssumption DEF Chances
  <2> QED
    BY <1>1, <2>1, <2>5 DEF ChancesPass
<1>5. CASE d \notin claimed
  <2>1. state'[d] = state[d] /\ owner'[d] = owner[d] /\ expired'[d] = expired[d]
    BY <1>1, <1>5 DEF OutboxTypeOK
  <2>2. \A v \in Workers : (d \in batch'[v]) <=> (d \in batch[v])
    BY <1>1, <1>3, <1>5
  <2>3. \A v \in Workers : MayTry(v, d)' => MayTry(v, d)
    BY <1>1, <2>1, <2>2 DEF MayTry
  <2>4. ToBeClaimed(d)' => ToBeClaimed(d)
    <3>1. owner[d] # Nobody => owner[d] \in Workers
      BY DEF OutboxTypeOK
    <3> QED
      BY <2>1, <2>2, <3>1 DEF ToBeClaimed, Held
  <2> QED
    BY <1>1, <2>3, <2>4 DEF ChancesPass, Chances
<1> QED
  BY <1>4, <1>5

LEMMA ReleasePasses ==
  ASSUME OutboxTypeOK, NEW w \in Workers, working[w].at # "EFFECT",
         NEW s \in {"PENDING", "DELIVERED"}, s = "PENDING" => working[w].at = "RESCHEDULE",
         Release(w, s, FALSE), Proceed(w), UNCHANGED faults
  PROVE  \A d \in Deliveries : ChancesPass(d)
<1> SUFFICES ASSUME NEW d \in Deliveries  PROVE ChancesPass(d)
  OBVIOUS
<1> DEFINE e == working[w].on
<1>1. e \in batch[w] /\ e \in Deliveries
  BY DEF OutboxTypeOK, Resting
<1>2. /\ batch'[w] = batch[w] \ {e} /\ \A v \in Workers \ {w} : batch'[v] = batch[v]
      /\ working'[w] = Resting /\ \A v \in Workers \ {w} : working'[v] = working[v]
  BY DEF Proceed, OutboxTypeOK
<1> HIDE DEF e
<1>3. owner[d] # Nobody => owner[d] \in Workers
  BY DEF OutboxTypeOK
<1>4. working[w] # Resting
  BY DEF Resting
<1>5. CASE d # e
  <2>1. state'[d] = state[d] /\ owner'[d] = owner[d] /\ expired'[d] = expired[d]
    BY <1>1, <1>5 DEF Release, OutboxTypeOK, e
  <2>2. \A v \in Workers : (d \in batch'[v]) <=> (d \in batch[v])
    BY <1>2, <1>5
  <2>3. \A v \in Workers : MayTry(v, d)' => MayTry(v, d)
    BY <1>2, <1>5, <2>1, <2>2 DEF MayTry, e
  <2>4. ToBeClaimed(d)' => ToBeClaimed(d)
    BY <1>3, <2>1, <2>2 DEF ToBeClaimed, Held
  <2> QED
    BY <2>3, <2>4 DEF ChancesPass, Chances
<1>6. CASE d = e /\ state[d] = "PROCESSING" /\ owner[d] = w
  <2>1. state'[d] = s /\ owner'[d] = Nobody /\ ~ expired'[d]
    BY <1>1, <1>6 DEF Release, OutboxTypeOK, e
  <2>2. ~ MayTry(w, d)' /\ \A v \in Workers \ {w} : MayTry(v, d)' => MayTry(v, d)
    BY <1>2, <1>6, <2>1, NobodyAssumption DEF MayTry
  <2>3. CASE s = "DELIVERED"
    <3>1. ~ ToBeClaimed(d)'
      BY <2>1, <2>3 DEF ToBeClaimed
    <3> QED
      BY <2>2, <3>1 DEF ChancesPass, Chances
  <2>4. CASE s = "PENDING"
    <3>1. w \in Chances(d)
      BY <1>1, <1>6, <2>4 DEF MayTry, Chances, e
    <3>2. Chances(d)' \subseteq (Chances(d) \ {w}) \union {Nobody}
      BY <2>2 DEF Chances
    <3> QED
      BY <3>1, <3>2 DEF ChancesPass
  <2> QED
    BY <2>3, <2>4
<1>7. CASE d = e /\ ~ (state[d] = "PROCESSING" /\ owner[d] = w)
  <2>1. UNCHANGED <<state, owner, due, expired>>
    BY <1>7 DEF Release, e
  <2>2. owner[d] # w
    BY <1>7, NobodyAssumption DEF OutboxTypeOK
  <2>3. ~ MayTry(w, d)' /\ \A v \in Workers \ {w} : MayTry(v, d)' => MayTry(v, d)
    BY <1>1, <1>2, <1>7, <2>1 DEF MayTry
  <2>4. ToBeClaimed(d)' => ToBeClaimed(d)
    BY <1>2, <1>3, <2>1, <2>2 DEF ToBeClaimed, Held
  <2> QED
    BY <2>3, <2>4 DEF ChancesPass, Chances
<1> QED
  BY <1>5, <1>6, <1>7

LEMMA FailurePasses ==
  ASSUME OutboxTypeOK, NEW w \in Workers, FailToMark(w) \/ FailToReschedule(w) \/ Crash(w)
  PROVE  \A d \in Deliveries : ChancesPass(d)
<1> SUFFICES ASSUME NEW d \in Deliveries  PROVE ChancesPass(d)
  OBVIOUS
<1>1. UNCHANGED <<state, due, expired, owner>> /\ faults' = faults + 1
  BY DEF FailToMark, FailToReschedule, Crash, Fault
<1>2. owner[d] # Nobody => owner[d] \in Workers
  BY DEF OutboxTypeOK
<1>3. CASE FailToMark(w)
  <2>1. UNCHANGED batch /\ \A v \in Workers \ {w} : working'[v] = working[v]
    BY <1>3 DEF FailToMark, OutboxTypeOK
  <2>2. \A v \in Workers \ {w} : MayTry(v, d)' => MayTry(v, d)
    BY <1>1, <2>1 DEF MayTry
  <2>3. ToBeClaimed(d)' => ToBeClaimed(d)
    BY <1>1, <2>1 DEF ToBeClaimed, Held
  <2>4. Chances(d)' \subseteq Chances(d) \union {w}
    BY <2>2, <2>3 DEF Chances
  <2> QED
    BY <1>1, <2>4 DEF ChancesPass
<1>4. CASE FailToReschedule(w) \/ Crash(w)
  <2>1. /\ working'[w] = Resting /\ batch'[w] \subseteq batch[w]
        /\ working[w].on \notin batch'[w]
        /\ \A v \in Workers \ {w} : working'[v] = working[v] /\ batch'[v] = batch[v]
    BY <1>4 DEF FailToReschedule, Crash, Proceed, OutboxTypeOK
  <2>2. \A v \in Workers : MayTry(v, d)' => MayTry(v, d)
    BY <1>1, <2>1 DEF MayTry
  <2>3. Chances(d)' \subseteq Chances(d) \union {Nobody}
    BY <2>2 DEF Chances
  <2> QED
    BY <1>1, <2>3 DEF ChancesPass
<1> QED
  BY <1>3, <1>4

LEMMA OutboxStepPasses ==
  ASSUME OutboxTypeOK, OutboxStep
  PROVE  \A d \in Deliveries : ChancesPass(d)
<1>1. ASSUME NEW w \in Workers, MarkDelivered(w) \/ Reschedule(w)
      PROVE  \A d \in Deliveries : ChancesPass(d)
  BY <1>1, ReleasePasses DEF MarkDelivered, Reschedule
<1> QED
  BY <1>1, TimePasses, ClaimPasses, FailurePasses DEF OutboxStep

(* A worker that takes up a delivery uses its chance, unless it is refused *)
(* the effect and may reschedule the row.                                  *)
LEMMA WorkOnPasses ==
  ASSUME OutboxTypeOK, NEW w \in Workers, NEW d \in Deliveries, NEW point \in {"MARK", "RESCHEDULE"},
         WorkOn(w, d, point)
  PROVE  /\ \A e \in Deliveries : Chances(e)' \subseteq Chances(e)
         /\ point = "MARK" => w \in Chances(d) /\ w \notin Chances(d)'
<1> DEFINE new == [on |-> d, at |-> point]
<1>1. new # Resting /\ new.on = d /\ new.at = point
  BY DEF Resting
<1>2. /\ d \in batch[w] /\ working[w] = Resting /\ working' = [working EXCEPT ![w] = new]
      /\ UNCHANGED <<state, due, expired, owner, batch>>
  BY DEF WorkOn
<1> HIDE DEF new
<1>3. working'[w] = new /\ \A v \in Workers \ {w} : working'[v] = working[v]
  BY <1>2 DEF OutboxTypeOK
<1>4. ASSUME NEW e \in Deliveries, NEW v \in Workers, MayTry(v, e)'  PROVE MayTry(v, e)
  BY <1>2, <1>3, <1>4 DEF MayTry
<1>5. \A e \in Deliveries : ToBeClaimed(e)' => ToBeClaimed(e)
  BY <1>2 DEF ToBeClaimed, Held
<1>6. \A e \in Deliveries : Chances(e)' \subseteq Chances(e)
  BY <1>4, <1>5 DEF Chances
<1>7. MayTry(w, d)
  BY <1>2 DEF MayTry
<1>8. point = "MARK" => ~ MayTry(w, d)'
  BY <1>1, <1>3 DEF MayTry
<1> QED
  BY <1>6, <1>7, <1>8, NobodyAssumption DEF Chances

(* A row comes into being.                                                 *)
LEMMA EnqueuePasses ==
  ASSUME OutboxTypeOK, NEW d \in Deliveries, state[d] = "NONE", Enqueue(d),
         UNCHANGED <<expired, owner, batch, working, faults>>
  PROVE  /\ OutboxTypeOK' /\ state'[d] = "PENDING"
         /\ \A e \in Deliveries \ {d} : state'[e] = state[e]
         /\ \A e \in Deliveries : ChancesPass(e)
<1>1. /\ state' = [state EXCEPT ![d] = "PENDING"] /\ due' = [due EXCEPT ![d] = TRUE]
  BY DEF Enqueue
<1>2. state'[d] = "PENDING" /\ \A e \in Deliveries \ {d} : state'[e] = state[e]
  BY <1>1 DEF OutboxTypeOK
<1>3. OutboxTypeOK'
  <2>1. state' \in [Deliveries -> States] /\ due' \in [Deliveries -> BOOLEAN]
    BY <1>1 DEF OutboxTypeOK, States
  <2>2. \A e \in Deliveries : state'[e] = "PROCESSING" <=> state[e] = "PROCESSING"
    BY <1>2
  <2> QED
    BY <2>1, <2>2 DEF OutboxTypeOK, Resting
<1>4. ASSUME NEW e \in Deliveries  PROVE ChancesPass(e)
  <2>1. (ToBeClaimed(e)' => ToBeClaimed(e)) /\ \A v \in Workers : MayTry(v, e)' => MayTry(v, e)
    BY <1>2 DEF ToBeClaimed, Held, MayTry
  <2> QED
    BY <2>1 DEF ChancesPass, Chances
<1> QED
  BY <1>2, <1>3, <1>4

(***************************************************************************)
(* The lease: only an expired claim is taken over, and only the worker     *)
(* that works on a row releases it.                                        *)
(***************************************************************************)
LeaseKept ==
  \A d \in Deliveries :
    state[d] = "PROCESSING" /\ (state'[d] # "PROCESSING" \/ owner'[d] # owner[d])
      => expired[d] \/ working[owner[d]].on = d

LEMMA OutboxStepKeepsLease ==
  ASSUME OutboxTypeOK, OutboxStep
  PROVE  LeaseKept
<1>1. ASSUME NEW w \in Workers, ClaimPending(w)  PROVE LeaseKept
  <2> DEFINE claimed == {d \in Deliveries : Claimable(d)}
  <2>1. /\ state' = [d \in Deliveries |-> IF d \in claimed THEN "PROCESSING" ELSE state[d]]
        /\ owner' = [d \in Deliveries |-> IF d \in claimed THEN w ELSE owner[d]]
    BY <1>1 DEF ClaimPending
  <2>2. \A d \in claimed : state[d] = "PROCESSING" => expired[d]
    BY DEF Claimable
  <2> HIDE DEF claimed
  <2> QED
    BY <2>1, <2>2 DEF LeaseKept, OutboxTypeOK
<1>2. ASSUME NEW w \in Workers, NEW s, Release(w, s, FALSE)  PROVE LeaseKept
  <2> SUFFICES ASSUME NEW d \in Deliveries, state[d] = "PROCESSING",
                      state'[d] # "PROCESSING" \/ owner'[d] # owner[d]
               PROVE  working[owner[d]].on = d
    BY DEF LeaseKept
  <2> DEFINE e == working[w].on
  <2>1. CASE d = e
    BY <1>2, <2>1 DEF Release
  <2>2. CASE d # e
    BY <1>2, <2>2 DEF Release, OutboxTypeOK
  <2> QED
    BY <2>1, <2>2
<1>3. CASE UNCHANGED <<state, owner>>
  BY <1>3 DEF LeaseKept
<1> QED
  BY <1>1, <1>2, <1>3 DEF OutboxStep, BecomeDue, ExpireLostLease, OverrunLease, MarkDelivered,
                          Reschedule, FailToMark, FailToReschedule, Crash

(***************************************************************************)
(* Payments. The refinement: the same variables, and every step of the     *)
(* composition is a step of VendorPayment or leaves its variables alone.   *)
(***************************************************************************)
LEMMA StepRefines ==
  ASSUME [CompletionNext]_completionVars
  PROVE  [VendorPaymentNext]_vendorPaymentVars
<1>1. ASSUME NEW r \in Repairs, Approve(r)  PROVE VendorPaymentNext
  BY <1>1 DEF Approve, VendorPaymentNext, WorkStep
<1>2. ASSUME NEW w \in Workers, Evaluate(w)  PROVE [VendorPaymentNext]_vendorPaymentVars
  BY <1>2 DEF Evaluate, VendorPaymentNext, PaymentStep
<1>3. ASSUME NEW w \in Workers, FailToEvaluate(w)  PROVE UNCHANGED vendorPaymentVars
  BY <1>3 DEF FailToEvaluate
<1>4. ASSUME NEW r \in Repairs, OtherWorkStep(r)  PROVE VendorPaymentNext
  BY <1>4 DEF OtherWorkStep, VendorPaymentNext, WorkStep
<1>5. ASSUME NEW r \in Repairs, OtherPaymentStep(r)  PROVE VendorPaymentNext
  BY <1>5 DEF OtherPaymentStep, VendorPaymentNext, PaymentStep
<1>6. CASE UNCHANGED completionVars
  BY <1>6 DEF completionVars
<1> QED
  BY <1>1, <1>2, <1>3, <1>4, <1>5, <1>6 DEF CompletionNext, VendorPaymentNext

(***************************************************************************)
(* The payment request.                                                    *)
(***************************************************************************)
Evaluated == Payable \union Final

(* What no step takes back: the evaluation of a request, its existence,    *)
(* and the approval of the report it refers to.                            *)
Onward(q) ==
  /\ status[q] \in Evaluated => status'[q] \in Evaluated
  /\ status[q] # "NONE" => status'[q] # "NONE"
  /\ decision[q] = "APPROVED" =>
       decision'[q] = "APPROVED" /\ report'[q] = report[q] /\ linked'[q] = linked[q]

LEMMA EvaluatedStatuses ==
  /\ "NONE" \notin Evaluated /\ "WAITING_COMPLETION" \notin Evaluated
  /\ {"PENDING_APPROVAL", "INSUFFICIENT_CREDIT", "DIRECT_PAID"} \union Paid \union Corrected
       \subseteq Evaluated
  /\ Statuses = Evaluated \union {"NONE", "WAITING_COMPLETION"}
  BY DEF Evaluated, Statuses, Payable, Final, Paid, CreditPaid, Corrected

(* A step of the payment moves a request to a status that counts as        *)
(* evaluated, or none, and leaves the work alone.                          *)
LEMMA PaymentMovesOnward ==
  ASSUME VendorPaymentTypeOK, UNCHANGED <<decision, report, linked>>, NEW r \in Repairs,
         status' = status \/ \E s \in Evaluated : status' = [status EXCEPT ![r] = s]
  PROVE  \A q \in Repairs : Onward(q)
  BY EvaluatedStatuses DEF VendorPaymentTypeOK, Onward

LEMMA SettleLockedOnward ==
  ASSUME VendorPaymentTypeOK, NEW r \in Repairs,
         NEW mode \in {"AUTO_CREDIT", "MANUAL_CREDIT", "DIRECT"}, NEW key,
         SettleLocked(r, mode, key)
  PROVE  /\ UNCHANGED <<decision, report, linked>>
         /\ \E s \in Evaluated : status' = [status EXCEPT ![r] = s]
<1>1. UNCHANGED <<decision, report, linked>>
  BY DEF SettleLocked, workVars
<1>2. CASE MarkSettled(r, mode, key)
  BY <1>1, <1>2, PaidStatusType, EvaluatedStatuses DEF MarkSettled
<1>3. CASE MarkInsufficient(r, mode, key)
  BY <1>1, <1>3, EvaluatedStatuses DEF MarkInsufficient
<1> QED
  BY <1>2, <1>3 DEF SettleLocked

LEMMA EvaluateOnward ==
  ASSUME VendorPaymentTypeOK, NEW r \in Repairs, EvaluateAfterCompletion(r)
  PROVE  /\ UNCHANGED <<decision, report, linked>>
         /\ \E s \in Evaluated : status' = [status EXCEPT ![r] = s]
<1>1. CASE WithinPolicy(Amount[r])
  BY <1>1, SettleLockedOnward DEF EvaluateAfterCompletion
<1>2. CASE ~ WithinPolicy(Amount[r])
  BY <1>2, EvaluatedStatuses DEF EvaluateAfterCompletion, workVars
<1> QED
  BY <1>1, <1>2

LEMMA OtherPaymentOnward ==
  ASSUME VendorPaymentTypeOK, NEW r \in Repairs, OtherPaymentStep(r)
  PROVE  UNCHANGED decision /\ \A q \in Repairs : Onward(q)
<1>1. ASSUME NEW k \in Keys, NEW m \in {"MANUAL_CREDIT", "DIRECT"}, SettlePaymentRequest(r, m, k)
      PROVE  UNCHANGED decision /\ \A q \in Repairs : Onward(q)
  BY <1>1, SettleLockedOnward, PaymentMovesOnward DEF SettlePaymentRequest
<1>2. ASSUME NEW k \in Keys, RequestTenantDirectPayment(r, k)
      PROVE  UNCHANGED decision /\ \A q \in Repairs : Onward(q)
  BY <1>2, PaymentMovesOnward DEF RequestTenantDirectPayment, workVars
<1>3. CASE ConfirmVendorDirectPayment(r)
  BY <1>3, EvaluatedStatuses, PaymentMovesOnward DEF ConfirmVendorDirectPayment, workVars
<1>4. CASE CorrectionStep(r)
  <2>1. \E s \in Corrected : status' = [status EXCEPT ![r] = s]
    BY <1>4 DEF CorrectionStep, ReverseCreditPayment, VoidDirectPayment, CancelPaymentRequest,
                Correct, Corrected
  <2>2. UNCHANGED <<decision, report, linked>>
    BY <1>4 DEF CorrectionStep, ReverseCreditPayment, VoidDirectPayment, CancelPaymentRequest,
                Correct, workVars
  <2> QED
    BY <2>1, <2>2, EvaluatedStatuses, PaymentMovesOnward
<1> QED
  BY <1>1, <1>2, <1>3, <1>4 DEF OtherPaymentStep

(* Work on a report moves only what is not approved yet, and a manager's   *)
(* approval is no other step than Approve.                                 *)
LEMMA OtherWorkOnward ==
  ASSUME VendorPaymentTypeOK, ApprovalCompletes, NEW r \in Repairs, OtherWorkStep(r)
  PROVE  \A q \in Repairs :
           /\ Onward(q)
           /\ Payer[q] = "MANAGER" /\ decision'[q] = "APPROVED" => decision[q] = "APPROVED"
<1> USE DEF VendorPaymentTypeOK
<1>1. CASE SubmitCompletion(r)
  <2>1. decision[r] # "APPROVED" /\ status[r] \in {"NONE", "WAITING_COMPLETION"}
    BY <1>1 DEF SubmitCompletion, ApprovalCompletes
  <2>2. /\ decision' = [decision EXCEPT ![r] = "NONE"]
        /\ status' = status \/ status' = [status EXCEPT ![r] = "WAITING_COMPLETION"]
        /\ \A q \in Repairs \ {r} : report'[q] = report[q] /\ linked'[q] = linked[q]
    BY <1>1 DEF SubmitCompletion
  <2> QED
    BY <2>1, <2>2, EvaluatedStatuses DEF Onward
<1>2. CASE DecideCompletion(r, "REJECTED")
  <2>1. /\ decision[r] = "NONE" /\ decision' = [decision EXCEPT ![r] = "REJECTED"]
        /\ UNCHANGED <<report, linked, status>>
    BY <1>2 DEF DecideCompletion, Decide
  <2> QED
    BY <2>1 DEF Onward
<1>3. ASSUME NEW d \in {"APPROVED", "REJECTED"}, DecideTenantCompletion(r, d)
      PROVE  \A q \in Repairs :
               /\ Onward(q)
               /\ Payer[q] = "MANAGER" /\ decision'[q] = "APPROVED" => decision[q] = "APPROVED"
  <2>1. /\ Payer[r] = "TENANT" /\ status[r] = "NONE" /\ decision[r] = "NONE"
        /\ decision' = [decision EXCEPT ![r] = d] /\ UNCHANGED report
        /\ \A q \in Repairs \ {r} : linked'[q] = linked[q] /\ status'[q] = status[q]
    BY <1>3 DEF DecideTenantCompletion, Decide
  <2> QED
    BY <2>1, EvaluatedStatuses DEF Onward
<1> QED
  BY <1>1, <1>2, <1>3 DEF OtherWorkStep

(***************************************************************************)
(* The invariant of the composition. Beyond what the runs check it says    *)
(* that a worker on its way to mark a delivery comes from a request that   *)
(* has been evaluated, by itself or by another.                            *)
(***************************************************************************)
MarkedWasEvaluated ==
  \A w \in Workers : working[w].at = "MARK" => status[working[w].on] \in Evaluated

CompletionInv ==
  /\ VendorPaymentInv /\ OutboxTypeOK
  /\ DeliveryStaysValid /\ DeliveredWasEvaluated /\ MarkedWasEvaluated

NoNewApproval ==
  \A q \in Repairs : Payer[q] = "MANAGER" /\ decision'[q] = "APPROVED" => decision[q] = "APPROVED"

LEMMA StepKept ==
  ASSUME CompletionInv, VendorPaymentInv', OutboxTypeOK', NoNewApproval,
         \A q \in Repairs : Onward(q) /\ Advances(q),
         \A w \in Workers : working'[w].at = "MARK" =>
            working'[w] = working[w] \/ status'[working'[w].on] \in Evaluated
  PROVE  CompletionInv'
<1> USE DeliveriesAssumption DEF CompletionInv
<1>1. ASSUME NEW q \in Repairs
      PROVE  /\ (state'[q] # "NONE") <=> (Payer[q] = "MANAGER" /\ decision'[q] = "APPROVED")
             /\ state'[q] # "NONE" => Settleable(q)' /\ status'[q] # "NONE"
  <2>1. /\ (state'[q] # "NONE") <=> (state[q] # "NONE")
        /\ (state[q] # "NONE") <=> (Payer[q] = "MANAGER" /\ decision[q] = "APPROVED")
    BY DEF Advances, DeliveryStaysValid
  <2>2. (Payer[q] = "MANAGER" /\ decision'[q] = "APPROVED") <=>
          (Payer[q] = "MANAGER" /\ decision[q] = "APPROVED")
    BY DEF Onward, NoNewApproval
  <2>3. Settleable(q) => Settleable(q)'
    BY DEF Settleable, Onward
  <2>4. state[q] # "NONE" => Settleable(q) /\ status'[q] # "NONE"
    BY DEF DeliveryStaysValid, Onward
  <2> QED
    BY <2>1, <2>2, <2>3, <2>4
<1>2. DeliveryStaysValid'
  BY <1>1 DEF DeliveryStaysValid
<1>3. MarkedWasEvaluated'
  <2>1. ASSUME NEW w \in Workers, working'[w].at = "MARK", working'[w] = working[w]
        PROVE  status'[working'[w].on] \in Evaluated
    <3>1. working[w].on \in Repairs
      BY <2>1 DEF OutboxTypeOK, Resting
    <3> QED
      BY <2>1, <3>1 DEF MarkedWasEvaluated, Onward
  <2> QED
    BY <2>1 DEF MarkedWasEvaluated, Evaluated, Payable, Final, Paid, CreditPaid, Corrected
<1>4. DeliveredWasEvaluated'
  <2>1. ASSUME NEW q \in Repairs, state'[q] = "DELIVERED"  PROVE status[q] \in Evaluated
    <3>1. CASE state[q] = "DELIVERED"
      BY <3>1 DEF DeliveredWasEvaluated, Evaluated
    <3>2. CASE state[q] # "DELIVERED"
      <4>1. PICK w \in Workers : working[w] = [on |-> q, at |-> "MARK"]
        BY <2>1, <3>2 DEF Advances
      <4>2. working[w].on = q /\ working[w].at = "MARK"
        BY <4>1
      <4> QED
        BY <4>2 DEF MarkedWasEvaluated
    <3> QED
      BY <3>1, <3>2
  <2>2. \A q \in Repairs : state'[q] = "DELIVERED" => status'[q] \in Evaluated
    BY <2>1 DEF Onward
  <2> QED
    BY <2>2 DEF DeliveredWasEvaluated, Evaluated, Payable, Final, Paid, CreditPaid, Corrected
<1> QED
  BY <1>2, <1>3, <1>4

(* Nothing moves on.                                                       *)
LEMMA PaymentStands ==
  ASSUME UNCHANGED vendorPaymentVars
  PROVE  NoNewApproval /\ \A q \in Repairs : Onward(q)
  BY DEF vendorPaymentVars, NoNewApproval, Onward
LEMMA OutboxStands ==
  ASSUME UNCHANGED outboxVars, OutboxTypeOK
  PROVE  OutboxTypeOK' /\ (\A q \in Deliveries : Advances(q)) /\ \A w \in Workers : working'[w] = working[w]
<1>1. OutboxTypeOK'
  BY DEF outboxVars, OutboxTypeOK, Resting
<1>2. \A q \in Deliveries : Advances(q)
  BY DEF outboxVars, Advances
<1> QED
  BY <1>1, <1>2 DEF outboxVars

(* A worker takes up a delivery of its batch.                              *)
LEMMA WorkOnEffect ==
  ASSUME OutboxTypeOK, NEW w \in Workers, NEW d \in Deliveries, NEW point \in {"MARK", "RESCHEDULE"},
         WorkOn(w, d, point), faults' \in 0..MaxFaults
  PROVE  /\ OutboxTypeOK' /\ \A q \in Deliveries : Advances(q)
         /\ working'[w].on = d /\ working'[w].at = point
         /\ \A v \in Workers \ {w} : working'[v] = working[v]
<1> USE DEF OutboxTypeOK
<1> DEFINE new == [on |-> d, at |-> point]
<1>1. new \in RestingAt /\ new.on = d /\ new.at = point
  BY DEF RestingAt
<1>2. /\ d \in batch[w] /\ working' = [working EXCEPT ![w] = new]
      /\ UNCHANGED <<state, due, expired, owner, batch>>
  BY DEF WorkOn
<1> HIDE DEF new
<1>3. /\ working' \in [Workers -> RestingAt] /\ working'[w] = new
      /\ \A v \in Workers \ {w} : working'[v] = working[v]
  BY <1>1, <1>2 DEF RestingAt
<1>4. OutboxTypeOK'
  BY <1>1, <1>2, <1>3 DEF RestingAt, Resting
<1>5. \A q \in Deliveries : Advances(q)
  BY <1>2 DEF Advances
<1> QED
  BY <1>1, <1>3, <1>4, <1>5

(* The approval: decision and delivery row come into being together.       *)
LEMMA ApproveKept ==
  ASSUME CompletionInv, VendorPaymentInv', NEW r \in Repairs, Approve(r)
  PROVE  CompletionInv'
<1> USE DeliveriesAssumption DEF CompletionInv
<1>1. /\ Payer[r] = "MANAGER" /\ status[r] = "WAITING_COMPLETION" /\ linked[r] = report[r]
      /\ report[r] > 0 /\ decision[r] = "NONE" /\ decision' = [decision EXCEPT ![r] = "APPROVED"]
      /\ UNCHANGED <<report, linked, status>>
  BY DEF Approve, DecideCompletion, Decide
<1>2. decision'[r] = "APPROVED" /\ \A q \in Repairs \ {r} : decision'[q] = decision[q]
  BY <1>1 DEF VendorPaymentInv, VendorPaymentTypeOK
<1>3. state[r] = "NONE" /\ Enqueue(r) /\ UNCHANGED <<expired, owner, batch, working, faults>>
  BY <1>1 DEF Approve, DeliveryStaysValid
<1>4. OutboxTypeOK' /\ state'[r] = "PENDING" /\ \A q \in Repairs \ {r} : state'[q] = state[q]
  BY <1>3, EnqueuePasses
<1>5. DeliveryStaysValid'
  <2>1. Settleable(r)' /\ status'[r] # "NONE"
    BY <1>1, <1>2 DEF Settleable
  <2>2. \A q \in Repairs \ {r} : Settleable(q) => Settleable(q)'
    BY <1>1, <1>2 DEF Settleable
  <2>3. ASSUME NEW q \in Repairs \ {r}
        PROVE  /\ (state'[q] # "NONE") <=> (Payer[q] = "MANAGER" /\ decision'[q] = "APPROVED")
               /\ state'[q] # "NONE" => Settleable(q)' /\ status'[q] # "NONE"
    BY <1>1, <1>2, <1>4, <2>2 DEF DeliveryStaysValid
  <2> QED
    BY <1>1, <1>2, <1>4, <2>1, <2>3 DEF DeliveryStaysValid
<1>6. DeliveredWasEvaluated'
  BY <1>1, <1>4 DEF DeliveredWasEvaluated
<1>7. MarkedWasEvaluated'
  BY <1>1, <1>3 DEF MarkedWasEvaluated, Evaluated, Payable, Final, Paid, CreditPaid, Corrected
<1> QED
  BY <1>4, <1>5, <1>6, <1>7

(* A worker evaluates: whatever it finds, it goes on to mark the delivery  *)
(* only if the request is evaluated afterwards.                            *)
LEMMA EvaluateKept ==
  ASSUME CompletionInv, VendorPaymentInv', NEW w \in Workers, Evaluate(w)
  PROVE  CompletionInv'
<1> USE DeliveriesAssumption DEF CompletionInv
<1>1. PICK r \in Repairs :
        /\ TakeEffect(w, r, Settleable(r) /\ status[r] # "NONE")
        /\ IF Settleable(r) /\ status[r] = "WAITING_COMPLETION"
             THEN EvaluateAfterCompletion(r)
             ELSE UNCHANGED vendorPaymentVars
  BY DEF Evaluate
<1> DEFINE point == IF Settleable(r) /\ status[r] # "NONE" THEN "MARK" ELSE "RESCHEDULE"
<1>2. WorkOn(w, r, point) /\ faults' \in 0..MaxFaults
  BY <1>1 DEF TakeEffect, OutboxTypeOK
<1>3. /\ OutboxTypeOK' /\ \A q \in Deliveries : Advances(q)
      /\ working'[w].on = r /\ working'[w].at = point
      /\ \A v \in Workers \ {w} : working'[v] = working[v]
  BY <1>2, WorkOnEffect
<1>4. NoNewApproval /\ \A q \in Repairs : Onward(q)
  <2>1. CASE EvaluateAfterCompletion(r)
    BY <2>1, EvaluateOnward, PaymentMovesOnward DEF VendorPaymentInv, NoNewApproval
  <2>2. CASE UNCHANGED vendorPaymentVars
    BY <2>2, PaymentStands
  <2> QED
    BY <1>1, <2>1, <2>2
<1>5. point = "MARK" => status'[r] \in Evaluated
  <2>1. CASE status[r] = "WAITING_COMPLETION" /\ Settleable(r)
    <3>1. \E s \in Evaluated : status' = [status EXCEPT ![r] = s]
      BY <1>1, <2>1, EvaluateOnward DEF VendorPaymentInv
    <3> QED
      BY <3>1 DEF VendorPaymentInv, VendorPaymentTypeOK
  <2>2. CASE status[r] # "WAITING_COMPLETION" /\ status[r] # "NONE"
    BY <1>4, <2>2, EvaluatedStatuses DEF VendorPaymentInv, VendorPaymentTypeOK, Onward
  <2> QED
    BY <2>1, <2>2
<1> QED
  BY <1>3, <1>4, <1>5, StepKept

LEMMA CompletionNextKept ==
  ASSUME CompletionInv, [CompletionNext]_completionVars
  PROVE  CompletionInv'
<1> USE DeliveriesAssumption
<1>0. VendorPaymentInv' /\ VendorPaymentInv /\ OutboxTypeOK
  BY StepRefines, NextInv DEF CompletionInv
<1>1. ASSUME NEW r \in Repairs, Approve(r)  PROVE CompletionInv'
  BY <1>0, <1>1, ApproveKept
<1>2. ASSUME NEW w \in Workers, Evaluate(w)  PROVE CompletionInv'
  BY <1>0, <1>2, EvaluateKept
<1>3. ASSUME NEW w \in Workers, FailToEvaluate(w)  PROVE CompletionInv'
  <2>1. PICK r \in Repairs : FailToTakeEffect(w, r) /\ UNCHANGED vendorPaymentVars
    BY <1>3 DEF FailToEvaluate
  <2>2. WorkOn(w, r, "RESCHEDULE") /\ faults' \in 0..MaxFaults
    BY <1>0, <2>1, MaxFaultsAssumption DEF FailToTakeEffect, Fault, OutboxTypeOK
  <2>3. /\ OutboxTypeOK' /\ \A q \in Deliveries : Advances(q)
        /\ working'[w].at = "RESCHEDULE" /\ \A v \in Workers \ {w} : working'[v] = working[v]
    BY <1>0, <2>2, WorkOnEffect
  <2> QED
    BY <1>0, <2>1, <2>3, PaymentStands, StepKept
<1>4. ASSUME NEW r \in Repairs, OtherWorkStep(r), UNCHANGED outboxVars  PROVE CompletionInv'
  <2>1. NoNewApproval /\ \A q \in Repairs : Onward(q)
    BY <1>0, <1>4, OtherWorkOnward DEF NoNewApproval, VendorPaymentInv, WorkInv
  <2> QED
    BY <1>0, <1>4, <2>1, OutboxStands, StepKept
<1>5. ASSUME NEW r \in Repairs, OtherPaymentStep(r), UNCHANGED outboxVars  PROVE CompletionInv'
  <2>1. NoNewApproval /\ \A q \in Repairs : Onward(q)
    BY <1>0, <1>5, OtherPaymentOnward DEF NoNewApproval, VendorPaymentInv
  <2> QED
    BY <1>0, <1>5, <2>1, OutboxStands, StepKept
<1>6. ASSUME NEW limit, SaveAutoPayPolicy(limit), UNCHANGED outboxVars  PROVE CompletionInv'
  <2>1. NoNewApproval /\ \A q \in Repairs : Onward(q)
    BY <1>6 DEF SaveAutoPayPolicy, workVars, requestVars, NoNewApproval, Onward
  <2> QED
    BY <1>0, <1>6, <2>1, OutboxStands, StepKept
<1>7. CASE OutboxStep /\ UNCHANGED vendorPaymentVars
  <2>1. OutboxTypeOK' /\ NoNewMarks /\ \A d \in Deliveries : Advances(d)
    BY <1>0, <1>7, OutboxStepAdvances
  <2> QED
    BY <1>0, <1>7, <2>1, PaymentStands, StepKept DEF NoNewMarks
<1>8. CASE UNCHANGED completionVars
  <2>1. UNCHANGED vendorPaymentVars /\ UNCHANGED outboxVars
    BY <1>8 DEF completionVars
  <2> QED
    BY <1>0, <2>1, PaymentStands, OutboxStands, StepKept
<1> QED
  BY <1>1, <1>2, <1>3, <1>4, <1>5, <1>6, <1>7, <1>8 DEF CompletionNext

LEMMA CompletionInitInv ==
  ASSUME CompletionInit
  PROVE  CompletionInv
<1> USE DeliveriesAssumption, MaxFaultsAssumption DEF CompletionInit, OutboxInit
<1>1. VendorPaymentInv
  BY InitInv
<1>2. OutboxTypeOK
  BY DEF OutboxTypeOK, States, Resting
<1>3. DeliveryStaysValid /\ DeliveredWasEvaluated /\ MarkedWasEvaluated
  BY DEF DeliveryStaysValid, DeliveredWasEvaluated, MarkedWasEvaluated, VendorPaymentInit, Resting
<1> QED
  BY <1>1, <1>2, <1>3 DEF CompletionInv

(***************************************************************************)
(* Theorems about payments.                                                *)
(***************************************************************************)
(* Driven by deliveries that come late, twice or from several workers at   *)
(* once, the payment request behaves as VendorPayment says.                *)
THEOREM CompletionImplements == CompletionSpec => ImplementsVendorPayment
<1>1. CompletionInit => VendorPaymentInit
  BY DEF CompletionInit
<1>2. [CompletionNext]_completionVars => [VendorPaymentNext]_vendorPaymentVars
  BY StepRefines
<1> QED
  BY <1>1, <1>2, PTL DEF CompletionSpec, ImplementsVendorPayment, VendorPaymentSpec

(* The invariant of the composition holds.                                 *)
THEOREM CompletionInvHolds == CompletionSpec => []CompletionInv
<1>1. CompletionInit => CompletionInv
  BY CompletionInitInv
<1>2. CompletionInv /\ [CompletionNext]_completionVars => CompletionInv'
  BY CompletionNextKept
<1> QED
  BY <1>1, <1>2, PTL DEF CompletionSpec

(* The rows of the outbox keep the values of their columns, and a lock     *)
(* token is set exactly while a row is in processing.                      *)
THEOREM OutboxTyped == CompletionSpec => []OutboxTypeOK
<1>1. CompletionInv => OutboxTypeOK
  BY DEF CompletionInv
<1> QED
  BY <1>1, CompletionInvHolds, PTL

(* There is a delivery for every approval of a manager and for nothing     *)
(* else, and the request it names stays fit to be evaluated.               *)
THEOREM DeliveryStaysValidHolds == CompletionSpec => []DeliveryStaysValid
<1>1. CompletionInv => DeliveryStaysValid
  BY DEF CompletionInv
<1> QED
  BY <1>1, CompletionInvHolds, PTL

(* No delivery is marked delivered before its request has been evaluated.  *)
THEOREM DeliveredWasEvaluatedHolds == CompletionSpec => []DeliveredWasEvaluated
<1>1. CompletionInv => DeliveredWasEvaluated
  BY DEF CompletionInv
<1> QED
  BY <1>1, CompletionInvHolds, PTL

(* A delivery that one worker evaluates is neither marked nor rescheduled  *)
(* by another while its lease runs.                                        *)
THEOREM CompletionLeaseHolds == CompletionSpec => LeaseRespected
<1>1. CompletionInv /\ [CompletionNext]_completionVars => [LeaseKept]_outboxVars
  <2> SUFFICES ASSUME CompletionInv, [CompletionNext]_completionVars
               PROVE  LeaseKept \/ UNCHANGED outboxVars
    OBVIOUS
  <2>1. ASSUME NEW r \in Repairs, Approve(r)  PROVE LeaseKept
    <3>1. state[r] = "NONE" \/ UNCHANGED state
      BY <2>1 DEF Approve, Enqueue
    <3>2. \A d \in Deliveries : state[d] = "PROCESSING" => state'[d] = state[d]
      BY <2>1, <3>1 DEF Approve, Enqueue, CompletionInv, OutboxTypeOK
    <3> QED
      BY <2>1, <3>2 DEF Approve, LeaseKept
  <2>2. ASSUME NEW w \in Workers, Evaluate(w)  PROVE LeaseKept
    BY <2>2 DEF Evaluate, TakeEffect, WorkOn, LeaseKept
  <2>3. ASSUME NEW w \in Workers, FailToEvaluate(w)  PROVE LeaseKept
    BY <2>3 DEF FailToEvaluate, FailToTakeEffect, WorkOn, LeaseKept
  <2>4. CASE OutboxStep
    BY <2>4, OutboxStepKeepsLease DEF CompletionInv
  <2> QED
    BY <2>1, <2>2, <2>3, <2>4 DEF CompletionNext, completionVars
<1> QED
  BY <1>1, CompletionInvHolds, PTL DEF CompletionSpec, LeaseRespected, LeaseKept

(* What is proved of payments alone holds of them here: nothing is payable *)
(* or paid for work whose latest report is not the approved one.           *)
THEOREM ApprovedWorkOnlyHere == CompletionSpec => []OnlyApprovedWorkIsPaid
  BY CompletionImplements, ApprovedWorkOnly, PTL DEF ImplementsVendorPayment

(* Nor do late, repeated or overlapping deliveries bring status, ledger,   *)
(* books, announcements and balance apart.                                 *)
THEOREM RequestStaysTrueHere ==
  CompletionSpec =>
    [](/\ StatusMatchesLedger /\ BooksMatchPayment
       /\ PaymentAnnouncedOnce /\ BalanceMatchesPayments)
  BY CompletionImplements, StatusIsTrue, BooksAreTrue, PaymentsAreAnnouncedOnce, BalanceIsTrue, PTL
     DEF ImplementsVendorPayment

(* However often a delivery is evaluated, the money for a repair leaves    *)
(* once, and the account keeps the promise of its ledger.                  *)
THEOREM MoneyLeavesOnceHere == CompletionSpec => PaidAtMostOnce /\ LedgerPromise
  BY CompletionImplements, ObligationIsKept, LedgerIsKept, PTL DEF ImplementsVendorPayment

(***************************************************************************)
(* Notifications. Every emission has used a chance of its delivery, and    *)
(* there was one to begin with: the emissions that have been, and those    *)
(* that may still come without a fault, are at most one more than the      *)
(* faults. A worker about to record an emission has made it. (Nothing here *)
(* uses DeliveriesAssumption, by which payments' deliveries are repairs.)  *)
(***************************************************************************)
Accounted(d) ==
  /\ IsFiniteSet(Chances(d)) /\ emitted[d] \in Nat
  /\ emitted[d] + Cardinality(Chances(d)) <= 1 + faults

RecordIsTrue(d) ==
  /\ state[d] = "DELIVERED" => emitted[d] >= 1
  /\ \A w \in Workers : working[w] = [on |-> d, at |-> "MARK"] => emitted[d] >= 1

DispatchInv ==
  /\ OutboxTypeOK /\ emitted \in [Deliveries -> Nat]
  /\ \A d \in Deliveries : Accounted(d) /\ RecordIsTrue(d)

LEMMA Counting ==
  ASSUME NEW S, IsFiniteSet(S), NEW T, NEW b
  PROVE  /\ T \subseteq S => IsFiniteSet(T) /\ Cardinality(T) <= Cardinality(S)
         /\ T \subseteq S \union {b} => IsFiniteSet(T) /\ Cardinality(T) <= Cardinality(S) + 1
         /\ \A a \in S : T \subseteq (S \ {a}) \union {b} =>
              IsFiniteSet(T) /\ Cardinality(T) <= Cardinality(S)
         /\ \A a \in S : T \subseteq S \ {a} =>
              IsFiniteSet(T) /\ Cardinality(T) <= Cardinality(S) - 1
<1>1. Cardinality(S) \in Nat
  BY FS_CardinalityType
<1>2. T \subseteq S => IsFiniteSet(T) /\ Cardinality(T) <= Cardinality(S)
  BY FS_Subset
<1>3. ASSUME NEW R, IsFiniteSet(R), T \subseteq R \union {b}
      PROVE  IsFiniteSet(T) /\ Cardinality(T) <= Cardinality(R) + 1
  <2>1. /\ IsFiniteSet(R \union {b})
        /\ Cardinality(R \union {b}) = IF b \in R THEN Cardinality(R) ELSE Cardinality(R) + 1
    BY <1>3, FS_AddElement
  <2>2. IsFiniteSet(T) /\ Cardinality(T) <= Cardinality(R \union {b})
    BY <1>3, <2>1, FS_Subset
  <2>3. Cardinality(R) \in Nat /\ Cardinality(T) \in Nat /\ Cardinality(R \union {b}) \in Nat
    BY <1>3, <2>1, <2>2, FS_CardinalityType
  <2> QED
    BY <2>1, <2>2, <2>3
<1>4. ASSUME NEW a \in S
      PROVE  IsFiniteSet(S \ {a}) /\ Cardinality(S \ {a}) = Cardinality(S) - 1
  BY <1>4, FS_RemoveElement
<1>5. ASSUME NEW a \in S, T \subseteq (S \ {a}) \union {b}
      PROVE  IsFiniteSet(T) /\ Cardinality(T) <= Cardinality(S)
  <2>1. IsFiniteSet(T) /\ Cardinality(T) <= Cardinality(S \ {a}) + 1
    BY <1>3, <1>4, <1>5
  <2> QED
    BY <1>1, <1>4, <2>1
<1>6. ASSUME NEW a \in S, T \subseteq S \ {a}
      PROVE  IsFiniteSet(T) /\ Cardinality(T) <= Cardinality(S) - 1
  <2>1. IsFiniteSet(T) /\ Cardinality(T) <= Cardinality(S \ {a})
    BY <1>4, <1>6, FS_Subset
  <2> QED
    BY <1>4, <2>1
<1> QED
  BY <1>2, <1>3, <1>5, <1>6

(* A step that emits nothing keeps the account.                            *)
LEMMA PassingKeepsAccount ==
  ASSUME NEW d \in Deliveries, Accounted(d), faults \in Nat, ChancesPass(d),
         emitted'[d] = emitted[d]
  PROVE  Accounted(d)'
<1> DEFINE S == Chances(d)
           n == emitted[d]
<1>1. PICK T : T = Chances(d)'
  OBVIOUS
<1>2. /\ IsFiniteSet(S) /\ n \in Nat /\ n + Cardinality(S) <= 1 + faults
      /\ Cardinality(S) \in Nat
  BY FS_CardinalityType DEF Accounted
<1>3. IsFiniteSet(T) => Cardinality(T) \in Nat
  BY FS_CardinalityType
<1>4. \/ faults' = faults /\ T \subseteq S
      \/ faults' = faults /\ \E a \in S, b \in Workers \union {Nobody} :
                               T \subseteq (S \ {a}) \union {b}
      \/ faults' = faults + 1 /\ \E b \in Workers \union {Nobody} : T \subseteq S \union {b}
  BY <1>1 DEF ChancesPass
<1> HIDE DEF S, n
<1>5. IsFiniteSet(T) /\ n + Cardinality(T) <= 1 + faults'
  <2>1. CASE faults' = faults /\ T \subseteq S
    BY <1>2, <1>3, <2>1, Counting
  <2>2. CASE faults' = faults /\ \E a \in S, b \in Workers \union {Nobody} :
                                   T \subseteq (S \ {a}) \union {b}
    <3>1. IsFiniteSet(T) /\ Cardinality(T) <= Cardinality(S)
      BY <1>2, <2>2, Counting
    <3> QED
      BY <1>2, <1>3, <2>2, <3>1
  <2>3. CASE faults' = faults + 1 /\ \E b \in Workers \union {Nobody} : T \subseteq S \union {b}
    <3>1. IsFiniteSet(T) /\ Cardinality(T) <= Cardinality(S) + 1
      BY <1>2, <2>3, Counting
    <3> QED
      BY <1>2, <1>3, <2>3, <3>1
  <2> QED
    BY <1>4, <2>1, <2>2, <2>3
<1> QED
  BY <1>1, <1>2, <1>5 DEF Accounted, n

(* The emission spends a chance.                                           *)
LEMMA EmittingKeepsAccount ==
  ASSUME NEW d \in Deliveries, Accounted(d), UNCHANGED faults, faults \in Nat,
         NEW w \in Chances(d), Chances(d)' \subseteq Chances(d), w \notin Chances(d)',
         emitted'[d] = emitted[d] + 1
  PROVE  Accounted(d)'
<1> DEFINE S == Chances(d)
           n == emitted[d]
<1>1. PICK T : T = Chances(d)'
  OBVIOUS
<1>2. /\ IsFiniteSet(S) /\ n \in Nat /\ n + Cardinality(S) <= 1 + faults
      /\ Cardinality(S) \in Nat /\ w \in S /\ T \subseteq S \ {w}
  BY <1>1, FS_CardinalityType DEF Accounted
<1> HIDE DEF S, n
<1>3. IsFiniteSet(T) /\ Cardinality(T) <= Cardinality(S) - 1
  BY <1>2, Counting
<1>4. Cardinality(T) \in Nat
  BY <1>3, FS_CardinalityType
<1>5. IsFiniteSet(T) /\ (n + 1) + Cardinality(T) <= 1 + faults /\ n + 1 \in Nat
  BY <1>2, <1>3, <1>4
<1>6. emitted'[d] = n + 1
  BY DEF n
<1> QED
  BY <1>1, <1>5, <1>6 DEF Accounted

LEMMA SilentKeepsRecord ==
  ASSUME NEW d \in Deliveries, RecordIsTrue(d), Advances(d),
         \A w \in Workers : working'[w].at = "MARK" => working'[w] = working[w],
         emitted'[d] = emitted[d]
  PROVE  RecordIsTrue(d)'
<1>1. state'[d] = "DELIVERED" => emitted[d] >= 1
  BY DEF RecordIsTrue, Advances
<1>2. ASSUME NEW w \in Workers, working'[w] = [on |-> d, at |-> "MARK"]  PROVE emitted[d] >= 1
  BY <1>2 DEF RecordIsTrue
<1> QED
  BY <1>1, <1>2 DEF RecordIsTrue

LEMMA NotifyKept ==
  ASSUME DispatchInv, NEW w \in Workers, Notify(w)
  PROVE  DispatchInv'
<1>1. PICK d \in Deliveries :
        /\ TakeEffect(w, d, Reachable(w, d))
        /\ emitted' = IF Reachable(w, d) THEN [emitted EXCEPT ![d] = @ + 1] ELSE emitted
  BY DEF Notify
<1> DEFINE point == IF Reachable(w, d) THEN "MARK" ELSE "RESCHEDULE"
<1>2. OutboxTypeOK /\ WorkOn(w, d, point) /\ UNCHANGED faults /\ faults \in 0..MaxFaults
  BY <1>1 DEF TakeEffect, DispatchInv, OutboxTypeOK
<1>3. faults \in Nat /\ faults' \in 0..MaxFaults
  BY <1>2, MaxFaultsAssumption
<1>4. /\ OutboxTypeOK' /\ \A e \in Deliveries : Advances(e)
      /\ working'[w].on = d /\ working'[w].at = point
      /\ \A v \in Workers \ {w} : working'[v] = working[v]
  BY <1>2, <1>3, WorkOnEffect
<1>5. /\ \A e \in Deliveries : Chances(e)' \subseteq Chances(e)
      /\ point = "MARK" => w \in Chances(d) /\ w \notin Chances(d)'
  BY <1>2, WorkOnPasses
<1>6. \A e \in Deliveries : ChancesPass(e)
  BY <1>2, <1>5 DEF ChancesPass
<1>7. \A e \in Deliveries : Accounted(e) /\ RecordIsTrue(e) /\ emitted[e] \in Nat
  BY DEF DispatchInv
<1>8. CASE Reachable(w, d)
  <2>1. /\ emitted' \in [Deliveries -> Nat] /\ emitted'[d] = emitted[d] + 1
        /\ \A e \in Deliveries \ {d} : emitted'[e] = emitted[e]
    BY <1>1, <1>8 DEF DispatchInv
  <2>2. ASSUME NEW e \in Deliveries  PROVE Accounted(e)'
    <3>1. CASE e = d
      BY <1>2, <1>3, <1>5, <1>7, <1>8, <2>1, <3>1, EmittingKeepsAccount
    <3>2. CASE e # d
      BY <1>3, <1>6, <1>7, <2>1, <3>2, PassingKeepsAccount
    <3> QED
      BY <3>1, <3>2
  <2>3. ASSUME NEW e \in Deliveries \ {d}  PROVE RecordIsTrue(e)'
    <3>1. state'[e] = "DELIVERED" => emitted[e] >= 1
      BY <1>4, <1>7 DEF RecordIsTrue, Advances
    <3>2. ASSUME NEW v \in Workers, working'[v] = [on |-> e, at |-> "MARK"]
          PROVE  emitted[e] >= 1
      <4>1. v # w
        BY <1>4, <3>2
      <4> QED
        BY <1>4, <1>7, <3>2, <4>1 DEF RecordIsTrue
    <3> QED
      BY <2>1, <3>1, <3>2 DEF RecordIsTrue
  <2>4. RecordIsTrue(d)'
    BY <1>7, <2>1 DEF RecordIsTrue
  <2> QED
    BY <1>4, <2>1, <2>2, <2>3, <2>4 DEF DispatchInv
<1>9. CASE ~ Reachable(w, d)
  <2>1. UNCHANGED emitted /\ working'[w].at = "RESCHEDULE"
    BY <1>1, <1>4, <1>9
  <2>2. \A e \in Deliveries : Accounted(e)'
    BY <1>3, <1>6, <1>7, <2>1, PassingKeepsAccount
  <2>3. \A v \in Workers : working'[v].at = "MARK" => working'[v] = working[v]
    BY <1>4, <2>1
  <2>4. \A e \in Deliveries : RecordIsTrue(e)'
    BY <1>4, <1>7, <2>1, <2>3, SilentKeepsRecord
  <2> QED
    BY <1>4, <2>1, <2>2, <2>4 DEF DispatchInv
<1> QED
  BY <1>8, <1>9

(* Every other step emits nothing.                                         *)
LEMMA SilentKept ==
  ASSUME DispatchInv, UNCHANGED emitted, OutboxTypeOK', NoNewMarks,
         \A d \in Deliveries : Advances(d) /\ ChancesPass(d)
  PROVE  DispatchInv'
<1>1. faults \in Nat
  BY MaxFaultsAssumption DEF DispatchInv, OutboxTypeOK
<1>2. ASSUME NEW d \in Deliveries  PROVE Accounted(d)' /\ RecordIsTrue(d)'
  <2>1. Accounted(d)'
    BY <1>1, PassingKeepsAccount DEF DispatchInv
  <2>2. RecordIsTrue(d)'
    BY SilentKeepsRecord DEF DispatchInv, NoNewMarks
  <2> QED
    BY <2>1, <2>2
<1> QED
  BY <1>2 DEF DispatchInv

LEMMA EnqueueNotificationKept ==
  ASSUME DispatchInv, NEW d \in Deliveries, EnqueueNotification(d)
  PROVE  DispatchInv'
<1>1. OutboxTypeOK /\ state[d] = "NONE" /\ Enqueue(d) /\ UNCHANGED <<expired, owner, batch, working, faults>>
  BY DEF EnqueueNotification, DispatchInv
<1>2. /\ OutboxTypeOK' /\ state'[d] = "PENDING"
      /\ \A e \in Deliveries \ {d} : state'[e] = state[e]
      /\ \A e \in Deliveries : ChancesPass(e)
  BY <1>1, EnqueuePasses
<1>3. ASSUME NEW e \in Deliveries  PROVE Accounted(e)' /\ RecordIsTrue(e)'
  <2>1. faults \in Nat /\ emitted' = emitted
    BY MaxFaultsAssumption DEF EnqueueNotification, DispatchInv, OutboxTypeOK
  <2>2. Accounted(e)'
    BY <1>2, <2>1, PassingKeepsAccount DEF DispatchInv
  <2>3. RecordIsTrue(e)'
    BY <1>1, <1>2, <2>1 DEF RecordIsTrue, DispatchInv
  <2> QED
    BY <2>2, <2>3
<1> QED
  BY <1>2, <1>3 DEF DispatchInv, EnqueueNotification

LEMMA DispatchNextKept ==
  ASSUME DispatchInv, [DispatchNext]_dispatchVars
  PROVE  DispatchInv'
<1>1. ASSUME NEW d \in Deliveries, EnqueueNotification(d)  PROVE DispatchInv'
  BY <1>1, EnqueueNotificationKept
<1>2. ASSUME NEW w \in Workers, Notify(w)  PROVE DispatchInv'
  BY <1>2, NotifyKept
<1>3. CASE UNCHANGED <<outboxVars, emitted>>
  <2>1. /\ OutboxTypeOK' /\ \A q \in Deliveries : Advances(q)
        /\ \A w \in Workers : working'[w] = working[w]
    BY <1>3, OutboxStands DEF DispatchInv
  <2>2. \A d \in Deliveries : ChancesPass(d)
    BY <1>3 DEF outboxVars, ChancesPass, Chances, MayTry, ToBeClaimed, Held
  <2> QED
    BY <1>3, <2>1, <2>2, SilentKept DEF NoNewMarks
<1>4. CASE OutboxStep /\ UNCHANGED <<online, emitted>>
  BY <1>4, OutboxStepAdvances, OutboxStepPasses, SilentKept DEF DispatchInv
<1> QED
  BY <1>1, <1>2, <1>3, <1>4 DEF DispatchNext, SwitchConnection, dispatchVars

LEMMA DispatchInitInv ==
  ASSUME DispatchInit
  PROVE  DispatchInv
<1> USE DEF DispatchInit, OutboxInit
<1>1. OutboxTypeOK
  BY MaxFaultsAssumption DEF OutboxTypeOK, States, Resting
<1>2. emitted \in [Deliveries -> Nat]
  OBVIOUS
<1>3. ASSUME NEW d \in Deliveries  PROVE Accounted(d) /\ RecordIsTrue(d)
  <2>1. Chances(d) = {Nobody}
    BY DEF Chances, MayTry, ToBeClaimed
  <2>2. IsFiniteSet(Chances(d)) /\ Cardinality(Chances(d)) = 1
    BY <2>1, FS_Singleton
  <2>3. Accounted(d)
    BY <2>2 DEF Accounted
  <2>4. RecordIsTrue(d)
    BY DEF RecordIsTrue, Resting
  <2> QED
    BY <2>3, <2>4
<1> QED
  BY <1>1, <1>2, <1>3 DEF DispatchInv

(* The account of the emissions is kept.                                   *)
THEOREM DispatchInvHolds == DispatchSpec => []DispatchInv
<1>1. DispatchInit => DispatchInv
  BY DispatchInitInv
<1>2. DispatchInv /\ [DispatchNext]_dispatchVars => DispatchInv'
  BY DispatchNextKept
<1> QED
  BY <1>1, <1>2, PTL DEF DispatchSpec

(* Nothing is recorded as delivered that was not sent, and a user sees an  *)
(* event twice only after a fault.                                         *)
THEOREM EmittedOncePerFaultHolds == DispatchSpec => []EmittedOncePerFault
<1>1. DispatchInv => EmittedOncePerFault
  <2> SUFFICES ASSUME DispatchInv, NEW d \in Deliveries
               PROVE  /\ state[d] = "DELIVERED" => emitted[d] >= 1
                      /\ emitted[d] <= 1 + faults
    BY DEF EmittedOncePerFault
  <2>1. /\ Accounted(d) /\ RecordIsTrue(d) /\ faults \in Nat
    BY MaxFaultsAssumption DEF DispatchInv, OutboxTypeOK
  <2>2. Cardinality(Chances(d)) \in Nat
    BY <2>1, FS_CardinalityType DEF Accounted
  <2> QED
    BY <2>1, <2>2 DEF Accounted, RecordIsTrue
<1> QED
  BY <1>1, DispatchInvHolds, PTL

(* While a lease runs, only the worker that holds it moves the event.      *)
THEOREM NotificationLeaseHolds == DispatchSpec => LeaseRespected
<1>1. DispatchInv /\ [DispatchNext]_dispatchVars => [LeaseKept]_outboxVars
  <2> SUFFICES ASSUME DispatchInv, [DispatchNext]_dispatchVars  PROVE LeaseKept \/ UNCHANGED outboxVars
    OBVIOUS
  <2>1. ASSUME NEW d \in Deliveries, EnqueueNotification(d)  PROVE LeaseKept
    BY <2>1 DEF EnqueueNotification, Enqueue, LeaseKept, DispatchInv, OutboxTypeOK
  <2>2. ASSUME NEW w \in Workers, Notify(w)  PROVE LeaseKept
    BY <2>2 DEF Notify, TakeEffect, WorkOn, LeaseKept
  <2>3. CASE OutboxStep
    BY <2>3, OutboxStepKeepsLease DEF DispatchInv
  <2> QED
    BY <2>1, <2>2, <2>3 DEF DispatchNext, SwitchConnection, dispatchVars
<1> QED
  BY <1>1, DispatchInvHolds, PTL DEF DispatchSpec, LeaseRespected, LeaseKept
=============================================================================
