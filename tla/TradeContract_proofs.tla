------------------------ MODULE TradeContract_proofs ------------------------
(***************************************************************************)
(* Proofs about TradeContract, for any listings, tenants, contracts and    *)
(* any number of failed writes and restarts.                               *)
(*                                                                         *)
(* That only an accepted contract is joined rests on the memory never      *)
(* being behind the database: a contract the database has, or will get     *)
(* from the queue, was joined in memory before, so that a restart joins    *)
(* nothing by itself. That a contracted listing is not offered rests on    *)
(* the order of the acceptances: what a landlord terminates is the latest  *)
(* contract of a listing, so that no other accepted one loses its listing. *)
(*                                                                         *)
(* That what was told is saved rests on the queues. The last generation of *)
(* a queue is what the memory holds, and a queue is written in order; so a *)
(* handler that waits for a generation knows something of every snapshot   *)
(* from that one on, and when the wait ends well, of all that a restart    *)
(* may find. That a terminated contract leaves no room behind is shown of  *)
(* the memory of one process, as it is not so of the database.             *)
(***************************************************************************)
EXTENDS TradeContract, SequenceTheorems, FiniteSetTheorems, TLAPS

(* What the two halves of the invariant are about.                         *)
contractPart == <<status, acceptedAt, listing, listingFile, listingDb, listingQueue, booting, up>>
roomPart == <<joined, home, joinedDb, homeDb, roomQueue>>

ContractTypeOK ==
  /\ status \in [Contracts -> {"NONE", "proposed", "accepted", "declined", "cancelled", "terminated"}]
  /\ acceptedAt \in [Contracts -> Nat]
  /\ listing \in ListingStores /\ listingFile \in ListingStores /\ listingDb \in ListingStores
  /\ listingQueue \in Seq(ListingStores)
  /\ booting \subseteq Contracts
  /\ up \in BOOLEAN

RoomTypeOK ==
  /\ [joined |-> joined, home |-> home] \in RoomStores
  /\ [joined |-> joinedDb, home |-> homeDb] \in RoomStores
  /\ roomQueue \in Seq(RoomStores)

(* What the database has or will get is in memory.                         *)
InMemory ==
  \A c \in Contracts :
    /\ joinedDb[c] # "NONE" => joined[c] # "NONE"
    /\ \A i \in 1..Len(roomQueue) : roomQueue[i].joined[c] # "NONE" => joined[c] # "NONE"

OneLive ==
  \A c, d \in Contracts :
    ListingOf(c) = ListingOf(d) /\ status[c] \in Live /\ status[d] \in Live => c = d

(* Acceptances are numbered upwards, so the one in force is the latest.    *)
Taken == {c \in Contracts : acceptedAt[c] > 0}
NumberedInOrder ==
  /\ IsFiniteSet(Taken)
  /\ \A c \in Contracts :
       /\ acceptedAt[c] <= Cardinality(Taken)
       /\ acceptedAt[c] > 0 => status[c] \in {"accepted", "terminated"}
  /\ \A c, d \in Contracts :
       ListingOf(c) = ListingOf(d) /\ status[c] = "accepted" /\ status[d] = "terminated"
         => acceptedAt[d] < acceptedAt[c]

(* Of the accepted contracts only those a starting process has not looked  *)
(* at yet may find their listing offered.                                  *)
NotOffered ==
  /\ up => booting = {}
  /\ \A c \in Contracts : status[c] = "accepted" /\ c \notin booting => listing[ListingOf(c)] # "OPEN"

ContractInv == ContractTypeOK /\ OneLive /\ NumberedInOrder /\ NotOffered
RoomInv == RoomTypeOK /\ InMemory
TradeInv == ContractInv /\ RoomInv

(***************************************************************************)
(* Listings.                                                               *)
(***************************************************************************)
LEMMA ListingOfIsListing == \A c \in Contracts : ListingOf(c) \in Listings /\ TenantOf(c) \in Tenants
  BY ContractsAssumption DEF ListingOf, TenantOf

(* Listings are edited, saved or loaded, and no accepted contract finds    *)
(* its own offered.                                                        *)
LEMMA ListingsKept ==
  ASSUME ContractInv, UNCHANGED <<status, acceptedAt>>, up' \in BOOLEAN,
         listing' \in ListingStores, listingFile' \in ListingStores, listingDb' \in ListingStores,
         listingQueue' \in Seq(ListingStores), booting' \subseteq Contracts,
         up' => booting' = {},
         \A c \in Contracts : status[c] = "accepted" /\ c \notin booting' => listing'[ListingOf(c)] # "OPEN"
  PROVE  ContractInv'
<1>1. Taken' = Taken
  BY DEF Taken
<1>2. NumberedInOrder'
  BY <1>1 DEF ContractInv, NumberedInOrder
<1> QED
  BY <1>2 DEF ContractInv, ContractTypeOK, OneLive, NotOffered

LEMMA ContractsStand == ContractInv /\ UNCHANGED contractPart => ContractInv'
<1> SUFFICES ASSUME ContractInv, UNCHANGED contractPart  PROVE ContractInv'
  OBVIOUS
<1> QED
  BY ListingsKept DEF contractPart, ContractInv, ContractTypeOK, NotOffered

LEMMA SaveEffect ==
  ASSUME ContractTypeOK, NEW l \in Listings, NEW s \in {"OPEN", "CONTRACTED", "ABSENT"}, SaveListing(l, s)
  PROVE  /\ listing' \in ListingStores /\ listingFile' = listing'
         /\ listingQueue' \in Seq(ListingStores)
         /\ listing'[l] = s /\ \A k \in Listings \ {l} : listing'[k] = listing[k]
<1>1. listing' = [listing EXCEPT ![l] = s] /\ listingFile' = listing'
      /\ listingQueue' = Append(listingQueue, listing')
  BY DEF SaveListing, SetListing, ListingProjection!Project
<1>2. listing' \in ListingStores
  BY <1>1 DEF ContractTypeOK, ListingStores
<1>3. listingQueue' \in Seq(ListingStores)
  BY <1>1, <1>2, AppendProperties DEF ContractTypeOK
<1> QED
  BY <1>1, <1>2, <1>3 DEF ContractTypeOK, ListingStores

(* Saving the listing of an accepted contract leaves it taken.             *)
LEMMA EnsureListingEffect ==
  ASSUME ContractTypeOK, NEW c \in Contracts, EnsureAcceptedListing(c)
  PROVE  /\ listing' \in ListingStores /\ listingFile' \in ListingStores
         /\ listingQueue' \in Seq(ListingStores)
         /\ listing'[ListingOf(c)] = "CONTRACTED"
         /\ \A k \in Listings \ {ListingOf(c)} : listing'[k] = listing[k]
<1> DEFINE l == ListingOf(c)
<1>1. l \in Listings
  BY ListingOfIsListing
<1>2. CASE SaveListing(l, "CONTRACTED")
  BY <1>1, <1>2, SaveEffect DEF ContractTypeOK
<1>3. CASE listing[l] = "CONTRACTED" /\ ListingProjection!Project(listing) /\ UNCHANGED listingVars
  <2>1. listingQueue' = Append(listingQueue, listing) /\ listing' = listing /\ listingFile' = listingFile
    BY <1>3 DEF listingVars, ListingProjection!Project
  <2>2. listingQueue' \in Seq(ListingStores)
    BY <2>1, AppendProperties DEF ContractTypeOK
  <2> QED
    BY <1>3, <2>1, <2>2 DEF ContractTypeOK
<1>4. CASE listing[l] = "CONTRACTED" /\ ListingUnchanged
  BY <1>4 DEF ListingUnchanged, listingVars, listingQueueVars, ContractTypeOK
<1> QED
  BY <1>2, <1>3, <1>4 DEF EnsureAcceptedListing

(***************************************************************************)
(* Contracts.                                                              *)
(***************************************************************************)
LEMMA ProposeKept ==
  ASSUME ContractInv, NEW c \in Contracts, ProposeContract(c)
  PROVE  ContractInv'
<1>1. /\ status[c] = "NONE" /\ status' = [status EXCEPT ![c] = "proposed"]
      /\ \A d \in Contracts : ListingOf(d) = ListingOf(c) => status[d] \notin Live
      /\ UNCHANGED <<acceptedAt, listing, listingDb, listingQueue, booting, up>> /\ listingFile' = listing
  BY DEF ProposeContract, Of, dbVars, listingQueueVars, processVars
<1>2. status'[c] = "proposed" /\ \A d \in Contracts \ {c} : status'[d] = status[d]
  BY <1>1 DEF ContractInv, ContractTypeOK
<1>3. ContractTypeOK'
  BY <1>1 DEF ContractInv, ContractTypeOK
<1>4. OneLive'
  BY <1>1, <1>2 DEF ContractInv, OneLive, Live
<1>5. NumberedInOrder'
  <2>1. Taken' = Taken
    BY <1>1 DEF Taken
  <2> QED
    BY <1>1, <1>2, <2>1 DEF ContractInv, NumberedInOrder
<1>6. NotOffered'
  BY <1>1, <1>2 DEF ContractInv, NotOffered
<1> QED
  BY <1>3, <1>4, <1>5, <1>6 DEF ContractInv

LEMMA EndProposalKept ==
  ASSUME ContractInv, NEW c \in Contracts, NEW s \in {"declined", "cancelled"}, EndProposal(c, s)
  PROVE  ContractInv'
<1>1. /\ status[c] = "proposed" /\ status' = [status EXCEPT ![c] = s]
      /\ UNCHANGED <<acceptedAt, listing, listingDb, listingQueue, booting, up>> /\ listingFile' = listing
  BY DEF EndProposal, dbVars, listingQueueVars, processVars
<1>2. status'[c] = s /\ \A d \in Contracts \ {c} : status'[d] = status[d]
  BY <1>1 DEF ContractInv, ContractTypeOK
<1>3. ContractTypeOK'
  BY <1>1 DEF ContractInv, ContractTypeOK
<1>4. OneLive'
  BY <1>1, <1>2 DEF ContractInv, OneLive, Live
<1>5. NumberedInOrder'
  <2>1. Taken' = Taken
    BY <1>1 DEF Taken
  <2> QED
    BY <1>1, <1>2, <2>1 DEF ContractInv, NumberedInOrder
<1>6. NotOffered'
  BY <1>1, <1>2 DEF ContractInv, NotOffered
<1> QED
  BY <1>3, <1>4, <1>5, <1>6 DEF ContractInv

(* An acceptance is the latest of all.                                     *)
LEMMA AcceptKept ==
  ASSUME ContractInv, NEW c \in Contracts, RespondContract(c)
  PROVE  ContractInv'
<1> USE ListingOfIsListing
<1>1. up /\ UNCHANGED <<listingDb, booting, up>>
  BY DEF RespondContract, dbVars, processVars
<1>2. CASE /\ status[c] = "proposed"
           /\ status' = [status EXCEPT ![c] = "accepted"]
           /\ acceptedAt' = [acceptedAt EXCEPT ![c] = 1 + Cardinality({d \in Contracts : acceptedAt[d] > 0})]
           /\ SaveListing(ListingOf(c), "CONTRACTED")
  <2> DEFINE l == ListingOf(c)
  <2>1. /\ listing' \in ListingStores /\ listingFile' = listing' /\ listingQueue' \in Seq(ListingStores)
        /\ listing'[l] = "CONTRACTED" /\ \A k \in Listings \ {l} : listing'[k] = listing[k]
    BY <1>2, SaveEffect DEF ContractInv
  <2>2. status'[c] = "accepted" /\ \A d \in Contracts \ {c} : status'[d] = status[d]
    BY <1>2 DEF ContractInv, ContractTypeOK
  <2>3. Cardinality(Taken) \in Nat
    BY FS_CardinalityType DEF ContractInv, NumberedInOrder
  <2>4. /\ acceptedAt' = [acceptedAt EXCEPT ![c] = 1 + Cardinality(Taken)]
        /\ acceptedAt'[c] = 1 + Cardinality(Taken)
        /\ \A d \in Contracts \ {c} : acceptedAt'[d] = acceptedAt[d]
    BY <1>2 DEF ContractInv, ContractTypeOK, Taken
  <2>5. ContractTypeOK'
    BY <1>1, <1>2, <2>1, <2>3, <2>4 DEF ContractInv, ContractTypeOK
  <2>6. OneLive'
    BY <1>2, <2>2 DEF ContractInv, OneLive, Live
  <2>7. NumberedInOrder'
    <3>1. Taken' = Taken \union {c}
      BY <2>3, <2>4 DEF Taken
    <3>3. /\ IsFiniteSet(Taken \union {c})
          /\ Cardinality(Taken \union {c}) = IF c \in Taken THEN Cardinality(Taken) ELSE Cardinality(Taken) + 1
      BY FS_AddElement DEF ContractInv, NumberedInOrder
    <3>4. c \notin Taken
      BY <1>2 DEF ContractInv, NumberedInOrder, Taken
    <3>5. \A d \in Contracts : acceptedAt'[d] <= Cardinality(Taken')
      BY <2>3, <2>4, <3>1, <3>3, <3>4 DEF ContractInv, NumberedInOrder, ContractTypeOK
    <3>6. ASSUME NEW d \in Contracts, NEW e \in Contracts, ListingOf(d) = ListingOf(e),
                 status'[d] = "accepted", status'[e] = "terminated"
          PROVE  acceptedAt'[e] < acceptedAt'[d]
      <4>1. e # c /\ acceptedAt'[e] = acceptedAt[e] /\ status[e] = "terminated"
        BY <2>2, <2>4, <3>6
      <4>2. CASE d = c
        BY <2>3, <2>4, <4>1, <4>2 DEF ContractInv, NumberedInOrder, ContractTypeOK
      <4>3. CASE d # c
        BY <2>2, <2>4, <3>6, <4>1, <4>3 DEF ContractInv, NumberedInOrder
      <4> QED
        BY <4>2, <4>3
    <3>7. \A d \in Contracts : acceptedAt'[d] > 0 => status'[d] \in {"accepted", "terminated"}
      BY <2>2, <2>4 DEF ContractInv, NumberedInOrder
    <3> QED
      BY <3>1, <3>3, <3>5, <3>6, <3>7 DEF NumberedInOrder
  <2>8. NotOffered'
    BY <1>1, <2>1, <2>2 DEF ContractInv, NotOffered
  <2> QED
    BY <2>5, <2>6, <2>7, <2>8 DEF ContractInv
<1>3. CASE status[c] = "accepted" /\ EnsureAcceptedListing(c) /\ UNCHANGED contractVars
  <2>1. /\ listing' \in ListingStores /\ listingFile' \in ListingStores /\ listingQueue' \in Seq(ListingStores)
        /\ listing'[ListingOf(c)] = "CONTRACTED"
        /\ \A k \in Listings \ {ListingOf(c)} : listing'[k] = listing[k]
    BY <1>3, EnsureListingEffect DEF ContractInv
  <2> QED
    BY <1>1, <1>3, <2>1, ListingsKept DEF contractVars, ContractInv, NotOffered, ContractTypeOK
<1> QED
  BY <1>2, <1>3 DEF RespondContract

(* A termination gives up a listing that no other accepted contract has.   *)
LEMMA TerminateKept ==
  ASSUME ContractInv, NEW c \in Contracts, TerminateContract(c)
  PROVE  ContractInv'
<1> USE ListingOfIsListing
<1> DEFINE l == ListingOf(c)
<1>1. /\ up /\ status[c] \in {"accepted", "terminated"} /\ status' = [status EXCEPT ![c] = "terminated"]
      /\ \A d \in Contracts : ListingOf(d) = l /\ status[d] = "accepted" => acceptedAt[d] <= acceptedAt[c]
      /\ UNCHANGED <<acceptedAt, listingDb, booting, up>>
  BY DEF TerminateContract, IsLatest, Of, dbVars, processVars
<1>2. status'[c] = "terminated" /\ \A d \in Contracts \ {c} : status'[d] = status[d]
  BY <1>1 DEF ContractInv, ContractTypeOK
<1>3. /\ listing' \in ListingStores /\ listingFile' \in ListingStores /\ listingQueue' \in Seq(ListingStores)
      /\ \A k \in Listings \ {l} : listing'[k] = listing[k]
  <2>1. CASE SaveListing(l, "OPEN")
    BY <2>1, SaveEffect DEF ContractInv
  <2>2. CASE ListingUnchanged
    BY <2>2 DEF ListingUnchanged, listingVars, listingQueueVars, ContractInv, ContractTypeOK
  <2> QED
    BY <2>1, <2>2 DEF TerminateContract
<1>4. ASSUME NEW d \in Contracts, status'[d] = "accepted"  PROVE d # c /\ status[d] = "accepted" /\ ListingOf(d) # l
  <2>1. d # c /\ status[d] = "accepted"
    BY <1>2, <1>4
  <2>2. CASE status[c] = "accepted"
    BY <2>1, <2>2 DEF ContractInv, OneLive, Live
  <2>3. CASE status[c] = "terminated"
    BY <1>1, <2>1, <2>3 DEF ContractInv, NumberedInOrder, ContractTypeOK
  <2> QED
    BY <1>1, <2>1, <2>2, <2>3
<1>5. ContractTypeOK'
  BY <1>1, <1>3 DEF ContractInv, ContractTypeOK
<1>6. OneLive'
  BY <1>1, <1>2 DEF ContractInv, OneLive, Live
<1>7. NumberedInOrder'
  <2>1. Taken' = Taken
    BY <1>1 DEF Taken
  <2>2. ASSUME NEW d \in Contracts, NEW e \in Contracts, ListingOf(d) = ListingOf(e),
               status'[d] = "accepted", status'[e] = "terminated"
        PROVE  acceptedAt[e] < acceptedAt[d]
    <3>1. e # c /\ status[e] = "terminated" /\ status[d] = "accepted"
      BY <1>2, <1>4, <2>2
    <3> QED
      BY <2>2, <3>1 DEF ContractInv, NumberedInOrder
  <2> QED
    BY <1>1, <1>2, <2>1, <2>2 DEF ContractInv, NumberedInOrder
<1>8. NotOffered'
  BY <1>1, <1>3, <1>4 DEF ContractInv, NotOffered
<1> QED
  BY <1>5, <1>6, <1>7, <1>8 DEF ContractInv

(***************************************************************************)
(* The process and the database, as far as the listings go.                *)
(***************************************************************************)
LEMMA UpdateListingKept ==
  ASSUME ContractInv, NEW l \in Listings, UpdateListing(l)
  PROVE  ContractInv'
<1>1. listing[l] \in {"OPEN", "CONTRACTED", "ABSENT"}
  BY DEF ContractInv, ContractTypeOK, ListingStores
<1>2. /\ SaveListing(l, listing[l]) /\ UNCHANGED <<status, acceptedAt, listingDb, booting, up>>
  BY DEF UpdateListing, contractVars, dbVars, processVars
<1>3. /\ listing' \in ListingStores /\ listingFile' = listing' /\ listingQueue' \in Seq(ListingStores)
      /\ \A k \in Listings : listing'[k] = listing[k]
  BY <1>1, <1>2, SaveEffect DEF ContractInv
<1> QED
  BY <1>2, <1>3, ListingsKept, ListingOfIsListing DEF ContractInv, ContractTypeOK, NotOffered

LEMMA DeleteListingKept ==
  ASSUME ContractInv, NEW l \in Listings, DeleteListing(l)
  PROVE  ContractInv'
<1>1. SaveListing(l, "ABSENT") /\ UNCHANGED <<status, acceptedAt, listingDb, booting, up>>
  BY DEF DeleteListing, contractVars, dbVars, processVars
<1>2. /\ listing' \in ListingStores /\ listingFile' = listing' /\ listingQueue' \in Seq(ListingStores)
      /\ listing'[l] = "ABSENT" /\ \A k \in Listings \ {l} : listing'[k] = listing[k]
  BY <1>1, SaveEffect DEF ContractInv
<1> QED
  BY <1>1, <1>2, ListingsKept, ListingOfIsListing DEF ContractInv, ContractTypeOK, NotOffered

LEMMA PersistListingsKept ==
  ASSUME ContractInv, PersistListings
  PROVE  ContractInv'
<1>1. /\ listingQueue # <<>> /\ listingQueue' = Tail(listingQueue) /\ listingDb' = Head(listingQueue)
      /\ UNCHANGED <<status, acceptedAt, listing, listingFile, booting, up>>
  BY DEF PersistListings, ListingProjection!Persist, contractVars, listingVars, processVars
<1>2. listingQueue' \in Seq(ListingStores) /\ listingDb' \in ListingStores
  BY <1>1, HeadTailProperties DEF ContractInv, ContractTypeOK
<1> QED
  BY <1>1, <1>2, ListingsKept DEF ContractInv, ContractTypeOK, NotOffered

LEMMA ProjectionFailsKept ==
  ASSUME ContractInv, ProjectionFails
  PROVE  ContractInv'
<1>1. UNCHANGED <<status, acceptedAt, listing, listingFile, listingDb, booting, up>>
  BY DEF ProjectionFails, contractVars, listingVars, dbVars
<1>2. listingQueue' \in Seq(ListingStores)
  <2>1. CASE ListingProjection!PersistFails
    <3>1. listingQueue # <<>> /\ listingQueue' = Tail(listingQueue)
      BY <2>1 DEF ListingProjection!PersistFails
    <3> QED
      BY <3>1, HeadTailProperties DEF ContractInv, ContractTypeOK
  <2>2. CASE UNCHANGED listingQueueVars
    BY <2>2 DEF listingQueueVars, ContractInv, ContractTypeOK
  <2> QED
    BY <2>1, <2>2 DEF ProjectionFails
<1> QED
  BY <1>1, <1>2, ListingsKept DEF ContractInv, ContractTypeOK, NotOffered

LEMMA CrashKept ==
  ASSUME ContractInv, Crash
  PROVE  ContractInv'
<1>1. /\ up' = FALSE /\ booting' = {c \in Contracts : status[c] = "accepted"}
      /\ listing' = Hydrated /\ UNCHANGED <<status, acceptedAt, listingFile, listingDb>>
  BY DEF Crash, contractVars, dbVars
<1>2. Hydrated \in ListingStores
  BY DEF Hydrated, ContractInv, ContractTypeOK, ListingStores
<1>3. listingQueue' \in Seq(ListingStores)
  <2>1. <<>> \in Seq(ListingStores) /\ <<Hydrated>> = Append(<<>>, Hydrated)
    BY EmptySeq
  <2>2. <<Hydrated>> \in Seq(ListingStores)
    BY <1>2, <2>1, AppendProperties
  <2>3. listingQueue' = <<Hydrated>> \/ listingQueue' = <<>>
    BY DEF Crash, ListingProjection!Restart
  <2> QED
    BY <2>1, <2>2, <2>3
<1> QED
  BY <1>1, <1>2, <1>3, ListingsKept DEF ContractInv, ContractTypeOK

LEMMA BootEnsureKept ==
  ASSUME ContractInv, NEW c \in Contracts, BootEnsure(c)
  PROVE  ContractInv'
<1> USE ListingOfIsListing
<1>1. /\ c \in booting /\ booting' = booting \ {c}
      /\ UNCHANGED <<status, acceptedAt, listingDb, up>>
  BY DEF BootEnsure, contractVars, dbVars
<1>2. /\ listing' \in ListingStores /\ listingFile' \in ListingStores /\ listingQueue' \in Seq(ListingStores)
      /\ listing'[ListingOf(c)] # "OPEN"
      /\ \A k \in Listings \ {ListingOf(c)} : listing'[k] = listing[k]
  <2>1. CASE EnsureAcceptedListing(c)
    BY <2>1, EnsureListingEffect DEF ContractInv
  <2>2. CASE listing[ListingOf(c)] = "ABSENT" /\ ListingUnchanged
    BY <2>2 DEF ListingUnchanged, listingVars, listingQueueVars, ContractInv, ContractTypeOK
  <2> QED
    BY <2>1, <2>2 DEF BootEnsure
<1>3. up' => booting' = {}
  BY <1>1 DEF ContractInv, NotOffered
<1>4. ASSUME NEW d \in Contracts, status[d] = "accepted", d \notin booting'
      PROVE  listing'[ListingOf(d)] # "OPEN"
  BY <1>1, <1>2, <1>4 DEF ContractInv, NotOffered
<1> QED
  BY <1>1, <1>2, <1>3, <1>4, ListingsKept DEF ContractInv, ContractTypeOK

LEMMA ListenKept ==
  ASSUME ContractInv, Listen
  PROVE  ContractInv'
<1>1. /\ up' = TRUE /\ booting = {}
      /\ UNCHANGED <<status, acceptedAt, listing, listingFile, listingDb, listingQueue, booting>>
  BY DEF Listen, contractVars, listingVars, dbVars, listingQueueVars
<1> QED
  BY <1>1, ListingsKept DEF ContractInv, ContractTypeOK, NotOffered

(***************************************************************************)
(* Rooms. What a step does to them: the queue takes a step of              *)
(* StoreProjection, and only the contracts of a set are joined anew.       *)
(***************************************************************************)
QueueSteps == RoomProjection!ProjectionNext \/ UNCHANGED roomQueueVars

JoinsOnly(S) == \A c \in Contracts \ S : joined[c] = "NONE" => joined'[c] = "NONE"

LEMMA RoomsStand ==
  ASSUME RoomInv, UNCHANGED <<roomVars, joinedDb, homeDb, roomQueueVars>>
  PROVE  RoomInv' /\ QueueSteps /\ JoinsOnly({})
  BY DEF RoomInv, RoomTypeOK, InMemory, roomVars, roomQueueVars, QueueSteps, JoinsOnly

LEMMA SaveRoomsKept ==
  ASSUME RoomInv, RoomSnapshot \in RoomStores, UNCHANGED <<joinedDb, homeDb>>,
         \A c \in Contracts : joined[c] # "NONE" => joined'[c] # "NONE",
         NEW b \in BOOLEAN, SaveRooms(b)
  PROVE  RoomInv' /\ QueueSteps
<1>1. CASE RoomProjection!Project(RoomSnapshot)
  <2>1. roomQueue' = Append(roomQueue, RoomSnapshot)
    BY <1>1 DEF RoomProjection!Project
  <2>2. /\ roomQueue' \in Seq(RoomStores) /\ Len(roomQueue') = Len(roomQueue) + 1
        /\ \A i \in 1..Len(roomQueue) : roomQueue'[i] = roomQueue[i]
        /\ roomQueue'[Len(roomQueue) + 1] = RoomSnapshot
    BY <2>1, AppendProperties DEF RoomInv, RoomTypeOK
  <2>3. RoomTypeOK'
    BY <2>2 DEF RoomInv, RoomTypeOK, RoomSnapshot
  <2>4. ASSUME NEW c \in Contracts, NEW i \in 1..Len(roomQueue'), roomQueue'[i].joined[c] # "NONE"
        PROVE  joined'[c] # "NONE"
    <3>1. Len(roomQueue) \in Nat
      BY LenProperties DEF RoomInv, RoomTypeOK
    <3>2. CASE i \in 1..Len(roomQueue)
      BY <2>2, <2>4, <3>2 DEF RoomInv, InMemory
    <3>3. CASE i = Len(roomQueue) + 1
      BY <2>2, <2>4, <3>3 DEF RoomSnapshot
    <3> QED
      BY <2>2, <3>1, <3>2, <3>3
  <2>5. InMemory'
    BY <2>4 DEF RoomInv, InMemory
  <2>6. QueueSteps
    BY <1>1 DEF QueueSteps, RoomProjection!ProjectionNext
  <2> QED
    BY <2>3, <2>5, <2>6 DEF RoomInv
<1>2. CASE UNCHANGED roomQueueVars
  <2>1. roomQueue' = roomQueue
    BY <1>2 DEF roomQueueVars
  <2> QED
    BY <1>2, <2>1 DEF RoomInv, RoomTypeOK, InMemory, QueueSteps, RoomSnapshot
<1> QED
  BY <1>1, <1>2 DEF SaveRooms

LEMMA ConnectKept ==
  ASSUME RoomInv, NEW c \in Contracts, ConnectAcceptedTradeContract(c), UNCHANGED <<joinedDb, homeDb>>
  PROVE  RoomInv' /\ QueueSteps /\ JoinsOnly({c})
<1> USE ListingOfIsListing
<1> DEFINE t == TenantOf(c)
           joins == ~NewerHome(c) /\ (joined[c] = "NONE" \/ home[t] # ListingOf(c))
<1>1. /\ joined' = IF joins /\ joined[c] = "NONE" THEN [joined EXCEPT ![c] = "ANALYZING"] ELSE joined
      /\ home' = IF joins THEN [home EXCEPT ![t] = ListingOf(c)] ELSE home
      /\ SaveRooms(joins)
  BY DEF ConnectAcceptedTradeContract
<1>2. joins \in BOOLEAN
  OBVIOUS
<1> HIDE DEF joins
<1>3. joined \in [Contracts -> {"NONE", "ANALYZING", "EXPIRED"}] /\ home \in [Tenants -> Listings \union {"NONE"}]
  BY DEF RoomInv, RoomTypeOK, RoomStores
<1>4. RoomSnapshot \in RoomStores
  BY <1>1, <1>3 DEF RoomSnapshot, RoomStores
<1>5. \A d \in Contracts : joined[d] # "NONE" => joined'[d] # "NONE"
  BY <1>1, <1>3
<1>6. JoinsOnly({c})
  BY <1>1, <1>3 DEF JoinsOnly
<1> QED
  BY <1>1, <1>2, <1>4, <1>5, <1>6, SaveRoomsKept

LEMMA DisconnectKept ==
  ASSUME RoomInv, NEW c \in Contracts, DisconnectAcceptedTradeContract(c), UNCHANGED <<joinedDb, homeDb>>
  PROVE  RoomInv' /\ QueueSteps /\ JoinsOnly({})
<1> USE ListingOfIsListing
<1> DEFINE t == TenantOf(c)
           lives == joined[c] # "NONE" /\ home[t] = ListingOf(c)
           others == {ListingOf(d) : d \in {d \in Contracts :
                        TenantOf(d) = t /\ ListingOf(d) # ListingOf(c) /\ joined[d] = "ANALYZING"}}
           changed == lives \/ joined[c] = "ANALYZING"
<1>1. /\ joined' = IF joined[c] = "ANALYZING" THEN [joined EXCEPT ![c] = "EXPIRED"] ELSE joined
      /\ IF lives
           THEN \E h \in IF others = {} THEN {"NONE"} ELSE others : home' = [home EXCEPT ![t] = h]
           ELSE UNCHANGED home
      /\ SaveRooms(changed)
  BY DEF DisconnectAcceptedTradeContract
<1>2. changed \in BOOLEAN /\ others \subseteq Listings
  OBVIOUS
<1> HIDE DEF lives, others, changed
<1>3. joined \in [Contracts -> {"NONE", "ANALYZING", "EXPIRED"}] /\ home \in [Tenants -> Listings \union {"NONE"}]
  BY DEF RoomInv, RoomTypeOK, RoomStores
<1>4. home' \in [Tenants -> Listings \union {"NONE"}]
  <2>1. CASE lives
    <3>1. PICK h \in Listings \union {"NONE"} : home' = [home EXCEPT ![t] = h]
      BY <1>1, <1>2, <2>1
    <3> QED
      BY <1>3, <3>1
  <2>2. CASE ~lives
    BY <1>1, <1>3, <2>2
  <2> QED
    BY <2>1, <2>2
<1>5. RoomSnapshot \in RoomStores
  BY <1>1, <1>3, <1>4 DEF RoomSnapshot, RoomStores
<1>6. \A d \in Contracts : joined[d] # "NONE" => joined'[d] # "NONE"
  BY <1>1, <1>3
<1>7. JoinsOnly({})
  BY <1>1, <1>3 DEF JoinsOnly
<1> QED
  BY <1>1, <1>2, <1>5, <1>6, <1>7, SaveRoomsKept

LEMMA PersistRoomsKept ==
  ASSUME RoomInv, PersistRooms
  PROVE  RoomInv' /\ QueueSteps /\ JoinsOnly({})
<1>1. /\ RoomProjection!Persist /\ joinedDb' = Head(roomQueue).joined
      /\ homeDb' = [t \in Tenants |->
           IF Head(roomQueue).home[t] = "NONE" THEN homeDb[t] ELSE Head(roomQueue).home[t]]
      /\ UNCHANGED <<joined, home>>
  BY DEF PersistRooms, roomVars
<1>2. roomQueue # <<>> /\ roomQueue' = Tail(roomQueue)
  BY <1>1 DEF RoomProjection!Persist
<1>3. /\ roomQueue' \in Seq(RoomStores) /\ Head(roomQueue) \in RoomStores
      /\ Len(roomQueue') = Len(roomQueue) - 1
      /\ \A i \in 1..Len(roomQueue') : roomQueue'[i] = roomQueue[i + 1]
      /\ Len(roomQueue) \in Nat
  BY <1>2, HeadTailProperties, LenProperties DEF RoomInv, RoomTypeOK
<1>4. Head(roomQueue) = roomQueue[1] /\ Len(roomQueue) > 0
  BY <1>2, <1>3, EmptySeq DEF RoomInv, RoomTypeOK
<1>5. RoomTypeOK'
  BY <1>1, <1>3 DEF RoomInv, RoomTypeOK, RoomStores
<1>6. InMemory'
  BY <1>1, <1>3, <1>4 DEF RoomInv, InMemory
<1> QED
  BY <1>1, <1>5, <1>6 DEF RoomInv, QueueSteps, RoomProjection!ProjectionNext, JoinsOnly

LEMMA RoomsFailKept ==
  ASSUME RoomInv, ProjectionFails
  PROVE  RoomInv' /\ QueueSteps /\ JoinsOnly({})
<1>1. UNCHANGED <<roomVars, joinedDb, homeDb>>
  BY DEF ProjectionFails, dbVars
<1>2. CASE UNCHANGED roomQueueVars
  BY <1>1, <1>2, RoomsStand
<1>3. CASE RoomProjection!PersistFails
  <2>1. roomQueue # <<>> /\ roomQueue' = Tail(roomQueue)
    BY <1>3 DEF RoomProjection!PersistFails
  <2>2. /\ roomQueue' \in Seq(RoomStores) /\ Len(roomQueue') = Len(roomQueue) - 1
        /\ \A i \in 1..Len(roomQueue') : roomQueue'[i] = roomQueue[i + 1]
        /\ Len(roomQueue) \in Nat
    BY <2>1, HeadTailProperties, LenProperties DEF RoomInv, RoomTypeOK
  <2>3. RoomTypeOK' /\ InMemory'
    BY <1>1, <2>2 DEF RoomInv, RoomTypeOK, InMemory, roomVars
  <2> QED
    BY <1>1, <1>3, <2>3 DEF RoomInv, QueueSteps, RoomProjection!ProjectionNext, JoinsOnly, roomVars
<1> QED
  BY <1>2, <1>3 DEF ProjectionFails

LEMMA RoomsRestartKept ==
  ASSUME RoomInv, Crash
  PROVE  RoomInv' /\ QueueSteps /\ JoinsOnly({})
<1>1. /\ joined' = joinedDb /\ home' = homeDb /\ RoomProjection!Restart
      /\ UNCHANGED <<joinedDb, homeDb>>
  BY DEF Crash, dbVars
<1>2. roomQueue' = <<>>
  BY <1>1 DEF RoomProjection!Restart
<1>3. roomQueue' \in Seq(RoomStores) /\ Len(roomQueue') = 0
  BY <1>2, EmptySeq
<1>4. RoomTypeOK'
  BY <1>1, <1>3 DEF RoomInv, RoomTypeOK
<1>5. InMemory'
  BY <1>1, <1>3 DEF RoomInv, InMemory
<1> QED
  BY <1>1, <1>4, <1>5 DEF RoomInv, InMemory, QueueSteps, RoomProjection!ProjectionNext, JoinsOnly

(***************************************************************************)
(* Every step.                                                             *)
(***************************************************************************)
Accepteds == {c \in Contracts : status[c] = "accepted"}
Kept == TradeInv' /\ QueueSteps /\ JoinsOnly(Accepteds)

(* A step that leaves the rooms alone.                                     *)
LEMMA KeptWithRooms ==
  ASSUME TradeInv, ContractInv', UNCHANGED <<roomVars, joinedDb, homeDb, roomQueueVars>>
  PROVE  Kept
  BY RoomsStand DEF TradeInv, Kept, JoinsOnly

LEMMA ContractStepKept ==
  ASSUME TradeInv, NEW c \in Contracts, ContractStep(c)
  PROVE  Kept
<1> USE DEF TradeInv
<1>1. CASE ProposeContract(c)
  BY <1>1, ProposeKept, KeptWithRooms DEF ProposeContract, dbVars
<1>2. ASSUME NEW s \in {"declined", "cancelled"}, EndProposal(c, s)  PROVE Kept
  BY <1>2, EndProposalKept, KeptWithRooms DEF EndProposal, dbVars
<1>3. CASE RespondContract(c)
  BY <1>3, AcceptKept, KeptWithRooms DEF RespondContract, dbVars
<1>4. CASE Ensure(c)
  <2>1. UNCHANGED contractPart
    BY <1>4 DEF Ensure, contractPart, contractVars, listingVars, dbVars, listingQueueVars, processVars
  <2>2. ContractInv'
    BY <2>1, ContractsStand
  <2>3. UNCHANGED <<joinedDb, homeDb>>
    BY <1>4 DEF Ensure, dbVars
  <2>4. CASE status[c] = "accepted" /\ ConnectAcceptedTradeContract(c)
    <3>1. RoomInv' /\ QueueSteps /\ JoinsOnly({c})
      BY <2>3, <2>4, ConnectKept
    <3>2. {c} \subseteq Accepteds
      BY <2>4 DEF Accepteds
    <3> QED
      BY <2>2, <3>1, <3>2 DEF Kept, JoinsOnly
  <2>5. CASE UNCHANGED <<roomVars, roomQueueVars>>
    BY <2>2, <2>3, <2>5, KeptWithRooms
  <2> QED
    BY <1>4, <2>4, <2>5 DEF Ensure
<1>5. CASE Accepted(c) \/ Released(c) \/ Terminated(c)
  <2>1. UNCHANGED contractPart /\ UNCHANGED <<roomVars, joinedDb, homeDb, roomQueueVars>>
    BY <1>5 DEF Accepted, Released, Terminated, contractPart, contractVars, listingVars, dbVars,
       listingQueueVars, processVars
  <2> QED
    BY <2>1, ContractsStand, KeptWithRooms
<1>6. CASE TerminateContract(c)
  <2>1. DisconnectAcceptedTradeContract(c) /\ UNCHANGED <<joinedDb, homeDb>>
    BY <1>6 DEF TerminateContract, dbVars
  <2> QED
    BY <1>6, <2>1, TerminateKept, DisconnectKept DEF Kept, JoinsOnly
<1>7. CASE BootEnsure(c)
  BY <1>7, BootEnsureKept, KeptWithRooms DEF BootEnsure, dbVars
<1> QED
  BY <1>1, <1>2, <1>3, <1>4, <1>5, <1>6, <1>7 DEF ContractStep

LEMMA TradeStepKept == TradeInv /\ [TradeNext]_tradeVars => Kept
<1> SUFFICES ASSUME TradeInv, [TradeNext]_tradeVars  PROVE Kept
  OBVIOUS
<1> USE DEF TradeInv
<1>1. ASSUME NEW c \in Contracts, ContractStep(c)  PROVE Kept
  BY <1>1, ContractStepKept
<1>2. ASSUME NEW l \in Listings, UpdateListing(l)  PROVE Kept
  BY <1>2, UpdateListingKept, KeptWithRooms DEF UpdateListing, dbVars
<1>3. ASSUME NEW l \in Listings, DeleteListing(l)  PROVE Kept
  BY <1>3, DeleteListingKept, KeptWithRooms DEF DeleteListing, dbVars
<1>4. CASE PersistListings
  BY <1>4, PersistListingsKept, KeptWithRooms DEF PersistListings
<1>5. CASE PersistRooms
  <2>1. UNCHANGED contractPart
    BY <1>5 DEF PersistRooms, contractPart, contractVars, listingVars, listingQueueVars, processVars
  <2> QED
    BY <1>5, <2>1, ContractsStand, PersistRoomsKept DEF Kept, JoinsOnly
<1>6. CASE ProjectionFails
  BY <1>6, ProjectionFailsKept, RoomsFailKept DEF Kept, JoinsOnly
<1>7. CASE Crash
  BY <1>7, CrashKept, RoomsRestartKept DEF Kept, JoinsOnly
<1>8. CASE Listen
  BY <1>8, ListenKept, KeptWithRooms DEF Listen, dbVars
<1>9. CASE UNCHANGED tradeVars
  <2>1. UNCHANGED contractPart /\ UNCHANGED <<roomVars, joinedDb, homeDb, roomQueueVars>>
    BY <1>9 DEF tradeVars, contractPart, contractVars, listingVars, dbVars, listingQueueVars, processVars
  <2> QED
    BY <2>1, ContractsStand, KeptWithRooms
<1> QED
  BY <1>1, <1>2, <1>3, <1>4, <1>5, <1>6, <1>7, <1>8, <1>9 DEF TradeNext

LEMMA TradeInitInv == TradeInit => TradeInv
<1> SUFFICES ASSUME TradeInit  PROVE TradeInv
  OBVIOUS
<1> USE ListingOfIsListing
<1>1. /\ listing \in ListingStores /\ listingFile = listing /\ listingDb \in ListingStores
      /\ listingQueue = <<listing>>
  BY DEF TradeInit, ListingStores
<1>2. listingQueue \in Seq(ListingStores)
  <2>1. <<>> \in Seq(ListingStores) /\ <<listing>> = Append(<<>>, listing)
    BY EmptySeq
  <2> QED
    BY <1>1, <2>1, AppendProperties
<1>3. ContractTypeOK
  BY <1>1, <1>2 DEF TradeInit, ContractTypeOK
<1>4. NumberedInOrder
  <2>1. Taken = {}
    BY DEF TradeInit, Taken
  <2>2. IsFiniteSet(Taken) /\ Cardinality(Taken) = 0
    BY <2>1, FS_EmptySet
  <2> QED
    BY <2>2 DEF TradeInit, NumberedInOrder
<1>5. OneLive /\ NotOffered
  BY DEF TradeInit, OneLive, NotOffered, Live
<1>6. roomQueue = <<>> /\ roomQueue \in Seq(RoomStores) /\ Len(roomQueue) = 0
  BY EmptySeq DEF TradeInit, RoomProjection!ProjectionInit
<1>7. RoomTypeOK
  BY <1>6 DEF TradeInit, RoomTypeOK, RoomStores
<1>8. InMemory
  BY <1>6 DEF TradeInit, InMemory
<1> QED
  BY <1>3, <1>4, <1>5, <1>7, <1>8 DEF TradeInv, ContractInv, RoomInv

(***************************************************************************)
(* Theorems.                                                               *)
(***************************************************************************)
(* The strengthened invariant holds, whatever fails and however often the  *)
(* process starts anew.                                                    *)
THEOREM TradeInvHolds == TradeSpec => []TradeInv
<1>1. TradeInv /\ [TradeNext]_tradeVars => TradeInv'
  BY TradeStepKept DEF Kept
<1> QED
  BY <1>1, TradeInitInv, PTL DEF TradeSpec

(* A process that takes calls offers no listing with an accepted contract. *)
THEOREM ContractedIsNotOfferedHolds == TradeSpec => []ContractedIsNotOffered
<1>1. TradeInv => ContractedIsNotOffered
  BY DEF TradeInv, ContractInv, NotOffered, ContractedIsNotOffered
<1> QED
  BY <1>1, TradeInvHolds, PTL

(* A contract is joined to the tenant's room only while it is accepted.    *)
THEOREM OnlyAcceptedIsJoinedHolds == TradeSpec => OnlyAcceptedIsJoined
<1>1. TradeInv /\ [TradeNext]_tradeVars =>
        [\A c \in Contracts :
           joined[c] = "NONE" /\ joined'[c] # "NONE" => status[c] = "accepted"]_tradeVars
  BY TradeStepKept DEF Kept, JoinsOnly, Accepteds
<1> QED
  BY <1>1, TradeInvHolds, PTL DEF TradeSpec, OnlyAcceptedIsJoined

(* The roomlog service writes its store by the queue of StoreProjection,   *)
(* whatever the handlers of contracts and restarts do with it.             *)
THEOREM RoomsAreProjected == TradeSpec => RoomProjection!ProjectionSpec
<1>1. TradeInit => RoomProjection!ProjectionInit
  BY DEF TradeInit
<1>2. TradeInv /\ [TradeNext]_tradeVars => [RoomProjection!ProjectionNext]_(RoomProjection!projectionVars)
  BY TradeStepKept DEF Kept, QueueSteps, roomQueueVars, RoomProjection!projectionVars
<1> QED
  BY <1>1, <1>2, TradeInvHolds, PTL DEF TradeSpec, RoomProjection!ProjectionSpec

(***************************************************************************)
(* Queues, whatever they hold: n snapshots taken, those of q not yet dealt *)
(* with, d the last one written, f the one that failed last. Because they  *)
(* are dealt with in order, the last of those dealt with was either        *)
(* written, which clears the failure, or is the failure.                   *)
(***************************************************************************)
QueueOK(S, n, q, d, f) ==
  /\ n \in Nat /\ q \in Seq(S) /\ d \in Nat /\ f \in Nat
  /\ Len(q) <= n /\ d <= n - Len(q) /\ f <= n - Len(q)
  /\ n - Len(q) > 0 => \/ d = n - Len(q) /\ f = 0
                       \/ f = n - Len(q)

LEMMA QueueStarts ==
  ASSUME NEW S
  PROVE  /\ QueueOK(S, 0, <<>>, 0, 0)
         /\ \A s \in S : QueueOK(S, 1, <<s>>, 0, 0)
<1>1. QueueOK(S, 0, <<>>, 0, 0)
  BY EmptySeq DEF QueueOK
<1>2. ASSUME NEW s \in S  PROVE QueueOK(S, 1, <<s>>, 0, 0)
  <2>1. <<s>> \in Seq(S) /\ Len(<<s>>) = 1
    OBVIOUS
  <2> QED
    BY <2>1 DEF QueueOK
<1> QED
  BY <1>1, <1>2

LEMMA QueueGrows ==
  ASSUME NEW S, NEW n, NEW q, NEW d, NEW f, QueueOK(S, n, q, d, f), NEW s \in S
  PROVE  QueueOK(S, n + 1, Append(q, s), d, f)
<1>1. Append(q, s) \in Seq(S) /\ Len(Append(q, s)) = Len(q) + 1 /\ Len(q) \in Nat
  BY AppendProperties, LenProperties DEF QueueOK
<1> QED
  BY <1>1 DEF QueueOK

LEMMA QueueShrinks ==
  ASSUME NEW S, NEW n, NEW q, NEW d, NEW f, QueueOK(S, n, q, d, f), q # <<>>
  PROVE  /\ QueueOK(S, n, Tail(q), n - Len(q) + 1, IF f <= n - Len(q) + 1 THEN 0 ELSE f)
         /\ QueueOK(S, n, Tail(q), d, IF n - Len(q) + 1 >= f THEN n - Len(q) + 1 ELSE f)
<1>1. PICK r : r = Tail(q)
  OBVIOUS
<1>2. /\ r \in Seq(S) /\ Len(r) = Len(q) - 1
      /\ Len(q) \in Nat /\ Len(q) > 0
  BY <1>1, HeadTailProperties, EmptySeq, LenProperties DEF QueueOK
<1>3. /\ n \in Nat /\ d \in Nat /\ f \in Nat
      /\ Len(q) <= n /\ d <= n - Len(q) /\ f <= n - Len(q)
  BY DEF QueueOK
<1>4. n - Len(r) = n - Len(q) + 1 /\ n - Len(r) \in Nat /\ Len(r) <= n
  BY <1>2, <1>3
<1>5. QueueOK(S, n, r, n - Len(q) + 1, 0)
  BY <1>2, <1>3, <1>4 DEF QueueOK
<1>6. QueueOK(S, n, r, d, n - Len(q) + 1)
  BY <1>2, <1>3, <1>4 DEF QueueOK
<1> QED
  BY <1>1, <1>2, <1>3, <1>5, <1>6

(* A wait for generation g ends with it, or a later one, written, or with  *)
(* the failure of the last one dealt with.                                 *)
LEMMA QueueIsHonest ==
  ASSUME NEW S, NEW n, NEW q, NEW d, NEW f, QueueOK(S, n, q, d, f)
  PROVE  /\ d <= n - Len(q)
         /\ \A g \in 1..n : n - Len(q) >= g /\ ~(d >= g) => f = n - Len(q)
         /\ n > 0 /\ f = n /\ d < n => q = <<>>
<1>1. Len(q) \in Nat /\ (q # <<>> => Len(q) > 0)
  BY LenProperties, EmptySeq DEF QueueOK
<1> QED
  BY <1>1 DEF QueueOK

(***************************************************************************)
(* The snapshots still queued that were taken from generation g on are of  *)
(* X.                                                                      *)
(***************************************************************************)
QueuedSince(q, n, g, X) == \A i \in 1..Len(q) : n - Len(q) + i >= g => q[i] \in X

LEMMA SinceGrows ==
  ASSUME NEW S, NEW n, NEW q, NEW d, NEW f, QueueOK(S, n, q, d, f),
         NEW s \in S, NEW X, s \in X, NEW g \in Nat
  PROVE  /\ QueuedSince(q, n, g, X) => QueuedSince(Append(q, s), n + 1, g, X)
         /\ QueuedSince(Append(q, s), n + 1, n + 1, X)
<1>1. /\ Len(Append(q, s)) = Len(q) + 1 /\ Len(q) \in Nat /\ n \in Nat
      /\ \A i \in 1..Len(q) : Append(q, s)[i] = q[i]
      /\ Append(q, s)[Len(q) + 1] = s
  BY AppendProperties, LenProperties DEF QueueOK
<1>2. ASSUME QueuedSince(q, n, g, X), NEW i \in 1..(Len(q) + 1), n - Len(q) + i >= g
      PROVE  Append(q, s)[i] \in X
  <2>1. CASE i = Len(q) + 1
    BY <1>1, <2>1
  <2>2. CASE i # Len(q) + 1
    <3>1. i \in 1..Len(q)
      BY <1>1, <2>2
    <3> QED
      BY <1>1, <1>2, <3>1 DEF QueuedSince
  <2> QED
    BY <2>1, <2>2
<1>3. ASSUME NEW i \in 1..(Len(q) + 1), n - Len(q) + i >= n + 1  PROVE Append(q, s)[i] \in X
  <2>1. i = Len(q) + 1
    BY <1>1, <1>3
  <2> QED
    BY <1>1, <2>1
<1>4. n + 1 - Len(Append(q, s)) = n - Len(q)
  BY <1>1
<1> QED
  BY <1>1, <1>2, <1>3, <1>4 DEF QueuedSince

LEMMA SinceShrinks ==
  ASSUME NEW S, NEW n, NEW q, NEW d, NEW f, QueueOK(S, n, q, d, f), q # <<>>,
         NEW X, NEW g \in Nat, QueuedSince(q, n, g, X)
  PROVE  /\ QueuedSince(Tail(q), n, g, X)
         /\ n - Len(q) + 1 >= g => Head(q) \in X
<1>1. /\ Head(q) = q[1] /\ Len(Tail(q)) = Len(q) - 1
      /\ \A i \in 1..Len(Tail(q)) : Tail(q)[i] = q[i + 1]
      /\ Len(q) \in Nat /\ Len(q) > 0 /\ n \in Nat
  BY HeadTailProperties, EmptySeq, LenProperties DEF QueueOK
<1>2. ASSUME NEW i \in 1..(Len(q) - 1), n - (Len(q) - 1) + i >= g  PROVE Tail(q)[i] \in X
  <2>1. i + 1 \in 1..Len(q) /\ n - Len(q) + (i + 1) >= g
    BY <1>1, <1>2
  <2>2. q[i + 1] \in X
    BY <2>1 DEF QueuedSince
  <2> QED
    BY <1>1, <1>2, <2>2
<1>3. QueuedSince(Tail(q), n, g, X)
  BY <1>1, <1>2 DEF QueuedSince
<1>4. n - Len(q) + 1 >= g => q[1] \in X
  BY <1>1 DEF QueuedSince
<1> QED
  BY <1>1, <1>3, <1>4

(* Of a wait that has ended, all that is queued is later than its own.     *)
LEMMA SinceSettled ==
  ASSUME NEW S, NEW n, NEW q, NEW d, NEW f, QueueOK(S, n, q, d, f),
         NEW X, NEW g \in Nat, n - Len(q) >= g, QueuedSince(q, n, g, X)
  PROVE  QueuedSince(q, n, 0, X)
<1>1. Len(q) \in Nat /\ n \in Nat
  BY LenProperties DEF QueueOK
<1> QED
  BY <1>1 DEF QueuedSince

LEMMA SinceStarts ==
  ASSUME NEW X, NEW n, NEW g
  PROVE  /\ QueuedSince(<<>>, n, g, X)
         /\ \A s \in X : QueuedSince(<<s>>, n, g, X)
<1>1. QueuedSince(<<>>, n, g, X)
  <2>1. Len(<<>>) = 0
    BY EmptySeq
  <2> QED
    BY <2>1 DEF QueuedSince
<1>2. ASSUME NEW s \in X  PROVE QueuedSince(<<s>>, n, g, X)
  <2>1. Len(<<s>>) = 1 /\ <<s>>[1] = s
    OBVIOUS
  <2> QED
    BY <2>1 DEF QueuedSince
<1> QED
  BY <1>1, <1>2

(***************************************************************************)
(* The two queues of the system. Of what is waited for, the snapshots from *)
(* a generation on that are queued, and the last one written, are of X.    *)
(***************************************************************************)
ListingQueueOK == QueueOK(ListingStores, listingGen, listingQueue, listingDone, listingFailure)
RoomQueueOK == QueueOK(RoomStores, roomGen, roomQueue, roomDone, roomFailure)

ListingsSince(g, X) ==
  /\ QueuedSince(listingQueue, listingGen, g, X)
  /\ listingDone >= g => listingDb \in X

InDb == [joined |-> joinedDb, home |-> homeDb]
InMemoryNow == [joined |-> joined, home |-> home]
RoomsSince(g, X) ==
  /\ QueuedSince(roomQueue, roomGen, g, X)
  /\ roomDone >= g => InDb \in X

(* What a snapshot of the rooms leaves in the database.                    *)
WrittenOver(s, o) ==
  [joined |-> s.joined, home |-> [t \in Tenants |-> IF s.home[t] = "NONE" THEN o.home[t] ELSE s.home[t]]]
Lasting(X) == \A s \in X, o \in RoomStores : WrittenOver(s, o) \in X

(* All that a process does to a store, but for starting anew.              *)
ListingMoves ==
  \/ UNCHANGED <<listing, listingDb, listingQueueVars>>
  \/ ListingProjection!Project(listing') /\ UNCHANGED listingDb
  \/ ListingProjection!Persist /\ listingDb' = Head(listingQueue) /\ UNCHANGED listing
  \/ ListingProjection!PersistFails /\ UNCHANGED <<listing, listingDb>>

RoomMoves ==
  \/ UNCHANGED <<joined, home, joinedDb, homeDb, roomQueueVars>>
  \/ RoomProjection!Project(RoomSnapshot) /\ UNCHANGED <<joinedDb, homeDb>>
  \/ /\ RoomProjection!Persist
     /\ joinedDb' = Head(roomQueue).joined
     /\ homeDb' = [t \in Tenants |->
          IF Head(roomQueue).home[t] = "NONE" THEN homeDb[t] ELSE Head(roomQueue).home[t]]
     /\ UNCHANGED <<joined, home>>
  \/ RoomProjection!PersistFails /\ UNCHANGED <<joined, home, joinedDb, homeDb>>

LEMMA ListingQueueMoves ==
  ASSUME ListingQueueOK, ListingMoves, listing' \in ListingStores
  PROVE  ListingQueueOK'
<1> USE DEF ListingQueueOK
<1>1. CASE UNCHANGED <<listing, listingDb, listingQueueVars>>
  BY <1>1 DEF listingQueueVars
<1>2. CASE ListingProjection!Project(listing')
  <2>1. QueueOK(ListingStores, listingGen + 1, Append(listingQueue, listing'), listingDone, listingFailure)
    BY QueueGrows
  <2> QED
    BY <1>2, <2>1 DEF ListingProjection!Project
<1>3. CASE ListingProjection!Persist
  BY <1>3, QueueShrinks DEF ListingProjection!Persist, ListingProjection!Done
<1>4. CASE ListingProjection!PersistFails
  BY <1>4, QueueShrinks DEF ListingProjection!PersistFails, ListingProjection!Done
<1> QED
  BY <1>1, <1>2, <1>3, <1>4 DEF ListingMoves

LEMMA RoomQueueMoves ==
  ASSUME RoomQueueOK, RoomMoves, RoomSnapshot \in RoomStores
  PROVE  RoomQueueOK'
<1> USE DEF RoomQueueOK
<1>1. CASE UNCHANGED roomQueueVars
  BY <1>1 DEF roomQueueVars
<1>2. CASE RoomProjection!Project(RoomSnapshot)
  <2>1. QueueOK(RoomStores, roomGen + 1, Append(roomQueue, RoomSnapshot), roomDone, roomFailure)
    BY QueueGrows
  <2> QED
    BY <1>2, <2>1 DEF RoomProjection!Project
<1>3. CASE RoomProjection!Persist
  BY <1>3, QueueShrinks DEF RoomProjection!Persist, RoomProjection!Done
<1>4. CASE RoomProjection!PersistFails
  BY <1>4, QueueShrinks DEF RoomProjection!PersistFails, RoomProjection!Done
<1> QED
  BY <1>1, <1>2, <1>3, <1>4 DEF RoomMoves

(* What is true of the memory, and of all since g, stays true of all since *)
(* g.                                                                      *)
LEMMA ListingsSinceMoves ==
  ASSUME ListingQueueOK, ListingMoves, listing' \in ListingStores,
         NEW g \in Nat, NEW X, ListingsSince(g, X), listing' \in X
  PROVE  ListingsSince(g, X)'
<1> USE DEF ListingQueueOK
<1>1. QueuedSince(listingQueue, listingGen, g, X) /\ (listingDone >= g => listingDb \in X)
  BY DEF ListingsSince
<1>2. CASE UNCHANGED <<listing, listingDb, listingQueueVars>>
  BY <1>1, <1>2 DEF listingQueueVars, ListingsSince
<1>3. CASE ListingProjection!Project(listing') /\ UNCHANGED listingDb
  <2>1. QueuedSince(Append(listingQueue, listing'), listingGen + 1, g, X)
    BY <1>1, SinceGrows
  <2> QED
    BY <1>1, <1>3, <2>1 DEF ListingProjection!Project, ListingsSince
<1>4. CASE listingQueue # <<>>
  <2>1. /\ QueuedSince(Tail(listingQueue), listingGen, g, X)
        /\ listingGen - Len(listingQueue) + 1 >= g => Head(listingQueue) \in X
    BY <1>1, <1>4, SinceShrinks
  <2>2. CASE ListingProjection!Persist /\ listingDb' = Head(listingQueue) /\ UNCHANGED listing
    BY <2>1, <2>2 DEF ListingProjection!Persist, ListingProjection!Done, ListingsSince
  <2>3. CASE ListingProjection!PersistFails /\ UNCHANGED <<listing, listingDb>>
    BY <1>1, <2>1, <2>3 DEF ListingProjection!PersistFails, ListingsSince
  <2> QED
    BY <1>2, <1>3, <2>2, <2>3 DEF ListingMoves
<1> QED
  BY <1>2, <1>3, <1>4 DEF ListingMoves, ListingProjection!Persist, ListingProjection!PersistFails

LEMMA RoomsSinceMoves ==
  ASSUME RoomQueueOK, RoomMoves, RoomSnapshot \in RoomStores, InDb \in RoomStores,
         NEW g \in Nat, NEW X, Lasting(X), RoomsSince(g, X), RoomSnapshot \in X
  PROVE  RoomsSince(g, X)'
<1> USE DEF RoomQueueOK
<1>1. QueuedSince(roomQueue, roomGen, g, X) /\ (roomDone >= g => InDb \in X)
  BY DEF RoomsSince
<1>2. CASE UNCHANGED <<joinedDb, homeDb, roomQueueVars>>
  BY <1>1, <1>2 DEF roomQueueVars, RoomsSince, InDb
<1>3. CASE RoomProjection!Project(RoomSnapshot) /\ UNCHANGED <<joinedDb, homeDb>>
  <2>1. QueuedSince(Append(roomQueue, RoomSnapshot), roomGen + 1, g, X)
    BY <1>1, SinceGrows
  <2> QED
    BY <1>1, <1>3, <2>1 DEF RoomProjection!Project, RoomsSince, InDb
<1>4. CASE roomQueue # <<>>
  <2>1. /\ QueuedSince(Tail(roomQueue), roomGen, g, X)
        /\ roomGen - Len(roomQueue) + 1 >= g => Head(roomQueue) \in X
    BY <1>1, <1>4, SinceShrinks
  <2>2. CASE /\ RoomProjection!Persist
             /\ joinedDb' = Head(roomQueue).joined
             /\ homeDb' = [t \in Tenants |->
                  IF Head(roomQueue).home[t] = "NONE" THEN homeDb[t] ELSE Head(roomQueue).home[t]]
    <3>1. InDb' = WrittenOver(Head(roomQueue), InDb)
      BY <2>2 DEF InDb, WrittenOver
    <3>2. Head(roomQueue) \in X => InDb' \in X
      BY <3>1 DEF Lasting
    <3> QED
      BY <2>1, <2>2, <3>2 DEF RoomProjection!Persist, RoomProjection!Done, RoomsSince
  <2>3. CASE RoomProjection!PersistFails /\ UNCHANGED <<joinedDb, homeDb>>
    BY <1>1, <2>1, <2>3 DEF RoomProjection!PersistFails, RoomsSince, InDb
  <2> QED
    BY <1>2, <1>3, <2>2, <2>3 DEF RoomMoves
<1> QED
  BY <1>2, <1>3, <1>4 DEF RoomMoves, RoomProjection!Persist, RoomProjection!PersistFails

(* A wait that ends well: what is true of all since is true of all that is *)
(* queued, and of the database.                                            *)
LEMMA ListingsSaved ==
  ASSUME ListingQueueOK, NEW g \in Nat, NEW X, ListingsSince(g, X),
         ListingProjection!Settled(g), ListingProjection!Saved(g)
  PROVE  ListingsSince(0, X)
<1>1. QueuedSince(listingQueue, listingGen, 0, X)
  BY SinceSettled DEF ListingQueueOK, ListingsSince, ListingProjection!Settled, ListingProjection!Done
<1> QED
  BY <1>1 DEF ListingsSince, ListingProjection!Saved

LEMMA RoomsSaved ==
  ASSUME RoomQueueOK, NEW g \in Nat, NEW X, RoomsSince(g, X),
         RoomProjection!Settled(g), RoomProjection!Saved(g)
  PROVE  RoomsSince(0, X)
<1>1. QueuedSince(roomQueue, roomGen, 0, X)
  BY SinceSettled DEF RoomQueueOK, RoomsSince, RoomProjection!Settled, RoomProjection!Done
<1> QED
  BY <1>1 DEF RoomsSince, RoomProjection!Saved

(***************************************************************************)
(* The last generation of a queue is what the memory holds.                *)
(***************************************************************************)
Covering(rooms) ==
  {s \in RoomStores :
     s.joined = rooms.joined /\ \A t \in Tenants : rooms.home[t] # "NONE" => s.home[t] = rooms.home[t]}

LastIsNow ==
  /\ ListingsSince(listingGen, {listing})
  /\ RoomsSince(roomGen, Covering(InMemoryNow))

LEMMA CoveringLasts ==
  ASSUME NEW r \in RoomStores
  PROVE  Lasting(Covering(r)) /\ r \in Covering(r)
<1>1. r \in Covering(r)
  BY DEF Covering
<1>2. ASSUME NEW s \in Covering(r), NEW o \in RoomStores  PROVE WrittenOver(s, o) \in Covering(r)
  <2>1. s \in RoomStores
    BY DEF Covering
  <2>2. WrittenOver(s, o) \in RoomStores
    BY <2>1 DEF WrittenOver, RoomStores
  <2> QED
    BY <2>2 DEF WrittenOver, Covering
<1> QED
  BY <1>1, <1>2 DEF Lasting

LEMMA LastListingMoves ==
  ASSUME ListingQueueOK, ListingMoves, listing' \in ListingStores, LastIsNow
  PROVE  ListingsSince(listingGen, {listing})'
<1>1. CASE ListingProjection!Project(listing')
  <2>1. QueuedSince(Append(listingQueue, listing'), listingGen + 1, listingGen + 1, {listing'})
    BY SinceGrows DEF ListingQueueOK
  <2>2. ~(listingDone >= listingGen + 1)
    BY LenProperties DEF ListingQueueOK, QueueOK
  <2> QED
    BY <1>1, <2>1, <2>2 DEF ListingProjection!Project, ListingsSince
<1>2. CASE listing' = listing /\ listingGen' = listingGen
  <2>1. PICK g \in Nat : g = listingGen
    BY DEF ListingQueueOK, QueueOK
  <2>2. PICK X : X = {listing}
    OBVIOUS
  <2>3. ListingsSince(g, X) /\ listing' \in X
    BY <1>2, <2>1, <2>2 DEF LastIsNow
  <2>4. ListingsSince(g, X)'
    BY <2>3, ListingsSinceMoves
  <2> QED
    BY <1>2, <2>1, <2>2, <2>4 DEF ListingsSince
<1> QED
  BY <1>1, <1>2 DEF ListingMoves, listingQueueVars, ListingProjection!Persist, ListingProjection!PersistFails

LEMMA LastRoomsMoves ==
  ASSUME RoomQueueOK, RoomMoves, RoomSnapshot \in RoomStores, InDb \in RoomStores, LastIsNow
  PROVE  RoomsSince(roomGen, Covering(InMemoryNow))'
<1>1. CASE RoomProjection!Project(RoomSnapshot)
  <2>1. PICK r \in RoomStores : r = RoomSnapshot
    OBVIOUS
  <2>2. r \in Covering(r)
    BY CoveringLasts
  <2>3. QueuedSince(Append(roomQueue, r), roomGen + 1, roomGen + 1, Covering(r))
    BY <2>2, SinceGrows DEF RoomQueueOK
  <2>4. ~(roomDone >= roomGen + 1)
    BY LenProperties DEF RoomQueueOK, QueueOK
  <2>5. Covering(InMemoryNow)' = Covering(r)
    BY <2>1 DEF InMemoryNow, RoomSnapshot, Covering
  <2> QED
    BY <1>1, <2>1, <2>3, <2>4, <2>5 DEF RoomProjection!Project, RoomsSince
<1>2. CASE joined' = joined /\ home' = home /\ roomGen' = roomGen
  <2>1. PICK g \in Nat : g = roomGen
    BY DEF RoomQueueOK, QueueOK
  <2>2. PICK r \in RoomStores : r = RoomSnapshot
    OBVIOUS
  <2>3. r = InMemoryNow /\ r = InMemoryNow'
    BY <1>2, <2>2 DEF RoomSnapshot, InMemoryNow
  <2>4. RoomsSince(g, Covering(r))
    BY <2>1, <2>3 DEF LastIsNow
  <2>5. RoomsSince(g, Covering(r))'
    BY <2>2, <2>4, RoomsSinceMoves, CoveringLasts
  <2>6. Covering(InMemoryNow)' = Covering(r)
    BY <2>3 DEF Covering
  <2> QED
    BY <1>2, <2>1, <2>5, <2>6 DEF RoomsSince
<1> QED
  BY <1>1, <1>2 DEF RoomMoves, roomQueueVars, RoomProjection!Persist, RoomProjection!PersistFails

(* So a handler that waits for the last generation waits for what it sees. *)
LEMMA ListingsNow ==
  ASSUME ListingsSince(listingGen, {listing})', NEW X, listing' \in X, NEW g, g = listingGen'
  PROVE  ListingsSince(g, X)'
  BY DEF ListingsSince, QueuedSince

LEMMA RoomsNow ==
  ASSUME RoomsSince(roomGen, Covering(InMemoryNow))', NEW X, Covering(InMemoryNow)' \subseteq X,
         NEW g, g = roomGen'
  PROVE  RoomsSince(g, X)'
<1>1. PICK C : C = Covering(InMemoryNow)'
  OBVIOUS
<1>2. RoomsSince(g, C)' /\ C \subseteq X
  BY <1>1 DEF RoomsSince
<1> QED
  BY <1>2 DEF RoomsSince, QueuedSince

(***************************************************************************)
(* What is saved.                                                          *)
(***************************************************************************)
Having(l, statuses) == {s \in ListingStores : s[l] \in statuses}
Lived(c) == {s \in RoomStores : s.joined[c] = "ANALYZING" /\ s.home[TenantOf(c)] = ListingOf(c)}
Without(c, lifecycle) == {s \in RoomStores : s.joined[c] # lifecycle}

NumberedApart ==
  /\ \A c \in Contracts : status[c] \in {"accepted", "terminated"} => acceptedAt[c] > 0
  /\ \A c, d \in Contracts : acceptedAt[c] > 0 /\ acceptedAt[c] = acceptedAt[d] => c = d

BootingAccepted == \A c \in booting : status[c] = "accepted"

(* The listing of an accepted contract is taken, or deleted.               *)
ListingHeld(c, g) ==
  /\ listing[ListingOf(c)] # "OPEN"
  /\ listing[ListingOf(c)] = "ABSENT" => listingFile[ListingOf(c)] = "ABSENT"
  /\ ListingsSince(g, Having(ListingOf(c), {"CONTRACTED", "ABSENT"}))
  /\ listing[ListingOf(c)] = "CONTRACTED" => ListingsSince(g, Having(ListingOf(c), {"CONTRACTED"}))

(* The tenant lives by the contract accepted last.                         *)
LastOfTenant(c) == \A d \in Contracts : TenantOf(d) = TenantOf(c) => acceptedAt[d] <= acceptedAt[c]
RoomHeld(c, g) ==
  LastOfTenant(c) =>
    joined[c] = "ANALYZING" /\ home[TenantOf(c)] = ListingOf(c) /\ RoomsSince(g, Lived(c))

ListingFree(c) == IsLatest(c) => listing[ListingOf(c)] # "CONTRACTED"
ListingFreed(c, g) ==
  /\ ListingFree(c)
  /\ IsLatest(c) => ListingsSince(g, Having(ListingOf(c), {"OPEN", "ABSENT"}))
RoomFreed(c, g) == joined[c] # "ANALYZING" /\ RoomsSince(g, Without(c, "ANALYZING"))

NotYetExpired(c) ==
  status[c] # "terminated" => joined[c] # "EXPIRED" /\ RoomsSince(0, Without(c, "EXPIRED"))

(* A listing that is taken though its last contract is terminated was read *)
(* so from the database, before the termination was saved.                 *)
TakenFromDb(c) ==
  status[c] = "terminated" /\ IsLatest(c) =>
    /\ listingFile[ListingOf(c)] = "CONTRACTED" => listing[ListingOf(c)] = "CONTRACTED"
    /\ listing[ListingOf(c)] = "CONTRACTED" => ListingsSince(0, Having(ListingOf(c), {"CONTRACTED"}))

Waits == [at : {"IDLE", "LISTING", "ROOM"}, need : Nat]
HandlersTypeOK ==
  /\ accepting \in [Contracts -> Waits] /\ ending \in [Contracts -> Waits]
  /\ told \in [Contracts -> {"NONE", "ACCEPTED", "ENDED"}]

WasAccepted(c) == accepting[c] # Idle \/ told[c] = "ACCEPTED" => acceptedAt[c] > 0
Accepting(c) ==
  status[c] = "accepted" =>
    /\ \A g \in Nat :
         /\ accepting[c] = At("LISTING", g) => ListingHeld(c, g)
         /\ accepting[c] = At("ROOM", g) => ListingHeld(c, 0) /\ RoomHeld(c, g)
    /\ told[c] = "ACCEPTED" => ListingHeld(c, 0) /\ RoomHeld(c, 0)

IsTerminated(c) == ending[c] # Idle \/ told[c] = "ENDED" => status[c] = "terminated"
Ending(c) ==
  /\ \A g \in Nat :
       /\ ending[c] = At("ROOM", g) => ListingFree(c) /\ RoomFreed(c, g)
       /\ ending[c] = At("LISTING", g) => ListingFreed(c, g) /\ RoomFreed(c, 0)
  /\ told[c] = "ENDED" => ListingFreed(c, 0) /\ RoomFreed(c, 0)

QueuesInv == ListingQueueOK /\ RoomQueueOK /\ LastIsNow
StoresInv == \A c \in Contracts : NotYetExpired(c) /\ TakenFromDb(c)
WaitsInv == \A c \in Contracts : WasAccepted(c) /\ Accepting(c) /\ IsTerminated(c) /\ Ending(c)
SavedInv == QueuesInv /\ NumberedApart /\ BootingAccepted /\ HandlersTypeOK /\ StoresInv /\ WaitsInv

(***************************************************************************)
(* What the steps of a process, but for starting anew, have in common.     *)
(***************************************************************************)
ContractMoves ==
  \A c \in Contracts :
    /\ acceptedAt[c] > 0 => acceptedAt'[c] = acceptedAt[c]
    /\ status[c] = "terminated" => status'[c] = "terminated"
    /\ status[c] = "accepted" => status'[c] \in {"accepted", "terminated"}
    /\ status'[c] = "accepted" => status[c] \in {"proposed", "accepted"}
    /\ status'[c] = "terminated" => status[c] \in {"accepted", "terminated"}

(* A listing is opened when no contract on it is accepted any more, and    *)
(* taken when one is.                                                      *)
ListingChanges ==
  /\ \A l \in Listings :
       /\ listingFile'[l] \in {listingFile[l], listing'[l]}
       /\ listing'[l] # listing[l] => listingFile'[l] = listing'[l]
       /\ listing[l] = "ABSENT" => listing'[l] = "ABSENT"
       /\ listing'[l] = "OPEN" /\ listing[l] # "OPEN" =>
            \A c \in Contracts : ListingOf(c) = l => status'[c] # "accepted"
       /\ listing'[l] = "CONTRACTED" /\ listing[l] # "CONTRACTED" =>
            \E c \in Contracts : ListingOf(c) = l /\ status'[c] = "accepted"
  /\ \A c \in Contracts :
       status'[c] = "terminated" /\ status[c] # "terminated" =>
         listing'[ListingOf(c)] = "OPEN" /\ listingFile'[ListingOf(c)] = "OPEN"

(* A tenant who lives by the contract accepted last goes on to.            *)
RoomChanges ==
  \A c \in Contracts :
    /\ status[c] = "accepted" /\ status'[c] = "accepted" /\ LastOfTenant(c)'
         /\ joined[c] = "ANALYZING" /\ home[TenantOf(c)] = ListingOf(c)
       => joined'[c] = "ANALYZING" /\ home'[TenantOf(c)] = ListingOf(c)
    /\ joined'[c] = "EXPIRED" /\ joined[c] # "EXPIRED" => status'[c] = "terminated"
    /\ joined'[c] = "ANALYZING" /\ joined[c] # "ANALYZING" => status[c] = "accepted"

Usual ==
  /\ ContractMoves /\ ListingChanges /\ RoomChanges
  /\ ListingMoves /\ RoomMoves
  /\ NumberedApart' /\ BootingAccepted'

LEMMA ContractsUnchanged ==
  ASSUME NumberedApart, BootingAccepted, UNCHANGED contractVars, booting' \subseteq booting
  PROVE  ContractMoves /\ NumberedApart' /\ BootingAccepted'
  BY DEF contractVars, ContractMoves, NumberedApart, BootingAccepted

LEMMA ListingsUnchanged ==
  ASSUME UNCHANGED listing, listingFile' \in {listingFile, listing},
         \A c \in Contracts : status'[c] = "terminated" => status[c] = "terminated"
  PROVE  ListingChanges
  BY ListingOfIsListing DEF ListingChanges

LEMMA RoomsUnchanged ==
  ASSUME UNCHANGED roomVars
  PROVE  RoomChanges
  BY DEF roomVars, RoomChanges

(* A proposal or its end.                                                  *)
LEMMA ProposalUsual ==
  ASSUME TradeInv, SavedInv, NEW c \in Contracts, NEW s \in {"proposed", "declined", "cancelled"},
         status[c] \in {"NONE", "proposed"}, status' = [status EXCEPT ![c] = s],
         up, listingFile' = listing,
         UNCHANGED <<acceptedAt, listing, roomVars, dbVars, listingQueueVars, roomQueueVars, processVars>>
  PROVE  Usual
<1>1. status'[c] = s /\ \A d \in Contracts \ {c} : status'[d] = status[d]
  BY DEF TradeInv, ContractInv, ContractTypeOK
<1>2. ContractMoves
  BY <1>1 DEF ContractMoves
<1>3. NumberedApart'
  BY <1>1 DEF SavedInv, NumberedApart
<1>4. BootingAccepted'
  BY DEF TradeInv, ContractInv, NotOffered, BootingAccepted, processVars
<1>5. ListingChanges
  BY <1>1, ListingsUnchanged
<1>6. RoomChanges
  BY RoomsUnchanged
<1>7. ListingMoves /\ RoomMoves
  BY DEF ListingMoves, RoomMoves, dbVars, roomVars
<1> QED
  BY <1>2, <1>3, <1>4, <1>5, <1>6, <1>7 DEF Usual

(* Steps that touch neither contracts nor the memory.                      *)
LEMMA MemoryUsual ==
  ASSUME SavedInv, UNCHANGED <<contractVars, listingVars, roomVars>>, booting' \subseteq booting,
         ListingMoves, RoomMoves
  PROVE  Usual
<1>1. ContractMoves /\ NumberedApart' /\ BootingAccepted'
  BY ContractsUnchanged DEF SavedInv
<1>2. ListingChanges
  BY ListingsUnchanged DEF listingVars, contractVars
<1>3. RoomChanges
  BY RoomsUnchanged
<1> QED
  BY <1>1, <1>2, <1>3 DEF Usual

LEMMA PersistUsual ==
  ASSUME SavedInv, PersistListings \/ PersistRooms \/ ProjectionFails
  PROVE  Usual
<1>1. UNCHANGED <<contractVars, listingVars, roomVars>> /\ booting' = booting
  BY DEF PersistListings, PersistRooms, ProjectionFails, processVars
<1>2. ListingMoves
  BY DEF PersistListings, PersistRooms, ProjectionFails, ListingMoves, listingVars, dbVars
<1>3. RoomMoves
  BY DEF PersistListings, PersistRooms, ProjectionFails, RoomMoves, roomVars, dbVars
<1> QED
  BY <1>1, <1>2, <1>3, MemoryUsual

LEMMA StandingUsual ==
  ASSUME SavedInv, booting' \subseteq booting,
         UNCHANGED <<contractVars, listingVars, roomVars, dbVars, listingQueueVars, roomQueueVars>>
  PROVE  Usual
  BY MemoryUsual DEF ListingMoves, RoomMoves, listingVars, roomVars, dbVars

(* A listing is edited or deleted.                                         *)
LEMMA EditUsual ==
  ASSUME TradeInv, SavedInv, NEW l \in Listings, UpdateListing(l) \/ DeleteListing(l)
  PROVE  Usual
<1>1. PICK s \in {listing[l], "ABSENT"} : SaveListing(l, s)
  BY DEF UpdateListing, DeleteListing
<1>2. listing[l] # "ABSENT" /\ UNCHANGED <<contractVars, roomVars, dbVars, roomQueueVars, handlerVars, processVars>>
  BY DEF UpdateListing, DeleteListing
<1>3. s \in {"OPEN", "CONTRACTED", "ABSENT"}
  BY <1>1 DEF TradeInv, ContractInv, ContractTypeOK, ListingStores
<1>4. listing'[l] = s /\ listingFile' = listing' /\ \A k \in Listings \ {l} : listing'[k] = listing[k]
  BY <1>1, <1>3, SaveEffect DEF TradeInv, ContractInv
<1>5. ContractMoves /\ NumberedApart' /\ BootingAccepted'
  BY <1>2, ContractsUnchanged DEF SavedInv, processVars
<1>6. ListingChanges
  BY <1>1, <1>2, <1>4 DEF ListingChanges, contractVars
<1>7. RoomChanges
  BY <1>2, RoomsUnchanged
<1>8. ListingMoves /\ RoomMoves
  BY <1>1, <1>2 DEF SaveListing, ListingMoves, RoomMoves, dbVars, roomVars
<1> QED
  BY <1>5, <1>6, <1>7, <1>8 DEF Usual

(* A contract is accepted, or an accepted one is told to be so once more.  *)
LEMMA EnsureListingMoves ==
  ASSUME TradeInv, NEW c \in Contracts, status[c] = "accepted", EnsureAcceptedListing(c),
         UNCHANGED <<status, listingDb>>
  PROVE  ListingMoves /\ ListingChanges
<1> USE ListingOfIsListing
<1>1. listing[ListingOf(c)] # "ABSENT" /\ ContractTypeOK
  BY DEF EnsureAcceptedListing, TradeInv, ContractInv
<1>2. CASE SaveListing(ListingOf(c), "CONTRACTED")
  <2>1. /\ listing'[ListingOf(c)] = "CONTRACTED" /\ listingFile' = listing'
        /\ \A k \in Listings \ {ListingOf(c)} : listing'[k] = listing[k]
    BY <1>1, <1>2, SaveEffect
  <2>2. ListingChanges
    BY <1>1, <2>1 DEF ListingChanges
  <2> QED
    BY <1>2, <2>2 DEF SaveListing, ListingMoves
<1>3. CASE ListingProjection!Project(listing) /\ UNCHANGED listingVars
  <2>1. ListingChanges
    BY <1>3, ListingsUnchanged DEF listingVars
  <2> QED
    BY <1>3, <2>1 DEF listingVars, ListingMoves
<1>4. CASE ListingUnchanged
  <2>1. ListingChanges
    BY <1>4, ListingsUnchanged DEF ListingUnchanged, listingVars
  <2> QED
    BY <1>4, <2>1 DEF ListingUnchanged, listingVars, ListingMoves
<1> QED
  BY <1>2, <1>3, <1>4 DEF EnsureAcceptedListing

LEMMA RespondUsual ==
  ASSUME TradeInv, SavedInv, NEW c \in Contracts, RespondContract(c)
  PROVE  Usual
<1> USE ListingOfIsListing
<1>1. up /\ UNCHANGED <<roomVars, dbVars, roomQueueVars, booting>>
  BY DEF RespondContract, processVars
<1>2. RoomChanges /\ RoomMoves
  BY <1>1, RoomsUnchanged DEF RoomMoves, roomVars, dbVars
<1>3. CASE /\ status[c] = "proposed"
           /\ listing[ListingOf(c)] # "ABSENT"
           /\ status' = [status EXCEPT ![c] = "accepted"]
           /\ acceptedAt' = [acceptedAt EXCEPT ![c] = 1 + Cardinality({d \in Contracts : acceptedAt[d] > 0})]
           /\ SaveListing(ListingOf(c), "CONTRACTED")
  <2>1. status'[c] = "accepted" /\ \A d \in Contracts \ {c} : status'[d] = status[d]
    BY <1>3 DEF TradeInv, ContractInv, ContractTypeOK
  <2>2. PICK n : n = Cardinality(Taken)
    OBVIOUS
  <2>3. n \in Nat /\ \A d \in Contracts : acceptedAt[d] \in Nat /\ acceptedAt[d] <= n
    BY <2>2, FS_CardinalityType DEF TradeInv, ContractInv, ContractTypeOK, NumberedInOrder
  <2>4. acceptedAt'[c] = 1 + n /\ \A d \in Contracts \ {c} : acceptedAt'[d] = acceptedAt[d]
    BY <1>3, <2>2 DEF TradeInv, ContractInv, ContractTypeOK, Taken
  <2>5. acceptedAt[c] = 0
    BY <1>3, <2>3 DEF TradeInv, ContractInv, NumberedInOrder
  <2>6. ContractMoves
    BY <1>3, <2>1, <2>4, <2>5 DEF ContractMoves
  <2>7. NumberedApart'
    <3>1. \A d \in Contracts : status'[d] \in {"accepted", "terminated"} => acceptedAt'[d] > 0
      BY <2>1, <2>3, <2>4 DEF SavedInv, NumberedApart
    <3>2. \A d, e \in Contracts : acceptedAt'[d] > 0 /\ acceptedAt'[d] = acceptedAt'[e] => d = e
      BY <2>3, <2>4 DEF SavedInv, NumberedApart
    <3> QED
      BY <3>1, <3>2 DEF NumberedApart
  <2>8. BootingAccepted'
    BY <1>1, <2>1 DEF SavedInv, BootingAccepted, TradeInv, ContractInv, NotOffered
  <2>9. /\ listing'[ListingOf(c)] = "CONTRACTED" /\ listingFile' = listing'
        /\ \A k \in Listings \ {ListingOf(c)} : listing'[k] = listing[k]
    BY <1>3, SaveEffect DEF TradeInv, ContractInv
  <2>10. ListingChanges
    BY <1>3, <2>1, <2>9 DEF ListingChanges
  <2>11. ListingMoves
    BY <1>1, <1>3 DEF SaveListing, ListingMoves, dbVars
  <2> QED
    BY <1>2, <2>6, <2>7, <2>8, <2>10, <2>11 DEF Usual
<1>4. CASE status[c] = "accepted" /\ EnsureAcceptedListing(c) /\ UNCHANGED contractVars
  <2>1. ListingMoves /\ ListingChanges
    BY <1>1, <1>4, EnsureListingMoves DEF contractVars, dbVars
  <2>2. ContractMoves /\ NumberedApart' /\ BootingAccepted'
    BY <1>1, <1>4, ContractsUnchanged DEF SavedInv
  <2> QED
    BY <1>2, <2>1, <2>2 DEF Usual
<1> QED
  BY <1>3, <1>4 DEF RespondContract

LEMMA BootEnsureUsual ==
  ASSUME TradeInv, SavedInv, NEW c \in Contracts, BootEnsure(c)
  PROVE  Usual
<1>1. c \in booting /\ booting' \subseteq booting /\ UNCHANGED <<contractVars, roomVars, dbVars, roomQueueVars>>
  BY DEF BootEnsure
<1>2. status[c] = "accepted"
  BY <1>1 DEF SavedInv, BootingAccepted
<1>3. CASE ListingUnchanged
  BY <1>1, <1>3, StandingUsual DEF ListingUnchanged
<1>4. CASE EnsureAcceptedListing(c)
  <2>1. ListingMoves /\ ListingChanges
    BY <1>1, <1>2, <1>4, EnsureListingMoves DEF contractVars, dbVars
  <2>2. ContractMoves /\ NumberedApart' /\ BootingAccepted'
    BY <1>1, ContractsUnchanged DEF SavedInv
  <2>3. RoomChanges /\ RoomMoves
    BY <1>1, RoomsUnchanged DEF RoomMoves, roomVars, dbVars
  <2> QED
    BY <2>1, <2>2, <2>3 DEF Usual
<1> QED
  BY <1>3, <1>4 DEF BootEnsure

(* The contract accepted last is not joined again, nor is the room of an   *)
(* older one given to its tenant.                                          *)
LEMMA EnsureUsual ==
  ASSUME TradeInv, SavedInv, NEW c \in Contracts, Ensure(c)
  PROVE  Usual
<1>1. /\ UNCHANGED <<contractVars, listingVars, dbVars, listingQueueVars, booting>>
  BY DEF Ensure, processVars
<1>2. CASE UNCHANGED <<roomVars, roomQueueVars>>
  BY <1>1, <1>2, StandingUsual
<1>3. CASE status[c] = "accepted" /\ ConnectAcceptedTradeContract(c)
  <2> DEFINE moves == ~NewerHome(c) /\ (joined[c] = "NONE" \/ home[TenantOf(c)] # ListingOf(c))
  <2>1. PICK joins \in BOOLEAN :
          /\ NewerHome(c) => ~joins
          /\ joined' = IF joins /\ joined[c] = "NONE" THEN [joined EXCEPT ![c] = "ANALYZING"] ELSE joined
          /\ home' = IF joins THEN [home EXCEPT ![TenantOf(c)] = ListingOf(c)] ELSE home
          /\ SaveRooms(joins)
    <3>1. /\ moves \in BOOLEAN /\ (NewerHome(c) => ~moves)
          /\ joined' = IF moves /\ joined[c] = "NONE" THEN [joined EXCEPT ![c] = "ANALYZING"] ELSE joined
          /\ home' = IF moves THEN [home EXCEPT ![TenantOf(c)] = ListingOf(c)] ELSE home
          /\ SaveRooms(moves)
      BY <1>3 DEF ConnectAcceptedTradeContract
    <3> HIDE DEF moves
    <3> QED
      BY <3>1
  <2>2. joined \in [Contracts -> {"NONE", "ANALYZING", "EXPIRED"}] /\ home \in [Tenants -> Listings \union {"NONE"}]
    BY DEF TradeInv, RoomInv, RoomTypeOK, RoomStores
  <2>3. RoomMoves
    BY <1>1, <2>1 DEF SaveRooms, RoomMoves, dbVars
  <2>4. ASSUME NEW d \in Contracts, status[d] = "accepted", LastOfTenant(d)',
               joined[d] = "ANALYZING", home[TenantOf(d)] = ListingOf(d)
        PROVE  joined'[d] = "ANALYZING" /\ home'[TenantOf(d)] = ListingOf(d)
    <3>1. joined'[d] = "ANALYZING"
      BY <2>1, <2>2, <2>4
    <3>2. CASE TenantOf(d) # TenantOf(c) \/ d = c
      BY <2>1, <2>2, <2>4, <3>1, <3>2
    <3>3. CASE TenantOf(d) = TenantOf(c) /\ d # c
      <4>1. acceptedAt[c] <= acceptedAt[d]
        BY <1>1, <2>4, <3>3 DEF LastOfTenant, contractVars
      <4>2. acceptedAt[d] # acceptedAt[c] /\ acceptedAt[c] \in Nat /\ acceptedAt[d] \in Nat
        BY <1>3, <3>3 DEF SavedInv, NumberedApart, TradeInv, ContractInv, ContractTypeOK
      <4>3. NewerHome(c)
        BY <2>4, <3>3, <4>1, <4>2 DEF NewerHome
      <4> QED
        BY <2>1, <2>4, <3>1, <4>3
    <3> QED
      BY <3>2, <3>3
  <2>5. \A d \in Contracts : joined'[d] # joined[d] => d = c /\ joined'[d] = "ANALYZING"
    BY <2>1, <2>2
  <2>6. RoomChanges
    BY <1>3, <2>4, <2>5 DEF RoomChanges
  <2>7. ContractMoves /\ NumberedApart' /\ BootingAccepted'
    BY <1>1, ContractsUnchanged DEF SavedInv
  <2>8. ListingChanges /\ ListingMoves
    BY <1>1, ListingsUnchanged DEF ListingMoves, listingVars, contractVars, dbVars
  <2> QED
    BY <2>3, <2>6, <2>7, <2>8 DEF Usual
<1> QED
  BY <1>2, <1>3 DEF Ensure

(* A termination leaves a tenant who has accepted a contract since where   *)
(* that one put the tenant.                                                *)
LEMMA TerminateUsual ==
  ASSUME TradeInv, SavedInv, TradeInv', NEW c \in Contracts, TerminateContract(c)
  PROVE  Usual
<1> USE ListingOfIsListing
<1>1. /\ up /\ listing[ListingOf(c)] # "ABSENT" /\ IsLatest(c)
      /\ status[c] \in {"accepted", "terminated"} /\ status' = [status EXCEPT ![c] = "terminated"]
      /\ DisconnectAcceptedTradeContract(c)
      /\ UNCHANGED <<acceptedAt, dbVars, booting>>
  BY DEF TerminateContract, IsLatest, Of, processVars
<1>2. status'[c] = "terminated" /\ \A d \in Contracts \ {c} : status'[d] = status[d]
  BY <1>1 DEF TradeInv, ContractInv, ContractTypeOK
<1>3. ContractMoves /\ NumberedApart'
  BY <1>1, <1>2 DEF ContractMoves, SavedInv, NumberedApart
<1>4. BootingAccepted'
  BY <1>1 DEF BootingAccepted, TradeInv, ContractInv, NotOffered
<1>5. ListingMoves /\ ListingChanges
  <2>1. CASE SaveListing(ListingOf(c), "OPEN")
    <3>1. /\ listing'[ListingOf(c)] = "OPEN" /\ listingFile' = listing'
          /\ \A k \in Listings \ {ListingOf(c)} : listing'[k] = listing[k]
      BY <2>1, SaveEffect DEF TradeInv, ContractInv
    <3>2. \A d \in Contracts : ListingOf(d) = ListingOf(c) => status'[d] # "accepted"
      BY <1>1, <3>1 DEF TradeInv, ContractInv, NotOffered
    <3>3. ListingChanges
      BY <1>1, <1>2, <3>1, <3>2 DEF ListingChanges
    <3> QED
      BY <1>1, <2>1, <3>3 DEF SaveListing, ListingMoves, dbVars
  <2>2. CASE status[c] # "accepted" /\ ListingUnchanged
    <3>1. ListingChanges
      BY <1>1, <1>2, <2>2, ListingsUnchanged DEF ListingUnchanged, listingVars
    <3> QED
      BY <1>1, <2>2, <3>1 DEF ListingUnchanged, listingVars, ListingMoves, dbVars
  <2> QED
    BY <2>1, <2>2 DEF TerminateContract
<1>6. PICK lives \in BOOLEAN :
        /\ lives <=> joined[c] # "NONE" /\ home[TenantOf(c)] = ListingOf(c)
        /\ joined' = IF joined[c] = "ANALYZING" THEN [joined EXCEPT ![c] = "EXPIRED"] ELSE joined
        /\ lives => \E h : home' = [home EXCEPT ![TenantOf(c)] = h]
        /\ ~lives => UNCHANGED home
        /\ SaveRooms(lives \/ joined[c] = "ANALYZING")
  BY <1>1 DEF DisconnectAcceptedTradeContract
<1>7. joined \in [Contracts -> {"NONE", "ANALYZING", "EXPIRED"}] /\ home \in [Tenants -> Listings \union {"NONE"}]
  BY DEF TradeInv, RoomInv, RoomTypeOK, RoomStores
<1>8. RoomMoves
  BY <1>1, <1>6 DEF SaveRooms, RoomMoves, dbVars
<1>9. ASSUME NEW d \in Contracts, status'[d] = "accepted", LastOfTenant(d)',
             joined[d] = "ANALYZING", home[TenantOf(d)] = ListingOf(d)
      PROVE  joined'[d] = "ANALYZING" /\ home'[TenantOf(d)] = ListingOf(d)
  <2>1. d # c /\ status[d] = "accepted"
    BY <1>2, <1>9
  <2>2. joined'[d] = "ANALYZING"
    BY <1>6, <1>7, <1>9, <2>1
  <2>3. CASE TenantOf(d) = TenantOf(c) /\ lives
    <3>1. ListingOf(d) = ListingOf(c)
      BY <1>6, <1>9, <2>3
    <3>2. acceptedAt[d] <= acceptedAt[c]
      BY <1>1, <2>1, <3>1 DEF IsLatest, Of
    <3>3. acceptedAt[c] <= acceptedAt[d]
      BY <1>1, <1>9, <2>3 DEF LastOfTenant
    <3>4. acceptedAt[c] \in Nat /\ acceptedAt[d] \in Nat /\ acceptedAt[d] > 0
      BY <2>1 DEF SavedInv, NumberedApart, TradeInv, ContractInv, ContractTypeOK
    <3> QED
      BY <2>1, <3>2, <3>3, <3>4 DEF SavedInv, NumberedApart
  <2>4. CASE TenantOf(d) # TenantOf(c) \/ ~lives
    BY <1>6, <1>7, <1>9, <2>2, <2>4
  <2> QED
    BY <2>3, <2>4
<1>10. \A d \in Contracts : joined'[d] # joined[d] => d = c /\ joined'[d] = "EXPIRED"
  BY <1>6, <1>7
<1>11. RoomChanges
  BY <1>2, <1>9, <1>10 DEF RoomChanges
<1> QED
  BY <1>3, <1>4, <1>5, <1>8, <1>11 DEF Usual

(***************************************************************************)
(* What such a step keeps.                                                 *)
(***************************************************************************)
Going == TradeInv /\ SavedInv /\ TradeInv' /\ Usual

LEMMA SetsLast ==
  \A c \in Contracts :
    /\ Lasting(Lived(c))
    /\ \A lifecycle : Lasting(Without(c, lifecycle))
<1> SUFFICES ASSUME NEW c \in Contracts
             PROVE  Lasting(Lived(c)) /\ \A lifecycle : Lasting(Without(c, lifecycle))
  OBVIOUS
<1>1. TenantOf(c) \in Tenants /\ ListingOf(c) # "NONE"
  BY ListingOfIsListing, ListingsAssumption
<1>2. ASSUME NEW s \in RoomStores, NEW o \in RoomStores
      PROVE  /\ WrittenOver(s, o) \in RoomStores /\ WrittenOver(s, o).joined = s.joined
             /\ \A t \in Tenants : s.home[t] # "NONE" => WrittenOver(s, o).home[t] = s.home[t]
  BY DEF WrittenOver, RoomStores
<1>3. Lasting(Lived(c))
  BY <1>1, <1>2 DEF Lasting, Lived
<1>4. ASSUME NEW lifecycle  PROVE Lasting(Without(c, lifecycle))
  BY <1>2 DEF Lasting, Without
<1> QED
  BY <1>3, <1>4

LEMMA MovesTyped ==
  ASSUME Going
  PROVE  /\ listing' \in ListingStores /\ RoomSnapshot \in RoomStores /\ InDb \in RoomStores
         /\ ListingQueueOK /\ RoomQueueOK /\ ListingMoves /\ RoomMoves
  BY DEF Going, TradeInv, ContractInv, ContractTypeOK, RoomInv, RoomTypeOK, RoomSnapshot, InDb,
     SavedInv, QueuesInv, Usual

LEMMA QueuesKept ==
  ASSUME Going
  PROVE  QueuesInv'
<1>1. ListingQueueOK' /\ RoomQueueOK'
  BY MovesTyped, ListingQueueMoves, RoomQueueMoves
<1>2. ListingsSince(listingGen, {listing})' /\ RoomsSince(roomGen, Covering(InMemoryNow))'
  BY MovesTyped, LastListingMoves, LastRoomsMoves DEF Going, SavedInv, QueuesInv
<1> QED
  BY <1>1, <1>2 DEF QueuesInv, LastIsNow

LEMMA LastOfTenantKept ==
  ASSUME Going, NEW c \in Contracts, LastOfTenant(c)'
  PROVE  acceptedAt[c] > 0 => LastOfTenant(c)
<1>1. \A d \in Contracts : acceptedAt[d] \in Nat /\ (acceptedAt[d] > 0 => acceptedAt'[d] = acceptedAt[d])
  BY DEF Going, TradeInv, ContractInv, ContractTypeOK, Usual, ContractMoves
<1> QED
  BY <1>1 DEF LastOfTenant

LEMMA LatestKept ==
  ASSUME Going, NEW c \in Contracts, status[c] = "terminated", IsLatest(c)'
  PROVE  IsLatest(c)
<1>1. \A d \in Contracts :
        /\ status[d] \in {"accepted", "terminated"} => status'[d] \in {"accepted", "terminated"}
        /\ status[d] \in {"accepted", "terminated"} => acceptedAt'[d] = acceptedAt[d]
  BY DEF Going, SavedInv, NumberedApart, Usual, ContractMoves
<1> QED
  BY <1>1 DEF IsLatest, Of

(* The listing of the latest contract, if that is terminated, is not taken *)
(* by another one.                                                         *)
LEMMA FreeKept ==
  ASSUME Going, NEW c \in Contracts, status[c] = "terminated", IsLatest(c)',
         listing'[ListingOf(c)] = "CONTRACTED"
  PROVE  listing[ListingOf(c)] = "CONTRACTED"
<1> SUFFICES ASSUME listing[ListingOf(c)] # "CONTRACTED"  PROVE FALSE
  OBVIOUS
<1>1. PICK d \in Contracts : ListingOf(d) = ListingOf(c) /\ status'[d] = "accepted"
  BY ListingOfIsListing DEF Going, Usual, ListingChanges
<1>2. status'[c] = "terminated"
  BY DEF Going, Usual, ContractMoves
<1>3. acceptedAt'[c] < acceptedAt'[d]
  BY <1>1, <1>2 DEF Going, TradeInv, ContractInv, NumberedInOrder
<1>4. acceptedAt'[d] <= acceptedAt'[c]
  BY <1>1 DEF IsLatest, Of
<1>5. acceptedAt'[c] \in Nat /\ acceptedAt'[d] \in Nat
  BY DEF Going, TradeInv, ContractInv, ContractTypeOK
<1> QED
  BY <1>3, <1>4, <1>5

LEMMA ListingHeldKept ==
  ASSUME Going, NEW c \in Contracts, NEW g \in Nat,
         status[c] = "accepted", status'[c] = "accepted", ListingHeld(c, g)
  PROVE  ListingHeld(c, g)'
<1> DEFINE l == ListingOf(c)
<1>1. l \in Listings
  BY ListingOfIsListing
<1>2. listing[l] \in {"CONTRACTED", "ABSENT"}
  BY <1>1 DEF Going, TradeInv, ContractInv, ContractTypeOK, ListingStores, ListingHeld
<1>3. /\ listing'[l] # "OPEN" /\ listing'[l] \in {"CONTRACTED", "ABSENT"}
      /\ listing[l] = "ABSENT" => listing'[l] = "ABSENT"
  BY <1>1, <1>2, MovesTyped DEF Going, Usual, ListingChanges, ListingStores
<1>4. listing'[l] = "ABSENT" => listingFile'[l] = "ABSENT"
  BY <1>1 DEF Going, Usual, ListingChanges, ListingHeld
<1>5. ListingsSince(g, Having(l, {"CONTRACTED", "ABSENT"}))'
  <2>1. listing' \in Having(l, {"CONTRACTED", "ABSENT"})
    BY <1>3, MovesTyped DEF Having
  <2> QED
    BY <2>1, MovesTyped, ListingsSinceMoves DEF ListingHeld
<1>6. ASSUME listing'[l] = "CONTRACTED"  PROVE ListingsSince(g, Having(l, {"CONTRACTED"}))'
  <2>1. listing' \in Having(l, {"CONTRACTED"})
    BY <1>6, MovesTyped DEF Having
  <2>2. ListingsSince(g, Having(l, {"CONTRACTED"}))
    BY <1>2, <1>3, <1>6 DEF ListingHeld
  <2> QED
    BY <2>1, <2>2, MovesTyped, ListingsSinceMoves
<1> QED
  BY <1>3, <1>4, <1>5, <1>6 DEF ListingHeld

LEMMA RoomHeldKept ==
  ASSUME Going, NEW c \in Contracts, NEW g \in Nat,
         status[c] = "accepted", status'[c] = "accepted", RoomHeld(c, g)
  PROVE  RoomHeld(c, g)'
<1> SUFFICES ASSUME LastOfTenant(c)'
             PROVE  joined'[c] = "ANALYZING" /\ home'[TenantOf(c)] = ListingOf(c) /\ RoomsSince(g, Lived(c))'
  BY DEF RoomHeld
<1>1. LastOfTenant(c)
  BY LastOfTenantKept DEF Going, SavedInv, NumberedApart
<1>2. joined'[c] = "ANALYZING" /\ home'[TenantOf(c)] = ListingOf(c)
  BY <1>1 DEF RoomHeld, Going, Usual, RoomChanges
<1>3. RoomSnapshot \in Lived(c)
  BY <1>2, MovesTyped DEF RoomSnapshot, Lived
<1> QED
  BY <1>1, <1>2, <1>3, MovesTyped, SetsLast, RoomsSinceMoves DEF RoomHeld

LEMMA RoomFreedKept ==
  ASSUME Going, NEW c \in Contracts, NEW g \in Nat, status[c] = "terminated", RoomFreed(c, g)
  PROVE  RoomFreed(c, g)'
<1>1. joined'[c] # "ANALYZING"
  BY DEF RoomFreed, Going, Usual, RoomChanges
<1>2. RoomSnapshot \in Without(c, "ANALYZING")
  BY <1>1, MovesTyped DEF RoomSnapshot, Without
<1> QED
  BY <1>1, <1>2, MovesTyped, SetsLast, RoomsSinceMoves DEF RoomFreed

LEMMA ListingFreeKept ==
  ASSUME Going, NEW c \in Contracts, status[c] = "terminated", ListingFree(c)
  PROVE  ListingFree(c)'
<1> SUFFICES ASSUME IsLatest(c)'  PROVE listing'[ListingOf(c)] # "CONTRACTED"
  BY DEF ListingFree
<1> QED
  BY LatestKept, FreeKept DEF ListingFree

LEMMA ListingFreedKept ==
  ASSUME Going, NEW c \in Contracts, NEW g \in Nat, status[c] = "terminated", ListingFreed(c, g)
  PROVE  ListingFreed(c, g)'
<1>1. ListingFree(c)'
  BY ListingFreeKept DEF ListingFreed
<1>2. ASSUME IsLatest(c)'  PROVE ListingsSince(g, Having(ListingOf(c), {"OPEN", "ABSENT"}))'
  <2>1. IsLatest(c)
    BY <1>2, LatestKept
  <2>2. listing'[ListingOf(c)] \in {"OPEN", "ABSENT"}
    BY <1>1, <1>2, MovesTyped, ListingOfIsListing DEF ListingFree, ListingStores
  <2>3. listing' \in Having(ListingOf(c), {"OPEN", "ABSENT"})
    BY <2>2, MovesTyped DEF Having
  <2> QED
    BY <2>1, <2>3, MovesTyped, ListingsSinceMoves DEF ListingFreed
<1> QED
  BY <1>1, <1>2 DEF ListingFreed

LEMMA StoresKept ==
  ASSUME Going
  PROVE  StoresInv'
<1>1. ASSUME NEW c \in Contracts  PROVE NotYetExpired(c)'
  <2> SUFFICES ASSUME status'[c] # "terminated"
               PROVE  joined'[c] # "EXPIRED" /\ RoomsSince(0, Without(c, "EXPIRED"))'
    BY DEF NotYetExpired
  <2>1. joined[c] # "EXPIRED" /\ RoomsSince(0, Without(c, "EXPIRED"))
    BY DEF Going, SavedInv, StoresInv, NotYetExpired, Usual, ContractMoves
  <2>2. joined'[c] # "EXPIRED"
    BY <2>1 DEF Going, Usual, RoomChanges
  <2>3. RoomSnapshot \in Without(c, "EXPIRED")
    BY <2>2, MovesTyped DEF RoomSnapshot, Without
  <2> QED
    BY <2>1, <2>2, <2>3, MovesTyped, SetsLast, RoomsSinceMoves
<1>2. ASSUME NEW c \in Contracts  PROVE TakenFromDb(c)'
  <2> DEFINE l == ListingOf(c)
  <2> SUFFICES ASSUME status'[c] = "terminated", IsLatest(c)'
               PROVE  /\ listingFile'[l] = "CONTRACTED" => listing'[l] = "CONTRACTED"
                      /\ listing'[l] = "CONTRACTED" => ListingsSince(0, Having(l, {"CONTRACTED"}))'
    BY DEF TakenFromDb
  <2>1. CASE status[c] # "terminated"
    BY <2>1 DEF Going, Usual, ListingChanges
  <2>2. CASE status[c] = "terminated"
    <3>1. /\ listingFile[l] = "CONTRACTED" => listing[l] = "CONTRACTED"
          /\ listing[l] = "CONTRACTED" => ListingsSince(0, Having(l, {"CONTRACTED"}))
      BY <2>2, LatestKept DEF Going, SavedInv, StoresInv, TakenFromDb
    <3>2. listingFile'[l] = "CONTRACTED" => listing'[l] = "CONTRACTED"
      BY <3>1, ListingOfIsListing DEF Going, Usual, ListingChanges
    <3>3. ASSUME listing'[l] = "CONTRACTED"  PROVE ListingsSince(0, Having(l, {"CONTRACTED"}))'
      <4>1. ListingsSince(0, Having(l, {"CONTRACTED"}))
        BY <2>2, <3>1, <3>3, FreeKept
      <4>2. listing' \in Having(l, {"CONTRACTED"})
        BY <3>3, MovesTyped DEF Having
      <4> QED
        BY <4>1, <4>2, MovesTyped, ListingsSinceMoves
    <3> QED
      BY <3>2, <3>3
  <2> QED
    BY <2>1, <2>2
<1> QED
  BY <1>1, <1>2 DEF StoresInv

(* A contract whose own handlers do not move.                              *)
WaitInv(c) == WasAccepted(c) /\ Accepting(c) /\ IsTerminated(c) /\ Ending(c)

LEMMA AcceptingKept ==
  ASSUME Going, NEW c \in Contracts, accepting'[c] = accepting[c], told'[c] = told[c]
  PROVE  WasAccepted(c)' /\ Accepting(c)'
<1>1. WasAccepted(c) /\ Accepting(c) /\ acceptedAt[c] \in Nat
  BY DEF Going, SavedInv, WaitsInv, TradeInv, ContractInv, ContractTypeOK
<1>2. WasAccepted(c)'
  BY <1>1 DEF WasAccepted, Idle, Going, Usual, ContractMoves
<1>3. ASSUME status'[c] = "accepted", accepting[c] # Idle \/ told[c] = "ACCEPTED"
      PROVE  status[c] = "accepted"
  <2>1. acceptedAt[c] > 0
    BY <1>1, <1>3 DEF WasAccepted
  <2>2. status[c] \in {"accepted", "terminated"}
    BY <2>1 DEF Going, TradeInv, ContractInv, NumberedInOrder
  <2> QED
    BY <1>3, <2>2 DEF Going, Usual, ContractMoves
<1>4. ASSUME NEW g \in Nat, status'[c] = "accepted"
      PROVE  /\ accepting[c] = At("LISTING", g) => ListingHeld(c, g)'
             /\ accepting[c] = At("ROOM", g) => ListingHeld(c, 0)' /\ RoomHeld(c, g)'
  <2>1. CASE accepting[c] = At("LISTING", g)
    <3>1. accepting[c] # Idle
      BY <2>1 DEF At, Idle
    <3>2. status[c] = "accepted" /\ ListingHeld(c, g)
      BY <1>1, <1>3, <1>4, <2>1, <3>1 DEF Accepting
    <3>3. accepting[c] # At("ROOM", g)
      BY <2>1 DEF At
    <3> QED
      BY <1>4, <3>2, <3>3, ListingHeldKept
  <2>2. CASE accepting[c] = At("ROOM", g)
    <3>1. accepting[c] # Idle
      BY <2>2 DEF At, Idle
    <3>2. status[c] = "accepted" /\ ListingHeld(c, 0) /\ RoomHeld(c, g)
      BY <1>1, <1>3, <1>4, <2>2, <3>1 DEF Accepting
    <3>3. accepting[c] # At("LISTING", g)
      BY <2>2 DEF At
    <3> QED
      BY <1>4, <3>2, <3>3, ListingHeldKept, RoomHeldKept
  <2> QED
    BY <2>1, <2>2
<1>5. ASSUME status'[c] = "accepted", told[c] = "ACCEPTED"
      PROVE  ListingHeld(c, 0)' /\ RoomHeld(c, 0)'
  <2>1. status[c] = "accepted" /\ ListingHeld(c, 0) /\ RoomHeld(c, 0)
    BY <1>1, <1>3, <1>5 DEF Accepting
  <2> QED
    BY <1>5, <2>1, ListingHeldKept, RoomHeldKept
<1> QED
  BY <1>2, <1>4, <1>5 DEF Accepting, At

LEMMA EndingKept ==
  ASSUME Going, NEW c \in Contracts, ending'[c] = ending[c], told'[c] = told[c]
  PROVE  IsTerminated(c)' /\ Ending(c)'
<1>1. IsTerminated(c) /\ Ending(c)
  BY DEF Going, SavedInv, WaitsInv
<1>2. IsTerminated(c)'
  BY <1>1 DEF IsTerminated, Idle, Going, Usual, ContractMoves
<1>3. ASSUME NEW g \in Nat
      PROVE  /\ ending[c] = At("ROOM", g) => ListingFree(c)' /\ RoomFreed(c, g)'
             /\ ending[c] = At("LISTING", g) => ListingFreed(c, g)' /\ RoomFreed(c, 0)'
  <2>1. CASE ending[c] = Idle
    BY <2>1 DEF Idle, At
  <2>2. CASE ending[c] # Idle
    <3>1. status[c] = "terminated"
      BY <1>1, <2>2 DEF IsTerminated
    <3> QED
      BY <1>1, <3>1, ListingFreeKept, ListingFreedKept, RoomFreedKept DEF Ending
  <2> QED
    BY <2>1, <2>2
<1>4. ASSUME told[c] = "ENDED"  PROVE ListingFreed(c, 0)' /\ RoomFreed(c, 0)'
  BY <1>1, <1>4, ListingFreedKept, RoomFreedKept DEF IsTerminated, Ending
<1> QED
  BY <1>2, <1>3, <1>4 DEF Ending, At

LEMMA SavedKept ==
  ASSUME Going, HandlersTypeOK', \A c \in Contracts : WaitInv(c)'
  PROVE  SavedInv'
<1>1. QueuesInv' /\ StoresInv'
  BY QueuesKept, StoresKept
<1>2. WaitsInv'
  BY DEF WaitsInv, WaitInv
<1> QED
  BY <1>1, <1>2 DEF SavedInv, Going, Usual

(***************************************************************************)
(* The handlers.                                                           *)
(***************************************************************************)
LEMMA WaitsStand ==
  ASSUME Going, NEW c \in Contracts, UNCHANGED <<accepting[c], ending[c], told[c]>>
  PROVE  WaitInv(c)'
  BY AcceptingKept, EndingKept DEF WaitInv

LEMMA HandlersStand ==
  ASSUME Going, UNCHANGED handlerVars
  PROVE  SavedInv'
<1>1. HandlersTypeOK'
  BY DEF Going, SavedInv, HandlersTypeOK, handlerVars
<1>2. \A c \in Contracts : WaitInv(c)'
  BY WaitsStand DEF handlerVars
<1> QED
  BY <1>1, <1>2, SavedKept

(* Only the handlers of one contract move, and its own invariant is shown. *)
LEMMA OneMoves ==
  ASSUME Going, NEW c \in Contracts, NEW a \in Waits, NEW e \in Waits, NEW r \in {"NONE", "ACCEPTED", "ENDED"},
         accepting' = [accepting EXCEPT ![c] = a], ending' = [ending EXCEPT ![c] = e],
         told' = [told EXCEPT ![c] = r], WaitInv(c)'
  PROVE  SavedInv'
<1>1. HandlersTypeOK
  BY DEF Going, SavedInv
<1>2. HandlersTypeOK'
  BY <1>1 DEF HandlersTypeOK
<1>3. ASSUME NEW d \in Contracts, d # c  PROVE WaitInv(d)'
  <2>1. UNCHANGED <<accepting[d], ending[d], told[d]>>
    BY <1>1, <1>3 DEF HandlersTypeOK
  <2> QED
    BY <2>1, WaitsStand
<1> QED
  BY <1>2, <1>3, SavedKept

LEMMA AtWaits ==
  /\ Idle \in Waits
  /\ \A g \in Nat : At("LISTING", g) \in Waits /\ At("ROOM", g) \in Waits
  /\ \A g, h : At("LISTING", g) # At("ROOM", h) /\ At("LISTING", g) # Idle /\ At("ROOM", g) # Idle
  /\ \A g, h : (At("LISTING", g) = At("LISTING", h) => g = h) /\ (At("ROOM", g) = At("ROOM", h) => g = h)
  /\ \A w \in Waits : /\ w.at = "LISTING" => w = At("LISTING", w.need)
                      /\ w.at = "ROOM" => w = At("ROOM", w.need)
<1>1. ASSUME NEW w \in Waits
      PROVE  (w.at = "LISTING" => w = At("LISTING", w.need)) /\ (w.at = "ROOM" => w = At("ROOM", w.need))
  BY DEF Waits, At
<1>2. /\ Idle \in Waits
      /\ \A g \in Nat : At("LISTING", g) \in Waits /\ At("ROOM", g) \in Waits
  BY DEF Idle, Waits, At
<1>3. \A g, h : At("LISTING", g) # At("ROOM", h) /\ At("LISTING", g) # Idle /\ At("ROOM", g) # Idle
  BY DEF Idle, At
<1>4. \A g, h : (At("LISTING", g) = At("LISTING", h) => g = h) /\ (At("ROOM", g) = At("ROOM", h) => g = h)
  BY DEF At
<1> QED
  BY <1>1, <1>2, <1>3, <1>4

(* The handler of an accepted contract waits for the listing, as it sees   *)
(* it, to be saved.                                                        *)
LEMMA AwaitsListing ==
  ASSUME Going, NEW c \in Contracts, AwaitListing(c), UNCHANGED <<ending, told>>,
         acceptedAt'[c] > 0, listing'[ListingOf(c)] = "CONTRACTED"
  PROVE  SavedInv'
<1> USE AtWaits
<1>1. PICK g : g = listingGen'
  OBVIOUS
<1>2. g \in Nat
  BY <1>1, QueuesKept DEF QueuesInv, ListingQueueOK, QueueOK
<1>3. HandlersTypeOK
  BY DEF Going, SavedInv
<1>4. accepting' = [accepting EXCEPT ![c] = At("LISTING", g)] /\ accepting'[c] = At("LISTING", g)
  BY <1>1, <1>3 DEF AwaitListing, HandlersTypeOK
<1>5. ListingHeld(c, g)'
  <2>1. listing' \in Having(ListingOf(c), {"CONTRACTED"}) /\ listing' \in Having(ListingOf(c), {"CONTRACTED", "ABSENT"})
    BY MovesTyped DEF Having
  <2>2. ListingsSince(listingGen, {listing})'
    BY QueuesKept DEF QueuesInv, LastIsNow
  <2>3. /\ ListingsSince(g, Having(ListingOf(c), {"CONTRACTED"}))'
        /\ ListingsSince(g, Having(ListingOf(c), {"CONTRACTED", "ABSENT"}))'
    BY <1>1, <2>1, <2>2, ListingsNow
  <2> QED
    BY <2>3 DEF ListingHeld
<1>6. ASSUME told[c] = "ACCEPTED", status'[c] = "accepted"  PROVE ListingHeld(c, 0)' /\ RoomHeld(c, 0)'
  <2>1. WasAccepted(c) /\ Accepting(c)
    BY DEF Going, SavedInv, WaitsInv
  <2>2. status[c] = "accepted"
    BY <1>6, <2>1 DEF WasAccepted, Going, TradeInv, ContractInv, NumberedInOrder, Usual, ContractMoves
  <2> QED
    BY <1>6, <2>1, <2>2, ListingHeldKept, RoomHeldKept DEF Accepting
<1>7. WasAccepted(c)' /\ Accepting(c)'
  BY <1>4, <1>5, <1>6 DEF WasAccepted, Accepting
<1>8. IsTerminated(c)' /\ Ending(c)'
  BY EndingKept
<1>9. ending' = [ending EXCEPT ![c] = ending[c]] /\ told' = [told EXCEPT ![c] = told[c]]
      /\ ending[c] \in Waits /\ told[c] \in {"NONE", "ACCEPTED", "ENDED"}
  BY <1>3 DEF HandlersTypeOK
<1> QED
  BY <1>2, <1>4, <1>7, <1>8, <1>9, OneMoves DEF WaitInv

LEMMA RespondSaved ==
  ASSUME Going, NEW c \in Contracts, RespondContract(c)
  PROVE  SavedInv'
<1>1. AwaitListing(c) /\ UNCHANGED <<ending, told>>
  BY DEF RespondContract, EnsureAcceptedListing
<1>2. listing'[ListingOf(c)] = "CONTRACTED"
  BY SaveEffect, EnsureListingEffect, ListingOfIsListing DEF RespondContract, Going, TradeInv, ContractInv
<1>3. status'[c] = "accepted"
  BY DEF RespondContract, Going, TradeInv, ContractInv, ContractTypeOK, contractVars
<1>4. acceptedAt'[c] > 0
  BY <1>3 DEF Going, Usual, NumberedApart
<1> QED
  BY <1>1, <1>2, <1>4, AwaitsListing

LEMMA BootEnsureSaved ==
  ASSUME Going, NEW c \in Contracts, BootEnsure(c)
  PROVE  SavedInv'
<1>1. UNCHANGED <<contractVars, ending, told>> /\ status[c] = "accepted"
  BY DEF BootEnsure, Going, SavedInv, BootingAccepted
<1>2. CASE UNCHANGED accepting
  BY <1>1, <1>2, HandlersStand DEF handlerVars
<1>3. CASE EnsureAcceptedListing(c)
  <2>1. AwaitListing(c) /\ listing'[ListingOf(c)] = "CONTRACTED"
    BY <1>3, EnsureListingEffect DEF EnsureAcceptedListing, Going, TradeInv, ContractInv
  <2>2. acceptedAt'[c] > 0
    BY <1>1 DEF Going, SavedInv, NumberedApart, contractVars
  <2> QED
    BY <1>1, <2>1, <2>2, AwaitsListing
<1> QED
  BY <1>2, <1>3 DEF BootEnsure

(* An acceptor stops, having told what it has to tell.                     *)
LEMMA AcceptorStops ==
  ASSUME Going, NEW c \in Contracts, accepting' = [accepting EXCEPT ![c] = Idle], UNCHANGED <<ending, told>>
  PROVE  SavedInv'
<1> USE AtWaits
<1>1. HandlersTypeOK
  BY DEF Going, SavedInv
<1>2. accepting'[c] = Idle
  BY <1>1 DEF HandlersTypeOK
<1>3. WasAccepted(c) /\ Accepting(c)
  BY DEF Going, SavedInv, WaitsInv
<1>4. ASSUME told[c] = "ACCEPTED", status'[c] = "accepted"  PROVE ListingHeld(c, 0)' /\ RoomHeld(c, 0)'
  <2>1. status[c] = "accepted"
    BY <1>3, <1>4 DEF WasAccepted, Going, TradeInv, ContractInv, NumberedInOrder, Usual, ContractMoves
  <2> QED
    BY <1>3, <1>4, <2>1, ListingHeldKept, RoomHeldKept DEF Accepting
<1>5. WasAccepted(c)'
  BY <1>2, <1>3 DEF WasAccepted, Going, Usual, ContractMoves
<1>6. Accepting(c)'
  BY <1>2, <1>4 DEF Accepting
<1>7. IsTerminated(c)' /\ Ending(c)'
  BY EndingKept
<1>8. ending' = [ending EXCEPT ![c] = ending[c]] /\ told' = [told EXCEPT ![c] = told[c]]
      /\ ending[c] \in Waits /\ told[c] \in {"NONE", "ACCEPTED", "ENDED"}
  BY <1>1 DEF HandlersTypeOK
<1> QED
  BY <1>5, <1>6, <1>7, <1>8, OneMoves DEF WaitInv

(* Once the listing is saved, the contract is joined, and the handler      *)
(* waits for the rooms as it sees them to be saved.                        *)
LEMMA EnsureSaved ==
  ASSUME Going, NEW c \in Contracts, Ensure(c)
  PROVE  SavedInv'
<1> USE AtWaits
<1>1. HandlersTypeOK /\ UNCHANGED <<contractVars, ending, told>>
  BY DEF Going, SavedInv, Ensure
<1>2. CASE accepting' = [accepting EXCEPT ![c] = Idle]
  BY <1>1, <1>2, AcceptorStops
<1>3. CASE /\ accepting[c].at = "LISTING" /\ status[c] = "accepted"
           /\ ListingProjection!Settled(accepting[c].need) /\ ListingProjection!Saved(accepting[c].need)
           /\ ConnectAcceptedTradeContract(c)
           /\ accepting' = [accepting EXCEPT ![c] = At("ROOM", roomGen')]
  <2>1. PICK n \in Nat : n = accepting[c].need /\ accepting[c] = At("LISTING", n)
    BY <1>1, <1>3 DEF HandlersTypeOK, Waits
  <2>2. PICK g : g = roomGen'
    OBVIOUS
  <2>3. g \in Nat
    BY <2>2, QueuesKept DEF QueuesInv, RoomQueueOK, QueueOK
  <2>4. accepting' = [accepting EXCEPT ![c] = At("ROOM", g)] /\ accepting'[c] = At("ROOM", g)
    BY <1>1, <1>3, <2>2 DEF HandlersTypeOK
  <2>5. status'[c] = "accepted" /\ acceptedAt'[c] > 0
    BY <1>1, <1>3 DEF contractVars, Going, SavedInv, NumberedApart
  <2>6. ListingHeld(c, 0)'
    <3>1. ListingHeld(c, n)
      BY <1>3, <2>1 DEF Going, SavedInv, WaitsInv, Accepting
    <3>2. ListingHeld(c, 0)
      BY <1>3, <2>1, <3>1, MovesTyped, ListingsSaved DEF ListingHeld
    <3> QED
      BY <1>3, <2>5, <3>2, ListingHeldKept
  <2>7. RoomHeld(c, g)'
    <3> SUFFICES ASSUME LastOfTenant(c)'
                 PROVE  joined'[c] = "ANALYZING" /\ home'[TenantOf(c)] = ListingOf(c) /\ RoomsSince(g, Lived(c))'
      BY DEF RoomHeld
    <3>1. LastOfTenant(c)
      BY <1>3, LastOfTenantKept DEF Going, SavedInv, NumberedApart
    <3>2. ~NewerHome(c)
      <4> SUFFICES ASSUME NEW d \in Contracts, TenantOf(d) = TenantOf(c), acceptedAt[d] > acceptedAt[c]
                   PROVE  FALSE
        BY DEF NewerHome
      <4>1. acceptedAt[d] <= acceptedAt[c] /\ acceptedAt[c] \in Nat /\ acceptedAt[d] \in Nat
        BY <3>1 DEF LastOfTenant, Going, TradeInv, ContractInv, ContractTypeOK
      <4> QED
        BY <4>1
    <3>3. joined \in [Contracts -> {"NONE", "ANALYZING", "EXPIRED"}]
          /\ home \in [Tenants -> Listings \union {"NONE"}] /\ joined[c] # "EXPIRED"
      BY <1>3 DEF Going, TradeInv, RoomInv, RoomTypeOK, RoomStores, SavedInv, StoresInv, NotYetExpired
    <3>4. joined'[c] = "ANALYZING" /\ home'[TenantOf(c)] = ListingOf(c)
      BY <1>3, <3>2, <3>3, ListingOfIsListing DEF ConnectAcceptedTradeContract
    <3>5. RoomsSince(roomGen, Covering(InMemoryNow))'
      BY QueuesKept DEF QueuesInv, LastIsNow
    <3>6. Covering(InMemoryNow)' \subseteq Lived(c)
      BY <3>4, ListingOfIsListing, ListingsAssumption DEF Covering, InMemoryNow, Lived
    <3> QED
      BY <2>2, <3>4, <3>5, <3>6, RoomsNow
  <2>8. ASSUME told[c] = "ACCEPTED"  PROVE ListingHeld(c, 0)' /\ RoomHeld(c, 0)'
    <3>1. RoomHeld(c, 0)
      BY <1>3, <2>8 DEF Going, SavedInv, WaitsInv, Accepting
    <3> QED
      BY <1>3, <2>5, <2>6, <3>1, RoomHeldKept
  <2>9. WasAccepted(c)' /\ Accepting(c)'
    BY <1>1, <2>4, <2>5, <2>6, <2>7, <2>8 DEF WasAccepted, Accepting
  <2>10. IsTerminated(c)' /\ Ending(c)'
    BY <1>1, EndingKept
  <2>11. ending' = [ending EXCEPT ![c] = ending[c]] /\ told' = [told EXCEPT ![c] = told[c]]
         /\ ending[c] \in Waits /\ told[c] \in {"NONE", "ACCEPTED", "ENDED"}
    BY <1>1 DEF HandlersTypeOK
  <2> QED
    BY <2>3, <2>4, <2>9, <2>10, <2>11, OneMoves DEF WaitInv
<1> QED
  BY <1>2, <1>3 DEF Ensure

(* The answer that the contract is accepted.                               *)
LEMMA AcceptedSaved ==
  ASSUME Going, NEW c \in Contracts, Accepted(c)
  PROVE  SavedInv'
<1> USE AtWaits
<1>1. /\ HandlersTypeOK /\ UNCHANGED <<contractVars, ending>>
      /\ accepting' = [accepting EXCEPT ![c] = Idle]
  BY DEF Going, SavedInv, Accepted
<1>2. CASE UNCHANGED told
  BY <1>1, <1>2, AcceptorStops
<1>3. CASE /\ accepting[c].at = "ROOM" /\ status[c] = "accepted"
           /\ RoomProjection!Settled(accepting[c].need) /\ RoomProjection!Saved(accepting[c].need)
           /\ told' = [told EXCEPT ![c] = "ACCEPTED"]
  <2>1. PICK n \in Nat : n = accepting[c].need /\ accepting[c] = At("ROOM", n)
    BY <1>1, <1>3 DEF HandlersTypeOK, Waits
  <2>2. ListingHeld(c, 0) /\ RoomHeld(c, n)
    BY <1>3, <2>1 DEF Going, SavedInv, WaitsInv, Accepting
  <2>3. RoomHeld(c, 0)
    BY <1>3, <2>1, <2>2, MovesTyped, RoomsSaved DEF RoomHeld
  <2>4. status'[c] = "accepted" /\ acceptedAt'[c] > 0
    BY <1>1, <1>3 DEF contractVars, Going, SavedInv, NumberedApart
  <2>5. ListingHeld(c, 0)' /\ RoomHeld(c, 0)'
    BY <1>3, <2>2, <2>3, <2>4, ListingHeldKept, RoomHeldKept
  <2>6. accepting'[c] = Idle /\ told'[c] = "ACCEPTED"
    BY <1>1, <1>3 DEF HandlersTypeOK
  <2>7. WasAccepted(c)' /\ Accepting(c)'
    BY <2>4, <2>5, <2>6 DEF WasAccepted, Accepting
  <2>8. ending[c] = Idle
    <3>1. IsTerminated(c)
      BY DEF Going, SavedInv, WaitsInv
    <3> QED
      BY <1>3, <3>1 DEF IsTerminated
  <2>9. IsTerminated(c)' /\ Ending(c)'
    BY <1>1, <2>6, <2>8 DEF IsTerminated, Ending
  <2>10. ending' = [ending EXCEPT ![c] = ending[c]] /\ ending[c] \in Waits
    BY <1>1 DEF HandlersTypeOK
  <2> QED
    BY <1>1, <1>3, <2>7, <2>9, <2>10, OneMoves DEF WaitInv
<1> QED
  BY <1>2, <1>3 DEF Accepted

(* A termination waits for the rooms as it leaves them to be saved, and    *)
(* leaves the listing open.                                                *)
LEMMA TerminateSaved ==
  ASSUME Going, NEW c \in Contracts, TerminateContract(c)
  PROVE  SavedInv'
<1> USE AtWaits
<1>1. /\ HandlersTypeOK /\ UNCHANGED <<accepting, told>>
      /\ status' = [status EXCEPT ![c] = "terminated"] /\ DisconnectAcceptedTradeContract(c)
      /\ ending' = [ending EXCEPT ![c] = At("ROOM", roomGen')]
  BY DEF Going, SavedInv, TerminateContract
<1>2. PICK g : g = roomGen'
  OBVIOUS
<1>3. g \in Nat
  BY <1>2, QueuesKept DEF QueuesInv, RoomQueueOK, QueueOK
<1>4. ending' = [ending EXCEPT ![c] = At("ROOM", g)] /\ ending'[c] = At("ROOM", g)
  BY <1>1, <1>2 DEF HandlersTypeOK
<1>5. status'[c] = "terminated"
  BY <1>1 DEF Going, TradeInv, ContractInv, ContractTypeOK
<1>6. listing'[ListingOf(c)] = "OPEN"
  <2>1. CASE SaveListing(ListingOf(c), "OPEN")
    BY <2>1, SaveEffect, ListingOfIsListing DEF Going, TradeInv, ContractInv
  <2>2. CASE listing[ListingOf(c)] = "OPEN" /\ ListingUnchanged
    BY <2>2 DEF ListingUnchanged, listingVars
  <2> QED
    BY <2>1, <2>2 DEF TerminateContract
<1>7. ListingFree(c)'
  BY <1>6 DEF ListingFree
<1>8. RoomFreed(c, g)'
  <2>1. joined \in [Contracts -> {"NONE", "ANALYZING", "EXPIRED"}]
    BY DEF Going, TradeInv, RoomInv, RoomTypeOK, RoomStores
  <2>2. joined'[c] # "ANALYZING"
    BY <1>1, <2>1 DEF DisconnectAcceptedTradeContract
  <2>3. Covering(InMemoryNow)' \subseteq Without(c, "ANALYZING")
    BY <2>2 DEF Covering, InMemoryNow, Without
  <2>4. RoomsSince(roomGen, Covering(InMemoryNow))'
    BY QueuesKept DEF QueuesInv, LastIsNow
  <2> QED
    BY <1>2, <2>2, <2>3, <2>4, RoomsNow DEF RoomFreed
<1>9. ASSUME told[c] = "ENDED"  PROVE ListingFreed(c, 0)' /\ RoomFreed(c, 0)'
  <2>1. status[c] = "terminated" /\ ListingFreed(c, 0) /\ RoomFreed(c, 0)
    BY <1>9 DEF Going, SavedInv, WaitsInv, IsTerminated, Ending
  <2> QED
    BY <2>1, ListingFreedKept, RoomFreedKept
<1>10. IsTerminated(c)' /\ Ending(c)'
  BY <1>1, <1>4, <1>5, <1>7, <1>8, <1>9 DEF IsTerminated, Ending
<1>11. WasAccepted(c)' /\ Accepting(c)'
  BY <1>1, AcceptingKept
<1>12. accepting' = [accepting EXCEPT ![c] = accepting[c]] /\ told' = [told EXCEPT ![c] = told[c]]
       /\ accepting[c] \in Waits /\ told[c] \in {"NONE", "ACCEPTED", "ENDED"}
  BY <1>1 DEF HandlersTypeOK
<1> QED
  BY <1>3, <1>4, <1>10, <1>11, <1>12, OneMoves DEF WaitInv

(* The rooms are saved, or not, and then the listing.                      *)
LEMMA EndingMoves ==
  ASSUME Going, NEW c \in Contracts, Released(c) \/ Terminated(c)
  PROVE  SavedInv'
<1> USE AtWaits
<1>1. HandlersTypeOK /\ UNCHANGED <<accepting, contractVars, listingVars, roomVars, dbVars, listingQueueVars, roomQueueVars>>
  BY DEF Going, SavedInv, Released, Terminated
<1>2. IsTerminated(c) /\ Ending(c)
  BY DEF Going, SavedInv, WaitsInv
<1>3. PICK e \in Waits, r \in {"NONE", "ACCEPTED", "ENDED"} :
        /\ ending' = [ending EXCEPT ![c] = e] /\ told' = [told EXCEPT ![c] = r]
        /\ WaitInv(c)'
  <2>1. status[c] = "terminated" /\ status'[c] = "terminated" /\ acceptedAt'[c] > 0
    <3>1. ending[c] # Idle
      BY DEF Released, Terminated, Idle
    <3> QED
      BY <1>1, <1>2, <3>1 DEF IsTerminated, contractVars, Going, SavedInv, NumberedApart
  <2>2. WasAccepted(c)' /\ Accepting(c)'
    BY <2>1 DEF WasAccepted, Accepting
  <2>3. /\ told[c] \in {"NONE", "ACCEPTED", "ENDED"} /\ told = [told EXCEPT ![c] = told[c]]
    BY <1>1 DEF HandlersTypeOK
  <2>4. ASSUME told[c] = "ENDED"  PROVE ListingFreed(c, 0)' /\ RoomFreed(c, 0)'
    BY <1>2, <2>1, <2>4, ListingFreedKept, RoomFreedKept DEF Ending
  <2>5. CASE ending' = [ending EXCEPT ![c] = Idle] /\ UNCHANGED told
    <3>1. ending'[c] = Idle
      BY <1>1, <2>5 DEF HandlersTypeOK
    <3>2. IsTerminated(c)' /\ Ending(c)'
      BY <2>1, <2>4, <2>5, <3>1 DEF IsTerminated, Ending
    <3> QED
      BY <2>2, <2>3, <2>5, <3>2 DEF WaitInv
  <2>6. CASE /\ ending[c].at = "ROOM"
             /\ RoomProjection!Settled(ending[c].need) /\ RoomProjection!Saved(ending[c].need)
             /\ ending' = [ending EXCEPT ![c] = At("LISTING", listingGen)] /\ UNCHANGED told
    <3>1. PICK n \in Nat : n = ending[c].need /\ ending[c] = At("ROOM", n)
      BY <1>1, <2>6 DEF HandlersTypeOK, Waits
    <3>2. ListingFree(c) /\ RoomFreed(c, n)
      BY <1>2, <3>1 DEF Ending
    <3>3. RoomFreed(c, 0)'
      <4>1. RoomFreed(c, 0)
        BY <2>6, <3>1, <3>2, MovesTyped, RoomsSaved DEF RoomFreed
      <4> QED
        BY <2>1, <4>1, RoomFreedKept
    <3>4. PICK g : g = listingGen
      OBVIOUS
    <3>5. g \in Nat /\ g = listingGen'
      BY <1>1, <3>4, MovesTyped DEF ListingQueueOK, QueueOK, listingQueueVars
    <3>6. ListingFreed(c, g)'
      <4>1. ListingFree(c)'
        BY <2>1, <3>2, ListingFreeKept
      <4>2. ASSUME IsLatest(c)'  PROVE ListingsSince(g, Having(ListingOf(c), {"OPEN", "ABSENT"}))'
        <5>1. listing'[ListingOf(c)] \in {"OPEN", "ABSENT"}
          BY <4>1, <4>2, MovesTyped, ListingOfIsListing DEF ListingFree, ListingStores
        <5>2. listing' \in Having(ListingOf(c), {"OPEN", "ABSENT"})
          BY <5>1, MovesTyped DEF Having
        <5>3. ListingsSince(listingGen, {listing})'
          BY QueuesKept DEF QueuesInv, LastIsNow
        <5> QED
          BY <3>5, <5>2, <5>3, ListingsNow
      <4> QED
        BY <4>1, <4>2 DEF ListingFreed
    <3>7. ending' = [ending EXCEPT ![c] = At("LISTING", g)] /\ ending'[c] = At("LISTING", g)
      BY <1>1, <2>6, <3>4 DEF HandlersTypeOK
    <3>8. IsTerminated(c)' /\ Ending(c)'
      BY <2>1, <2>4, <2>6, <3>3, <3>6, <3>7 DEF IsTerminated, Ending
    <3> QED
      BY <2>2, <2>3, <2>6, <3>5, <3>7, <3>8 DEF WaitInv
  <2>7. CASE /\ ending[c].at = "LISTING"
             /\ ListingProjection!Settled(ending[c].need) /\ ListingProjection!Saved(ending[c].need)
             /\ ending' = [ending EXCEPT ![c] = Idle] /\ told' = [told EXCEPT ![c] = "ENDED"]
    <3>1. PICK n \in Nat : n = ending[c].need /\ ending[c] = At("LISTING", n)
      BY <1>1, <2>7 DEF HandlersTypeOK, Waits
    <3>2. ListingFreed(c, n) /\ RoomFreed(c, 0)
      BY <1>2, <3>1 DEF Ending
    <3>3. ListingFreed(c, 0)
      BY <2>7, <3>1, <3>2, MovesTyped, ListingsSaved DEF ListingFreed
    <3>4. ListingFreed(c, 0)' /\ RoomFreed(c, 0)'
      BY <2>1, <3>2, <3>3, ListingFreedKept, RoomFreedKept
    <3>5. ending'[c] = Idle
      BY <1>1, <2>7 DEF HandlersTypeOK
    <3>6. IsTerminated(c)' /\ Ending(c)'
      BY <2>1, <3>4, <3>5 DEF IsTerminated, Ending
    <3> QED
      BY <2>2, <2>7, <3>6 DEF WaitInv
  <2> QED
    BY <2>5, <2>6, <2>7 DEF Released, Terminated
<1>4. accepting' = [accepting EXCEPT ![c] = accepting[c]] /\ accepting[c] \in Waits
  BY <1>1 DEF HandlersTypeOK
<1> QED
  BY <1>3, <1>4, OneMoves

(***************************************************************************)
(* A process that starts anew finds what was saved.                        *)
(***************************************************************************)
LEMMA RestartedListings ==
  ASSUME TradeInv, TradeInv', Crash, NEW g \in Nat, NEW X, Hydrated \in X, listingDb \in X
  PROVE  ListingsSince(g, X)'
<1>1. listingDb' = listingDb
  BY DEF Crash, dbVars
<1>2. CASE listingGen' = 1 /\ listingQueue' = <<Hydrated>> /\ listingDone' = 0
  BY <1>1, <1>2, SinceStarts DEF ListingsSince
<1>3. CASE ListingProjection!Restart
  BY <1>1, <1>3, SinceStarts DEF ListingsSince, ListingProjection!Restart
<1> QED
  BY <1>2, <1>3 DEF Crash

LEMMA RestartedRooms ==
  ASSUME Crash, NEW X, InDb \in X, NEW g \in Nat
  PROVE  RoomsSince(g, X)'
  BY SinceStarts DEF Crash, dbVars, RoomsSince, RoomProjection!Restart, InDb

LEMMA RestartedQueues ==
  ASSUME TradeInv, TradeInv', Crash
  PROVE  QueuesInv'
<1>1. listing' = Hydrated /\ listing' \in ListingStores /\ listingDb' = listingDb
  BY DEF Crash, dbVars, TradeInv, ContractInv, ContractTypeOK
<1>2. ListingQueueOK' /\ ListingsSince(listingGen, {listing})'
  <2>1. CASE listingGen' = 1 /\ listingQueue' = <<Hydrated>> /\ listingDone' = 0 /\ listingFailure' = 0
    <3>1. ListingQueueOK'
      BY <1>1, <2>1, QueueStarts DEF ListingQueueOK
    <3>2. QueuedSince(<<Hydrated>>, 1, 1, {Hydrated})
      BY SinceStarts
    <3> QED
      BY <1>1, <2>1, <3>1, <3>2 DEF ListingsSince
  <2>2. CASE Hydrated = listingDb /\ ListingProjection!Restart
    BY <1>1, <2>2, QueueStarts, SinceStarts DEF ListingQueueOK, ListingsSince, ListingProjection!Restart
  <2> QED
    BY <2>1, <2>2 DEF Crash
<1>3. RoomQueueOK'
  BY QueueStarts DEF Crash, RoomProjection!Restart, RoomQueueOK
<1>4. RoomsSince(roomGen, Covering(InMemoryNow))'
  <2>1. PICK r \in RoomStores : r = InDb
    BY DEF InDb, TradeInv, RoomInv, RoomTypeOK
  <2>2. Covering(InMemoryNow)' = Covering(r) /\ InDb' = r
    BY <2>1 DEF Crash, dbVars, InMemoryNow, InDb, Covering
  <2>3. InDb' \in Covering(r)
    BY <2>2, CoveringLasts
  <2>4. PICK C : C = Covering(r)
    OBVIOUS
  <2>5. roomQueue' = <<>>
    BY DEF Crash, RoomProjection!Restart
  <2> QED
    BY <2>2, <2>3, <2>4, <2>5, SinceStarts DEF RoomsSince
<1> QED
  BY <1>2, <1>3, <1>4 DEF QueuesInv, LastIsNow

LEMMA CrashSaved ==
  ASSUME TradeInv, SavedInv, TradeInv', Crash
  PROVE  SavedInv'
<1>1. /\ UNCHANGED <<status, acceptedAt, listingFile, listingDb, joinedDb, homeDb, told>>
      /\ listing' = Hydrated /\ joined' = joinedDb /\ home' = homeDb
      /\ accepting' = [c \in Contracts |-> Idle] /\ ending' = [c \in Contracts |-> Idle]
      /\ booting' = {c \in Contracts : status[c] = "accepted"}
  BY DEF Crash, contractVars, dbVars
<1>2. QueuesInv'
  BY RestartedQueues
<1>3. NumberedApart' /\ BootingAccepted'
  BY <1>1 DEF SavedInv, NumberedApart, BootingAccepted
<1>4. HandlersTypeOK'
  BY <1>1, AtWaits DEF SavedInv, HandlersTypeOK
<1>5. /\ listingDone >= 0 /\ roomDone >= 0
      /\ listingDb \in ListingStores /\ Hydrated \in ListingStores /\ listing \in ListingStores
      /\ InDb \in RoomStores
  BY <1>1 DEF SavedInv, QueuesInv, ListingQueueOK, RoomQueueOK, QueueOK, TradeInv, ContractInv, ContractTypeOK,
     RoomInv, RoomTypeOK, InDb
<1>6. ASSUME NEW c \in Contracts
      PROVE  /\ listingDb[ListingOf(c)] = "ABSENT" \/ Hydrated[ListingOf(c)] = listingDb[ListingOf(c)]
             /\ listingDb[ListingOf(c)] = "ABSENT" => Hydrated[ListingOf(c)] \in {"ABSENT", listingFile[ListingOf(c)]}
             /\ \A s \in {"OPEN", "CONTRACTED"} :
                  ListingsSince(0, Having(ListingOf(c), {s})) => listingDb[ListingOf(c)] = s
  BY <1>5, ListingOfIsListing DEF Hydrated, ListingsSince, Having
<1>7. ASSUME NEW c \in Contracts, NEW V, Hydrated[ListingOf(c)] \in V, listingDb[ListingOf(c)] \in V
      PROVE  ListingsSince(0, Having(ListingOf(c), V))'
  BY <1>5, <1>7, RestartedListings DEF Having
<1>8. ASSUME NEW c \in Contracts  PROVE NotYetExpired(c)'
  <2> SUFFICES ASSUME status[c] # "terminated"
               PROVE  joinedDb[c] # "EXPIRED" /\ RoomsSince(0, Without(c, "EXPIRED"))'
    BY <1>1 DEF NotYetExpired
  <2>1. InDb \in Without(c, "EXPIRED")
    BY <1>5 DEF SavedInv, StoresInv, NotYetExpired, RoomsSince
  <2> QED
    BY <2>1, RestartedRooms DEF InDb, Without
<1>9. ASSUME NEW c \in Contracts, IsLatest(c)'  PROVE IsLatest(c)
  BY <1>1, <1>9 DEF IsLatest, Of
<1>10. ASSUME NEW c \in Contracts, LastOfTenant(c)'  PROVE LastOfTenant(c)
  BY <1>1, <1>10 DEF LastOfTenant
<1>11. ASSUME NEW c \in Contracts, status[c] = "terminated", IsLatest(c), listingFile[ListingOf(c)] = "CONTRACTED"
       PROVE  listing[ListingOf(c)] = "CONTRACTED" /\ listingDb[ListingOf(c)] = "CONTRACTED"
  BY <1>6, <1>11 DEF SavedInv, StoresInv, TakenFromDb
<1>12. ASSUME NEW c \in Contracts  PROVE TakenFromDb(c)'
  <2> DEFINE l == ListingOf(c)
  <2> SUFFICES ASSUME status[c] = "terminated", IsLatest(c)
               PROVE  /\ listingFile[l] = "CONTRACTED" => Hydrated[l] = "CONTRACTED"
                      /\ Hydrated[l] = "CONTRACTED" => ListingsSince(0, Having(l, {"CONTRACTED"}))'
    BY <1>1, <1>9 DEF TakenFromDb
  <2>1. listingFile[l] = "CONTRACTED" => listingDb[l] = "CONTRACTED"
    BY <1>11
  <2>2. Hydrated[l] = "CONTRACTED" => listingDb[l] = "CONTRACTED"
    BY <1>6, <2>1
  <2> QED
    BY <1>6, <1>7, <2>1, <2>2
<1>13. ASSUME NEW c \in Contracts, ListingHeld(c, 0)  PROVE ListingHeld(c, 0)'
  <2> DEFINE l == ListingOf(c)
  <2>1. listingDb[l] \in {"CONTRACTED", "ABSENT"}
    BY <1>5, <1>13 DEF ListingHeld, ListingsSince, Having
  <2>2. listingDb[l] = "ABSENT" => listingFile[l] = "ABSENT"
    BY <1>5, <1>6, <1>13, ListingOfIsListing DEF ListingHeld, ListingStores
  <2>3. Hydrated[l] = listingDb[l]
    BY <1>6, <2>1, <2>2
  <2>4. ListingsSince(0, Having(l, {"CONTRACTED", "ABSENT"}))'
    BY <1>7, <2>1, <2>3
  <2>5. Hydrated[l] = "CONTRACTED" => ListingsSince(0, Having(l, {"CONTRACTED"}))'
    BY <1>7, <2>3
  <2> QED
    BY <1>1, <2>1, <2>2, <2>3, <2>4, <2>5 DEF ListingHeld
<1>14. ASSUME NEW c \in Contracts, RoomHeld(c, 0)  PROVE RoomHeld(c, 0)'
  <2> SUFFICES ASSUME LastOfTenant(c)
               PROVE  joinedDb[c] = "ANALYZING" /\ homeDb[TenantOf(c)] = ListingOf(c) /\ RoomsSince(0, Lived(c))'
    BY <1>1, <1>10 DEF RoomHeld
  <2>1. InDb \in Lived(c)
    BY <1>5, <1>14 DEF RoomHeld, RoomsSince
  <2> QED
    BY <2>1, RestartedRooms DEF InDb, Lived
<1>15. ASSUME NEW c \in Contracts, status[c] = "terminated", ListingFreed(c, 0)  PROVE ListingFreed(c, 0)'
  <2> DEFINE l == ListingOf(c)
  <2> SUFFICES ASSUME IsLatest(c)
               PROVE  Hydrated[l] # "CONTRACTED" /\ ListingsSince(0, Having(l, {"OPEN", "ABSENT"}))'
    BY <1>1, <1>9 DEF ListingFreed, ListingFree
  <2>1. listing[l] # "CONTRACTED" /\ listingDb[l] \in {"OPEN", "ABSENT"}
    BY <1>5, <1>15 DEF ListingFreed, ListingFree, ListingsSince, Having
  <2>2. listingFile[l] # "CONTRACTED"
    BY <1>11, <1>15, <2>1
  <2>3. Hydrated[l] # "CONTRACTED"
    BY <1>6, <2>1, <2>2
  <2>4. Hydrated[l] \in {"OPEN", "ABSENT"}
    BY <1>5, <2>3, ListingOfIsListing DEF ListingStores
  <2> QED
    BY <1>7, <2>1, <2>3, <2>4
<1>16. ASSUME NEW c \in Contracts, RoomFreed(c, 0)  PROVE RoomFreed(c, 0)'
  <2>1. InDb \in Without(c, "ANALYZING")
    BY <1>5, <1>16 DEF RoomFreed, RoomsSince
  <2> QED
    BY <1>1, <2>1, RestartedRooms DEF RoomFreed, InDb, Without
<1>17. ASSUME NEW c \in Contracts  PROVE WaitInv(c)'
  <2>1. WasAccepted(c) /\ Accepting(c) /\ IsTerminated(c) /\ Ending(c)
    BY DEF SavedInv, WaitsInv
  <2>2. /\ accepting'[c] = Idle /\ ending'[c] = Idle
        /\ \A g : At("LISTING", g) # Idle /\ At("ROOM", g) # Idle
    BY <1>1, AtWaits
  <2>3. WasAccepted(c)' /\ IsTerminated(c)'
    BY <1>1, <2>1, <2>2 DEF WasAccepted, IsTerminated
  <2>4. Accepting(c)'
    BY <1>1, <1>13, <1>14, <2>1, <2>2 DEF Accepting
  <2>5. Ending(c)'
    BY <1>1, <1>15, <1>16, <2>1, <2>2 DEF Ending, IsTerminated
  <2> QED
    BY <2>3, <2>4, <2>5 DEF WaitInv
<1>18. StoresInv' /\ WaitsInv'
  BY <1>8, <1>12, <1>17 DEF StoresInv, WaitsInv, WaitInv
<1> QED
  BY <1>2, <1>3, <1>4, <1>18 DEF SavedInv

LEMMA TradeInitSaved == TradeInit => SavedInv
<1> SUFFICES ASSUME TradeInit  PROVE SavedInv
  OBVIOUS
<1>1. /\ listing \in ListingStores /\ listingQueue = <<listing>>
      /\ listingGen = 1 /\ listingDone = 0 /\ listingFailure = 0
      /\ roomGen = 0 /\ roomQueue = <<>> /\ roomDone = 0 /\ roomFailure = 0
      /\ InMemoryNow \in RoomStores /\ InDb = InMemoryNow
  BY DEF TradeInit, ListingStores, RoomProjection!ProjectionInit, InMemoryNow, InDb, RoomStores
<1>2. ListingQueueOK /\ RoomQueueOK
  BY <1>1, QueueStarts DEF ListingQueueOK, RoomQueueOK
<1>3. LastIsNow
  <2>1. ListingsSince(listingGen, {listing})
    <3>1. QueuedSince(<<listing>>, 1, 1, {listing})
      BY SinceStarts
    <3> QED
      BY <1>1, <3>1 DEF ListingsSince
  <2>2. PICK C : C = Covering(InMemoryNow)
    OBVIOUS
  <2>3. InDb \in C
    BY <1>1, <2>2, CoveringLasts
  <2>4. RoomsSince(roomGen, Covering(InMemoryNow))
    BY <1>1, <2>2, <2>3, SinceStarts DEF RoomsSince
  <2> QED
    BY <2>1, <2>4 DEF LastIsNow
<1>4. ASSUME NEW c \in Contracts  PROVE NotYetExpired(c)
  <2>1. InDb \in Without(c, "EXPIRED") /\ joined[c] # "EXPIRED"
    BY <1>1 DEF TradeInit, Without, InMemoryNow
  <2> QED
    BY <1>1, <2>1, SinceStarts DEF NotYetExpired, RoomsSince
<1>5. StoresInv
  BY <1>4 DEF TradeInit, StoresInv, TakenFromDb
<1>6. WaitsInv
  BY AtWaits DEF TradeInit, WaitsInv, WasAccepted, Accepting, IsTerminated, Ending
<1>7. NumberedApart /\ BootingAccepted /\ HandlersTypeOK
  BY AtWaits DEF TradeInit, NumberedApart, BootingAccepted, HandlersTypeOK
<1> QED
  BY <1>2, <1>3, <1>5, <1>6, <1>7 DEF SavedInv, QueuesInv

LEMMA TradeStepSaved == TradeInv /\ TradeInv' /\ SavedInv /\ [TradeNext]_tradeVars => SavedInv'
<1> SUFFICES ASSUME TradeInv, TradeInv', SavedInv, [TradeNext]_tradeVars  PROVE SavedInv'
  OBVIOUS
<1> USE DEF Going
<1>1. ASSUME NEW c \in Contracts, ContractStep(c)  PROVE SavedInv'
  <2>1. CASE ProposeContract(c) \/ \E s \in {"declined", "cancelled"} : EndProposal(c, s)
    <3>1. PICK s \in {"proposed", "declined", "cancelled"} :
            status[c] \in {"NONE", "proposed"} /\ status' = [status EXCEPT ![c] = s]
      BY <2>1 DEF ProposeContract, EndProposal
    <3>2. /\ up /\ listingFile' = listing /\ UNCHANGED handlerVars
          /\ UNCHANGED <<acceptedAt, listing, roomVars, dbVars, listingQueueVars, roomQueueVars, processVars>>
      BY <2>1 DEF ProposeContract, EndProposal
    <3>3. Usual
      BY <3>1, <3>2, ProposalUsual
    <3> QED
      BY <3>2, <3>3, HandlersStand
  <2>2. CASE RespondContract(c)
    BY <2>2, RespondUsual, RespondSaved
  <2>3. CASE Ensure(c)
    BY <2>3, EnsureUsual, EnsureSaved
  <2>4. CASE Accepted(c)
    <3>1. Usual
      BY <2>4, StandingUsual DEF Accepted, processVars
    <3> QED
      BY <2>4, <3>1, AcceptedSaved
  <2>5. CASE TerminateContract(c)
    BY <2>5, TerminateUsual, TerminateSaved
  <2>6. CASE Released(c) \/ Terminated(c)
    <3>1. Usual
      BY <2>6, StandingUsual DEF Released, Terminated, processVars
    <3> QED
      BY <2>6, <3>1, EndingMoves
  <2>7. CASE BootEnsure(c)
    BY <2>7, BootEnsureUsual, BootEnsureSaved
  <2> QED
    BY <1>1, <2>1, <2>2, <2>3, <2>4, <2>5, <2>6, <2>7 DEF ContractStep
<1>2. ASSUME NEW l \in Listings, UpdateListing(l) \/ DeleteListing(l)  PROVE SavedInv'
  <2>1. UNCHANGED handlerVars
    BY <1>2 DEF UpdateListing, DeleteListing
  <2> QED
    BY <1>2, <2>1, EditUsual, HandlersStand
<1>3. CASE PersistListings \/ PersistRooms \/ ProjectionFails
  <2>1. UNCHANGED handlerVars
    BY <1>3 DEF PersistListings, PersistRooms, ProjectionFails
  <2> QED
    BY <1>3, <2>1, PersistUsual, HandlersStand
<1>4. CASE Crash
  BY <1>4, CrashSaved
<1>5. CASE Listen
  <2>1. Usual
    BY <1>5, StandingUsual DEF Listen
  <2> QED
    BY <1>5, <2>1, HandlersStand DEF Listen
<1>6. CASE UNCHANGED tradeVars
  <2>1. Usual
    BY <1>6, StandingUsual DEF tradeVars, processVars
  <2> QED
    BY <1>6, <2>1, HandlersStand DEF tradeVars
<1> QED
  BY <1>1, <1>2, <1>3, <1>4, <1>5, <1>6 DEF TradeNext

(***************************************************************************)
(* Theorems about what is saved.                                           *)
(***************************************************************************)
(* Every wait is for what it says, and what has been told is in the        *)
(* database, the queue and the memory alike.                               *)
THEOREM SavedInvHolds == TradeSpec => []SavedInv
<1>1. TradeInv /\ TradeInv' /\ SavedInv /\ [TradeNext]_tradeVars => SavedInv'
  BY TradeStepSaved
<1> QED
  BY <1>1, TradeInitSaved, TradeInvHolds, PTL DEF TradeSpec

(* An acceptance that has been told is in the database until the contract  *)
(* ends, the tenant accepts another one or the listing is deleted.         *)
THEOREM AcceptedIsSavedHolds == TradeSpec => []AcceptedIsSaved
<1>1. TradeInv /\ SavedInv => AcceptedIsSaved
  <2> SUFFICES ASSUME TradeInv, SavedInv, NEW c \in Contracts, told[c] = "ACCEPTED", status[c] = "accepted"
               PROVE  /\ listing[ListingOf(c)] # "ABSENT" => listingDb[ListingOf(c)] = "CONTRACTED"
                      /\ LastOfTenant(c) => joinedDb[c] = "ANALYZING" /\ homeDb[TenantOf(c)] = ListingOf(c)
    BY DEF AcceptedIsSaved, LastOfTenant
  <2>1. ListingHeld(c, 0) /\ RoomHeld(c, 0)
    BY DEF SavedInv, WaitsInv, Accepting
  <2>2. listingDone >= 0 /\ roomDone >= 0
    BY DEF SavedInv, QueuesInv, ListingQueueOK, RoomQueueOK, QueueOK
  <2>3. listing[ListingOf(c)] \in {"OPEN", "CONTRACTED", "ABSENT"}
    BY ListingOfIsListing DEF TradeInv, ContractInv, ContractTypeOK, ListingStores
  <2>4. listing[ListingOf(c)] # "ABSENT" => listingDb[ListingOf(c)] = "CONTRACTED"
    BY <2>1, <2>2, <2>3 DEF ListingHeld, ListingsSince, Having
  <2>5. LastOfTenant(c) => joinedDb[c] = "ANALYZING" /\ homeDb[TenantOf(c)] = ListingOf(c)
    BY <2>1, <2>2 DEF RoomHeld, RoomsSince, Lived, InDb
  <2> QED
    BY <2>4, <2>5
<1> QED
  BY <1>1, TradeInvHolds, SavedInvHolds, PTL

(* A termination that has been told is in the database: the tenant's       *)
(* contract is expired there, and the listing not taken by it any more.    *)
THEOREM TerminatedIsSavedHolds == TradeSpec => []TerminatedIsSaved
<1>1. SavedInv => TerminatedIsSaved
  <2> SUFFICES ASSUME SavedInv, NEW c \in Contracts, told[c] = "ENDED"
               PROVE  joinedDb[c] # "ANALYZING" /\ (IsLatest(c) => listingDb[ListingOf(c)] # "CONTRACTED")
    BY DEF TerminatedIsSaved
  <2>1. ListingFreed(c, 0) /\ RoomFreed(c, 0)
    BY DEF SavedInv, WaitsInv, Ending
  <2>2. listingDone >= 0 /\ roomDone >= 0
    BY DEF SavedInv, QueuesInv, ListingQueueOK, RoomQueueOK, QueueOK
  <2> QED
    BY <2>1, <2>2 DEF ListingFreed, RoomFreed, ListingsSince, RoomsSince, Having, Without, InDb
<1> QED
  BY <1>1, SavedInvHolds, PTL

(* A handler that waits for its listings or rooms to be saved is let       *)
(* through only when they are, and is refused only with a failure to       *)
(* report.                                                                 *)
THEOREM WaitingIsHonest ==
  TradeSpec => [](ListingProjection!GateIsHonest /\ RoomProjection!GateIsHonest)
<1>1. ListingQueueOK => ListingProjection!GateIsHonest
  BY QueueIsHonest DEF ListingQueueOK, ListingProjection!GateIsHonest, ListingProjection!Settled,
     ListingProjection!Saved, ListingProjection!Done
<1>2. RoomQueueOK => RoomProjection!GateIsHonest
  BY QueueIsHonest DEF RoomQueueOK, RoomProjection!GateIsHonest, RoomProjection!Settled,
     RoomProjection!Saved, RoomProjection!Done
<1>3. SavedInv => ListingQueueOK /\ RoomQueueOK
  BY DEF SavedInv, QueuesInv
<1> QED
  BY <1>1, <1>2, <1>3, SavedInvHolds, PTL

(* A projection that failed is repeated only when no newer one is queued.  *)
THEOREM NothingRepeatedInVain ==
  TradeSpec => [](ListingProjection!RepeatsWhenIdle /\ RoomProjection!RepeatsWhenIdle)
<1>1. ListingQueueOK => ListingProjection!RepeatsWhenIdle
  BY QueueIsHonest DEF ListingQueueOK, ListingProjection!RepeatsWhenIdle, ListingProjection!LastFailed
<1>2. RoomQueueOK => RoomProjection!RepeatsWhenIdle
  BY QueueIsHonest DEF RoomQueueOK, RoomProjection!RepeatsWhenIdle, RoomProjection!LastFailed
<1>3. SavedInv => ListingQueueOK /\ RoomQueueOK
  BY DEF SavedInv, QueuesInv
<1> QED
  BY <1>1, <1>2, <1>3, SavedInvHolds, PTL

(***************************************************************************)
(* The life of one process. A tenant's room in memory is that of an        *)
(* accepted and joined contract of the tenant: no other is ever joined,    *)
(* and a termination takes the room of its contract away, for that of      *)
(* another contract or for none. A restart breaks this, for the rooms of   *)
(* the database are never taken away (TerminatedIsUnlinked is violated).   *)
(***************************************************************************)
LivesBy(t, c) ==
  /\ TenantOf(c) = t /\ ListingOf(c) = home[t]
  /\ status[c] = "accepted" /\ joined[c] # "NONE"

HomesInv ==
  /\ booting = {}
  /\ \A c \in Contracts : joined[c] = "ANALYZING" => status[c] = "accepted"
  /\ \A t \in Tenants : home[t] # "NONE" => \E c \in Contracts : LivesBy(t, c)

(* Steps that leave the rooms alone and terminate nothing.                 *)
LEMMA HomesStand ==
  ASSUME HomesInv, UNCHANGED <<roomVars, booting>>,
         \A c \in Contracts : status[c] = "accepted" => status'[c] = "accepted"
  PROVE  HomesInv'
<1>1. UNCHANGED <<joined, home>>
  BY DEF roomVars
<1>2. ASSUME NEW t \in Tenants, home[t] # "NONE"  PROVE \E c \in Contracts : LivesBy(t, c)'
  <2>1. PICK c \in Contracts : LivesBy(t, c)
    BY <1>2 DEF HomesInv
  <2> QED
    BY <1>1, <2>1 DEF LivesBy
<1> QED
  BY <1>1, <1>2 DEF HomesInv

(* An accepted contract is joined.                                         *)
LEMMA ConnectHomes ==
  ASSUME HomesInv, RoomTypeOK, NEW c \in Contracts, status[c] = "accepted",
         ConnectAcceptedTradeContract(c), UNCHANGED <<status, booting>>
  PROVE  HomesInv'
<1> DEFINE joins == ~NewerHome(c) /\ (joined[c] = "NONE" \/ home[TenantOf(c)] # ListingOf(c))
<1>1. /\ joined' = IF joins /\ joined[c] = "NONE" THEN [joined EXCEPT ![c] = "ANALYZING"] ELSE joined
      /\ home' = IF joins THEN [home EXCEPT ![TenantOf(c)] = ListingOf(c)] ELSE home
  BY DEF ConnectAcceptedTradeContract
<1> HIDE DEF joins
<1>2. /\ joined \in [Contracts -> {"NONE", "ANALYZING", "EXPIRED"}]
      /\ home \in [Tenants -> Listings \union {"NONE"}] /\ TenantOf(c) \in Tenants
  BY ListingOfIsListing DEF RoomTypeOK, RoomStores
<1>3. CASE ~ joins
  <2>1. UNCHANGED roomVars
    BY <1>1, <1>3 DEF roomVars
  <2> QED
    BY <2>1, HomesStand
<1>4. CASE joins
  <2>1. /\ joined'[c] # "NONE"
        /\ \A d \in Contracts \ {c} : joined'[d] = joined[d]
    BY <1>1, <1>2, <1>4
  <2>2. /\ home'[TenantOf(c)] = ListingOf(c)
        /\ \A t \in Tenants \ {TenantOf(c)} : home'[t] = home[t]
    BY <1>1, <1>2, <1>4
  <2>3. \A d \in Contracts : joined'[d] = "ANALYZING" => status'[d] = "accepted"
    BY <2>1 DEF HomesInv
  <2>4. ASSUME NEW t \in Tenants, home'[t] # "NONE"  PROVE \E d \in Contracts : LivesBy(t, d)'
    <3>1. CASE t = TenantOf(c)
      <4>1. LivesBy(t, c)'
        BY <2>1, <2>2, <3>1 DEF LivesBy
      <4> QED
        BY <4>1
    <3>2. CASE t # TenantOf(c)
      <4>1. home[t] # "NONE" /\ home'[t] = home[t]
        BY <2>2, <2>4, <3>2
      <4>2. PICK d \in Contracts : LivesBy(t, d)
        BY <4>1 DEF HomesInv
      <4>3. d # c
        BY <3>2, <4>2 DEF LivesBy
      <4>4. LivesBy(t, d)'
        BY <2>1, <4>1, <4>2, <4>3 DEF LivesBy
      <4> QED
        BY <4>4
    <3> QED
      BY <3>1, <3>2
  <2> QED
    BY <2>3, <2>4 DEF HomesInv
<1> QED
  BY <1>3, <1>4

(* A contract is terminated, and its room taken away.                      *)
LEMMA TerminateHomes ==
  ASSUME HomesInv, ContractTypeOK, RoomTypeOK, NEW c \in Contracts, TerminateContract(c)
  PROVE  HomesInv'
<1> DEFINE t == TenantOf(c)
           lives == joined[c] # "NONE" /\ home[t] = ListingOf(c)
           others == {ListingOf(d) : d \in {d \in Contracts :
                        TenantOf(d) = t /\ ListingOf(d) # ListingOf(c) /\ joined[d] = "ANALYZING"}}
<1>1. /\ joined' = IF joined[c] = "ANALYZING" THEN [joined EXCEPT ![c] = "EXPIRED"] ELSE joined
      /\ IF lives
           THEN \E h \in IF others = {} THEN {"NONE"} ELSE others : home' = [home EXCEPT ![t] = h]
           ELSE UNCHANGED home
      /\ status' = [status EXCEPT ![c] = "terminated"] /\ booting' = booting
  BY DEF TerminateContract, DisconnectAcceptedTradeContract, processVars
<1>2. /\ joined \in [Contracts -> {"NONE", "ANALYZING", "EXPIRED"}]
      /\ home \in [Tenants -> Listings \union {"NONE"}] /\ t \in Tenants
      /\ status \in [Contracts -> {"NONE", "proposed", "accepted", "declined", "cancelled", "terminated"}]
  BY ListingOfIsListing DEF RoomTypeOK, RoomStores, ContractTypeOK
<1>3. \A d \in Contracts \ {c} : status'[d] = status[d] /\ joined'[d] = joined[d]
  BY <1>1, <1>2
<1>4. joined'[c] # "ANALYZING"
  BY <1>1, <1>2
<1>5. \A d \in Contracts : joined'[d] = "ANALYZING" => status'[d] = "accepted"
  BY <1>3, <1>4 DEF HomesInv
<1>6. ASSUME NEW s \in Tenants, home'[s] = home[s], NEW d \in Contracts \ {c}, LivesBy(s, d)
      PROVE  LivesBy(s, d)'
  BY <1>3, <1>6 DEF LivesBy
<1>7. ASSUME NEW s \in Tenants, home'[s] = home[s], home[s] # "NONE", ~ (s = t /\ lives)
      PROVE  \E d \in Contracts : LivesBy(s, d)'
  <2>1. PICK d \in Contracts : LivesBy(s, d)
    BY <1>7 DEF HomesInv
  <2>2. d # c
    BY <1>7, <2>1 DEF LivesBy
  <2> QED
    BY <1>6, <1>7, <2>1, <2>2
<1>8. CASE lives
  <2>1. PICK h \in IF others = {} THEN {"NONE"} ELSE others : home' = [home EXCEPT ![t] = h]
    BY <1>1, <1>8
  <2>2. home'[t] = h /\ \A s \in Tenants \ {t} : home'[s] = home[s]
    BY <1>2, <2>1
  <2>3. ASSUME h # "NONE"  PROVE \E d \in Contracts : LivesBy(t, d)'
    <3>1. PICK d \in Contracts :
            TenantOf(d) = t /\ ListingOf(d) # ListingOf(c) /\ joined[d] = "ANALYZING" /\ h = ListingOf(d)
      BY <2>1, <2>3
    <3>2. d # c /\ status[d] = "accepted"
      BY <3>1 DEF HomesInv
    <3>3. LivesBy(t, d)'
      BY <1>3, <2>2, <3>1, <3>2 DEF LivesBy
    <3> QED
      BY <3>3
  <2>4. ASSUME NEW s \in Tenants, home'[s] # "NONE"  PROVE \E d \in Contracts : LivesBy(s, d)'
    <3>1. CASE s = t
      BY <2>2, <2>3, <2>4, <3>1
    <3>2. CASE s # t
      BY <1>7, <2>2, <2>4, <3>2
    <3> QED
      BY <3>1, <3>2
  <2> QED
    BY <1>1, <1>5, <2>4 DEF HomesInv
<1>9. CASE ~ lives
  <2>1. home' = home
    BY <1>1, <1>9
  <2>2. ASSUME NEW s \in Tenants, home'[s] # "NONE"  PROVE \E d \in Contracts : LivesBy(s, d)'
    BY <1>7, <1>9, <2>1, <2>2
  <2> QED
    BY <1>1, <1>5, <2>2 DEF HomesInv
<1> QED
  BY <1>8, <1>9

LEMMA HomesStep ==
  TradeInv /\ HomesInv /\ [TradeNext /\ ~ Crash]_tradeVars => HomesInv'
<1> SUFFICES ASSUME TradeInv, HomesInv, [TradeNext /\ ~ Crash]_tradeVars  PROVE HomesInv'
  OBVIOUS
<1>1. ContractTypeOK /\ RoomTypeOK
  BY DEF TradeInv, ContractInv, RoomInv
<1>2. ASSUME NEW c \in Contracts, ContractStep(c)  PROVE HomesInv'
  <2>1. CASE \/ ProposeContract(c)
             \/ \E s \in {"declined", "cancelled"} : EndProposal(c, s)
             \/ RespondContract(c)
    <3>1. /\ UNCHANGED <<roomVars, booting>>
          /\ \/ UNCHANGED status
             \/ status[c] # "accepted" /\ \E s : status' = [status EXCEPT ![c] = s]
      BY <2>1 DEF ProposeContract, EndProposal, RespondContract, contractVars, processVars
    <3>2. \A d \in Contracts : status[d] = "accepted" => status'[d] = "accepted"
      BY <1>1, <3>1 DEF ContractTypeOK
    <3> QED
      BY <3>1, <3>2, HomesStand
  <2>2. CASE Ensure(c)
    <3>1. UNCHANGED <<status, booting>>
      BY <2>2 DEF Ensure, contractVars, processVars
    <3>2. \/ status[c] = "accepted" /\ ConnectAcceptedTradeContract(c)
          \/ UNCHANGED roomVars
      BY <2>2 DEF Ensure
    <3> QED
      BY <1>1, <3>1, <3>2, HomesStand, ConnectHomes
  <2>3. CASE Accepted(c) \/ Released(c) \/ Terminated(c)
    BY <2>3, HomesStand DEF Accepted, Released, Terminated, contractVars, processVars
  <2>4. CASE TerminateContract(c)
    BY <1>1, <2>4, TerminateHomes
  <2>5. ~ BootEnsure(c)
    BY DEF BootEnsure, HomesInv
  <2> QED
    BY <1>2, <2>1, <2>2, <2>3, <2>4, <2>5 DEF ContractStep
<1>3. CASE \/ \E l \in Listings : UpdateListing(l) \/ DeleteListing(l)
           \/ PersistListings \/ PersistRooms \/ ProjectionFails \/ Listen \/ UNCHANGED tradeVars
  BY <1>3, HomesStand DEF UpdateListing, DeleteListing, PersistListings, PersistRooms,
     ProjectionFails, Listen, tradeVars, contractVars, processVars
<1> QED
  BY <1>2, <1>3 DEF TradeNext

(* As long as the process lives, a tenant who was told of a termination is *)
(* out of the room, whatever was accepted and terminated besides, and      *)
(* whichever writes to the database failed: it takes a restart to bring    *)
(* the tenancy back.                                                       *)
THEOREM UnlinkedInOneProcess == UnbrokenTradeSpec => []TerminatedIsUnlinked
<1>1. TradeInit => HomesInv
  BY DEF TradeInit, HomesInv
<1>2. UnbrokenTradeSpec => TradeSpec
  <2>1. [TradeNext /\ ~ Crash]_tradeVars => [TradeNext]_tradeVars
    OBVIOUS
  <2> QED
    BY <2>1, PTL DEF UnbrokenTradeSpec, TradeSpec
<1>3. UnbrokenTradeSpec => []TradeInv
  BY <1>2, TradeInvHolds, PTL
<1>4. HomesInv => TerminatedIsUnlinked
  <2> SUFFICES ASSUME HomesInv, NEW c \in Contracts, home[TenantOf(c)] = ListingOf(c)
               PROVE  \E d \in Of(ListingOf(c), {"accepted"}) : TenantOf(d) = TenantOf(c)
    BY DEF TerminatedIsUnlinked
  <2>1. home[TenantOf(c)] # "NONE" /\ TenantOf(c) \in Tenants
    BY ListingOfIsListing, ListingsAssumption
  <2>2. PICK d \in Contracts : LivesBy(TenantOf(c), d)
    BY <2>1 DEF HomesInv
  <2> QED
    BY <2>2 DEF LivesBy, Of
<1> QED
  BY <1>1, <1>3, <1>4, HomesStep, PTL DEF UnbrokenTradeSpec
=============================================================================
