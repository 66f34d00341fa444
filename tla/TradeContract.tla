---------------------------- MODULE TradeContract ----------------------------
(***************************************************************************)
(* Contracts on listings and the rooms they give to tenants, across two    *)
(* services of one process. The trade service keeps contracts in a file,   *)
(* written with every change, and listings in a database, written behind   *)
(* its memory. The roomlog service keeps the tenants' contracts and rooms, *)
(* written behind its memory as well. The bridge joins an accepted         *)
(* contract to the tenant's room and takes it away again on termination.   *)
(*                                                                         *)
(* A handler runs on between its awaits without interruption, so an action *)
(* is what it does up to the next await. Writes to the database may fail;  *)
(* the process may stop at any await and start again from file and         *)
(* database, and then joins the accepted contracts before it takes calls.  *)
(*                                                                         *)
(* A contract is <<listing, tenant, round>>, and the room of a listing is  *)
(* named after it. The landlord's review, which makes the joined contract  *)
(* an active one, and contracts from other sources are left out.           *)
(***************************************************************************)
EXTENDS Integers, Sequences, FiniteSets

CONSTANTS
  Listings,
  Tenants,
  Contracts,               \* the contracts that may be proposed, of Listings \X Tenants \X Nat
  MaxProposals,            \* bound: contracts proposed
  MaxGenerations,          \* bound: listing generations of a process up to which it takes edits
  MaxDeletions,            \* bound: listings deleted
  MaxFaults                \* bound: failed writes and restarts

ASSUME ContractsAssumption == Contracts \subseteq Listings \X Tenants \X Nat
ASSUME TradeBoundsAssumption ==
  MaxProposals \in Nat /\ MaxGenerations \in Nat /\ MaxDeletions \in Nat /\ MaxFaults \in Nat
ASSUME ListingsAssumption == "NONE" \notin Listings

VARIABLES
  status,                  \* TradeContract.status, saved with every change
  acceptedAt,              \* order of acceptance, 0 before it
  listing,                 \* TradeListing.status in memory, "ABSENT" for no listing
  listingFile,             \* the same in the file
  listingDb,               \* the same in the database
  joined,                  \* lifecycle of the roomlog contract made of it, in memory
  joinedDb,                \* the same in the database
  home,                    \* tenantRooms in memory, "NONE" for no room
  homeDb,                  \* the TenantRoom rows
  listingGen, listingQueue, listingDone, listingFailure,    \* the queue of the trade service
  roomGen, roomQueue, roomDone, roomFailure,                \* and of the roomlog service
  accepting,               \* the handler that accepts a contract
  ending,                  \* the handler that terminates one
  told,                    \* the last success the landlord or the tenant was told
  booting,                 \* contracts a starting process has yet to join
  up,                      \* the process takes calls
  faults                   \* failed writes and restarts so far

listingQueueVars == <<listingGen, listingQueue, listingDone, listingFailure>>
roomQueueVars == <<roomGen, roomQueue, roomDone, roomFailure>>
contractVars == <<status, acceptedAt>>
listingVars == <<listing, listingFile>>
roomVars == <<joined, home>>
dbVars == <<listingDb, joinedDb, homeDb>>
handlerVars == <<accepting, ending, told>>
processVars == <<booting, up, faults>>
tradeVars ==
  <<contractVars, listingVars, roomVars, dbVars, listingQueueVars, roomQueueVars,
    handlerVars, processVars>>

ListingOf(c) == c[1]
TenantOf(c) == c[2]

ListingStores == [Listings -> {"OPEN", "CONTRACTED", "ABSENT"}]
RoomStores ==
  [joined : [Contracts -> {"NONE", "ANALYZING", "EXPIRED"}],
   home : [Tenants -> Listings \union {"NONE"}]]

ListingProjection ==
  INSTANCE StoreProjection WITH Snapshots <- ListingStores, generation <- listingGen,
    queue <- listingQueue, completed <- listingDone, failure <- listingFailure
RoomProjection ==
  INSTANCE StoreProjection WITH Snapshots <- RoomStores, generation <- roomGen,
    queue <- roomQueue, completed <- roomDone, failure <- roomFailure

Idle == [at |-> "IDLE", need |-> 0]
At(place, g) == [at |-> place, need |-> g]
Live == {"proposed", "accepted"}
Of(l, statuses) == {c \in Contracts : ListingOf(c) = l /\ status[c] \in statuses}

(* The contract a termination of the listing is about. At most one         *)
(* contract of a listing is live, so that the last one proposed among      *)
(* those accepted is also the last one accepted.                           *)
IsLatest(c) ==
  LET peers == Of(ListingOf(c), {"accepted", "terminated"})
  IN  c \in peers /\ \A d \in peers : acceptedAt[d] <= acceptedAt[c]

(***************************************************************************)
(* Changes of the listings.                                                *)
(***************************************************************************)
SetListing(l, s) == listing' = [listing EXCEPT ![l] = s] /\ listingFile' = listing'
SaveListing(l, s) == SetListing(l, s) /\ ListingProjection!Project(listing')

ListingUnchanged == UNCHANGED <<listingVars, listingQueueVars>>

(* The rounds number the contracts of a tenant on a listing. *)
NextRound(c) ==
  \A d \in Contracts :
    ListingOf(d) = ListingOf(c) /\ TenantOf(d) = TenantOf(c) /\ d[3] < c[3] => status[d] # "NONE"

ProposeContract(c) ==
  /\ up
  /\ status[c] = "NONE" /\ NextRound(c)
  /\ listing[ListingOf(c)] # "ABSENT"
  /\ Of(ListingOf(c), Live) = {}
  /\ Cardinality({d \in Contracts : status[d] # "NONE"}) < MaxProposals
  /\ status' = [status EXCEPT ![c] = "proposed"]
  /\ listingFile' = listing
  /\ UNCHANGED <<acceptedAt, listing, roomVars, dbVars, listingQueueVars, roomQueueVars,
                 handlerVars, processVars>>

(* The tenant declines or the landlord cancels. *)
EndProposal(c, s) ==
  /\ up
  /\ status[c] = "proposed"
  /\ status' = [status EXCEPT ![c] = s]
  /\ listingFile' = listing
  /\ UNCHANGED <<acceptedAt, listing, roomVars, dbVars, listingQueueVars, roomQueueVars,
                 handlerVars, processVars>>

UpdateListing(l) ==
  /\ up
  /\ listing[l] # "ABSENT"
  /\ listingGen < MaxGenerations
  /\ SaveListing(l, listing[l])
  /\ UNCHANGED <<contractVars, roomVars, dbVars, roomQueueVars, handlerVars, processVars>>

(* Whether there are contracts is not asked. *)
DeleteListing(l) ==
  /\ up
  /\ listing[l] # "ABSENT"
  /\ Cardinality({k \in Listings : listing[k] = "ABSENT"}) < MaxDeletions
  /\ SaveListing(l, "ABSENT")
  /\ UNCHANGED <<contractVars, roomVars, dbVars, roomQueueVars, handlerVars, processVars>>

(***************************************************************************)
(* Joining an accepted contract to the tenant's room.                      *)
(***************************************************************************)
(* The tenant lives in a room by a contract accepted after c. *)
NewerHome(c) ==
  \E d \in Contracts \ {c} :
    /\ joined[d] # "NONE"
    /\ TenantOf(d) = TenantOf(c)
    /\ ListingOf(d) = home[TenantOf(c)]
    /\ acceptedAt[d] > acceptedAt[c]

RoomSnapshot == [joined |-> joined', home |-> home']

(* Saves what was changed, or what the last projection failed to save. *)
SaveRooms(changed) ==
  IF changed \/ RoomProjection!LastFailed
    THEN RoomProjection!Project(RoomSnapshot)
    ELSE UNCHANGED roomQueueVars

ConnectAcceptedTradeContract(c) ==
  LET t == TenantOf(c)
      joins == ~NewerHome(c) /\ (joined[c] = "NONE" \/ home[t] # ListingOf(c))
  IN  /\ joined' = IF joins /\ joined[c] = "NONE" THEN [joined EXCEPT ![c] = "ANALYZING"] ELSE joined
      /\ home' = IF joins THEN [home EXCEPT ![t] = ListingOf(c)] ELSE home
      /\ SaveRooms(joins)

(* The tenant falls back on the room of another contract not yet expired. *)
DisconnectAcceptedTradeContract(c) ==
  LET t == TenantOf(c)
      lives == joined[c] # "NONE" /\ home[t] = ListingOf(c)
      others == {ListingOf(d) : d \in {d \in Contracts :
                   TenantOf(d) = t /\ ListingOf(d) # ListingOf(c) /\ joined[d] = "ANALYZING"}}
  IN  /\ joined' = IF joined[c] = "ANALYZING" THEN [joined EXCEPT ![c] = "EXPIRED"] ELSE joined
      /\ IF lives
           THEN \E h \in IF others = {} THEN {"NONE"} ELSE others : home' = [home EXCEPT ![t] = h]
           ELSE UNCHANGED home
      /\ SaveRooms(lives \/ joined[c] = "ANALYZING")

(***************************************************************************)
(* Accepting: the listing is saved first, then the contract is joined.     *)
(***************************************************************************)
AwaitListing(c) == accepting' = [accepting EXCEPT ![c] = At("LISTING", listingGen')]

EnsureAcceptedListing(c) ==
  LET l == ListingOf(c) IN
  /\ listing[l] # "ABSENT"
  /\ IF listing[l] # "CONTRACTED"
       THEN SaveListing(l, "CONTRACTED")
     ELSE IF ListingProjection!LastFailed
       THEN ListingProjection!Project(listing) /\ UNCHANGED listingVars
       ELSE ListingUnchanged
  /\ AwaitListing(c)

RespondContract(c) ==
  /\ up
  /\ accepting[c] = Idle
  /\ \/ /\ status[c] = "proposed"
        /\ listing[ListingOf(c)] # "ABSENT"
        /\ status' = [status EXCEPT ![c] = "accepted"]
        /\ acceptedAt' = [acceptedAt EXCEPT ![c] =
             1 + Cardinality({d \in Contracts : acceptedAt[d] > 0})]
        /\ SaveListing(ListingOf(c), "CONTRACTED")
        /\ AwaitListing(c)
     \/ /\ status[c] = "accepted"
        /\ EnsureAcceptedListing(c)
        /\ UNCHANGED contractVars
  /\ UNCHANGED <<roomVars, dbVars, roomQueueVars, ending, told, processVars>>

(* Faulty: the contract is joined whatever became of it meanwhile. *)
EnsureWithoutALook(c) ==
  /\ accepting[c].at = "LISTING"
  /\ ListingProjection!Settled(accepting[c].need)
  /\ IF ListingProjection!Saved(accepting[c].need)
       THEN /\ ConnectAcceptedTradeContract(c)
            /\ accepting' = [accepting EXCEPT ![c] = At("ROOM", roomGen')]
       ELSE accepting' = [accepting EXCEPT ![c] = Idle] /\ UNCHANGED <<roomVars, roomQueueVars>>
  /\ UNCHANGED <<contractVars, listingVars, dbVars, listingQueueVars, ending, told, processVars>>

(* The bridge looks at the contract again: it may be terminated by now. *)
Ensure(c) ==
  /\ accepting[c].at = "LISTING"
  /\ ListingProjection!Settled(accepting[c].need)
  /\ IF ListingProjection!Saved(accepting[c].need) /\ status[c] = "accepted"
       THEN /\ ConnectAcceptedTradeContract(c)
            /\ accepting' = [accepting EXCEPT ![c] = At("ROOM", roomGen')]
       ELSE accepting' = [accepting EXCEPT ![c] = Idle] /\ UNCHANGED <<roomVars, roomQueueVars>>
  /\ UNCHANGED <<contractVars, listingVars, dbVars, listingQueueVars, ending, told, processVars>>

(* Faulty: the answer does not look whether the rooms were saved. *)
AcceptedUnsaved(c) ==
  /\ accepting[c].at = "ROOM"
  /\ RoomProjection!Settled(accepting[c].need)
  /\ accepting' = [accepting EXCEPT ![c] = Idle]
  /\ told' = IF status[c] = "accepted" /\ up THEN [told EXCEPT ![c] = "ACCEPTED"] ELSE told
  /\ UNCHANGED <<contractVars, listingVars, roomVars, dbVars, listingQueueVars, roomQueueVars,
                 ending, processVars>>

Accepted(c) ==
  /\ accepting[c].at = "ROOM"
  /\ RoomProjection!Settled(accepting[c].need)
  /\ accepting' = [accepting EXCEPT ![c] = Idle]
  /\ told' = IF RoomProjection!Saved(accepting[c].need) /\ status[c] = "accepted" /\ up
               THEN [told EXCEPT ![c] = "ACCEPTED"]
               ELSE told
  /\ UNCHANGED <<contractVars, listingVars, roomVars, dbVars, listingQueueVars, roomQueueVars,
                 ending, processVars>>

(***************************************************************************)
(* Terminating, by the landlord and of the listing: the contract accepted  *)
(* last is terminated, or its termination completed.                       *)
(***************************************************************************)
TerminateContract(c) ==
  /\ up
  /\ ending[c] = Idle
  /\ listing[ListingOf(c)] # "ABSENT"
  /\ IsLatest(c)
  /\ status' = [status EXCEPT ![c] = "terminated"]
  /\ IF status[c] = "accepted" \/ listing[ListingOf(c)] # "OPEN"
       THEN SaveListing(ListingOf(c), "OPEN")
       ELSE ListingUnchanged
  /\ DisconnectAcceptedTradeContract(c)
  /\ ending' = [ending EXCEPT ![c] = At("ROOM", roomGen')]
  /\ UNCHANGED <<acceptedAt, dbVars, accepting, told, processVars>>

Released(c) ==
  /\ ending[c].at = "ROOM"
  /\ RoomProjection!Settled(ending[c].need)
  /\ ending' = [ending EXCEPT ![c] =
       IF RoomProjection!Saved(ending[c].need) THEN At("LISTING", listingGen) ELSE Idle]
  /\ UNCHANGED <<contractVars, listingVars, roomVars, dbVars, listingQueueVars, roomQueueVars,
                 accepting, told, processVars>>

(* Faulty: the answer does not wait for the listings. *)
TerminatedAtOnce(c) ==
  /\ ending[c].at = "LISTING"
  /\ ending' = [ending EXCEPT ![c] = Idle]
  /\ told' = [told EXCEPT ![c] = "ENDED"]
  /\ UNCHANGED <<contractVars, listingVars, roomVars, dbVars, listingQueueVars, roomQueueVars,
                 accepting, processVars>>

Terminated(c) ==
  /\ ending[c].at = "LISTING"
  /\ ListingProjection!Settled(ending[c].need)
  /\ ending' = [ending EXCEPT ![c] = Idle]
  /\ told' = IF ListingProjection!Saved(ending[c].need) THEN [told EXCEPT ![c] = "ENDED"] ELSE told
  /\ UNCHANGED <<contractVars, listingVars, roomVars, dbVars, listingQueueVars, roomQueueVars,
                 accepting, processVars>>

(***************************************************************************)
(* The database. The listings of a snapshot replace the rows; the rooms of *)
(* a snapshot are written over the rows, and no row is ever deleted.       *)
(***************************************************************************)
PersistListings ==
  /\ ListingProjection!Persist
  /\ listingDb' = Head(listingQueue)
  /\ UNCHANGED <<contractVars, listingVars, roomVars, joinedDb, homeDb, roomQueueVars,
                 handlerVars, processVars>>

PersistRooms ==
  /\ RoomProjection!Persist
  /\ joinedDb' = Head(roomQueue).joined
  /\ homeDb' = [t \in Tenants |->
       IF Head(roomQueue).home[t] = "NONE" THEN homeDb[t] ELSE Head(roomQueue).home[t]]
  /\ UNCHANGED <<contractVars, listingVars, roomVars, listingDb, listingQueueVars,
                 handlerVars, processVars>>

ProjectionFails ==
  /\ faults < MaxFaults
  /\ faults' = faults + 1
  /\ \/ ListingProjection!PersistFails /\ UNCHANGED roomQueueVars
     \/ RoomProjection!PersistFails /\ UNCHANGED listingQueueVars
  /\ UNCHANGED <<contractVars, listingVars, roomVars, dbVars, handlerVars, booting, up>>

(***************************************************************************)
(* The process.                                                            *)
(***************************************************************************)
(* The listings a process starts with: those of the database and, of the   *)
(* file's, those of accepted contracts; or the file's if the database has  *)
(* none.                                                                   *)
Hydrated ==
  [l \in Listings |->
     IF listingDb[l] # "ABSENT" THEN listingDb[l]
     ELSE IF (\A k \in Listings : listingDb[k] = "ABSENT") \/ Of(l, {"accepted"}) # {}
       THEN listingFile[l]
       ELSE "ABSENT"]

Crash ==
  /\ faults < MaxFaults
  /\ faults' = faults + 1
  /\ up' = FALSE
  /\ booting' = {c \in Contracts : status[c] = "accepted"}
  /\ accepting' = [c \in Contracts |-> Idle]
  /\ ending' = [c \in Contracts |-> Idle]
  /\ listing' = Hydrated
  /\ IF Hydrated # listingDb
       THEN listingGen' = 1 /\ listingQueue' = <<Hydrated>> /\ listingDone' = 0 /\ listingFailure' = 0
       ELSE ListingProjection!Restart
  /\ joined' = joinedDb
  /\ home' = homeDb
  /\ RoomProjection!Restart
  /\ UNCHANGED <<contractVars, listingFile, dbVars, told>>

(* Faulty: a starting process takes calls without joining the contracts. *)
BootSkips(c) ==
  /\ c \in booting
  /\ booting' = booting \ {c}
  /\ UNCHANGED <<contractVars, listingVars, roomVars, dbVars, listingQueueVars, roomQueueVars,
                 handlerVars, up, faults>>

(* The contracts are joined one after the other; a failure is passed over. *)
BootEnsure(c) ==
  /\ c \in booting
  /\ \A d \in Contracts : accepting[d] = Idle
  /\ booting' = booting \ {c}
  /\ IF listing[ListingOf(c)] = "ABSENT"
       THEN ListingUnchanged /\ UNCHANGED accepting
       ELSE EnsureAcceptedListing(c)
  /\ UNCHANGED <<contractVars, roomVars, dbVars, roomQueueVars, ending, told, up, faults>>

Listen ==
  /\ ~up
  /\ booting = {}
  /\ \A c \in Contracts : accepting[c] = Idle
  /\ up' = TRUE
  /\ UNCHANGED <<contractVars, listingVars, roomVars, dbVars, listingQueueVars, roomQueueVars,
                 handlerVars, booting, faults>>

(* The listings were created a moment ago, and their rows are on the way. *)
TradeInit ==
  /\ status = [c \in Contracts |-> "NONE"]
  /\ acceptedAt = [c \in Contracts |-> 0]
  /\ listing = [l \in Listings |-> "OPEN"]
  /\ listingFile = listing
  /\ listingDb = [l \in Listings |-> "ABSENT"]
  /\ joined = [c \in Contracts |-> "NONE"]
  /\ joinedDb = joined
  /\ home = [t \in Tenants |-> "NONE"]
  /\ homeDb = home
  /\ listingGen = 1 /\ listingQueue = <<listing>> /\ listingDone = 0 /\ listingFailure = 0
  /\ RoomProjection!ProjectionInit
  /\ accepting = [c \in Contracts |-> Idle]
  /\ ending = [c \in Contracts |-> Idle]
  /\ told = [c \in Contracts |-> "NONE"]
  /\ booting = {}
  /\ up = TRUE
  /\ faults = 0

ContractStep(c) ==
  \/ ProposeContract(c)
  \/ \E s \in {"declined", "cancelled"} : EndProposal(c, s)
  \/ RespondContract(c)
  \/ Ensure(c)
  \/ Accepted(c)
  \/ TerminateContract(c)
  \/ Released(c)
  \/ Terminated(c)
  \/ BootEnsure(c)

TradeNext ==
  \/ \E c \in Contracts : ContractStep(c)
  \/ \E l \in Listings : UpdateListing(l) \/ DeleteListing(l)
  \/ PersistListings
  \/ PersistRooms
  \/ ProjectionFails
  \/ Crash
  \/ Listen

TradeSpec == TradeInit /\ [][TradeNext]_tradeVars

(* The life of one process. *)
UnbrokenTradeSpec == TradeInit /\ [][TradeNext /\ ~ Crash]_tradeVars

(***************************************************************************)
(* Properties.                                                             *)
(***************************************************************************)
(* When the tenant has been told that the contract is accepted, the        *)
(* database has its listing as taken, the tenant's contract and the room,  *)
(* through failed writes and restarts, until the contract is terminated,   *)
(* the tenant accepts another one or the landlord deletes the listing.     *)
AcceptedIsSaved ==
  \A c \in Contracts : told[c] = "ACCEPTED" /\ status[c] = "accepted" =>
    /\ listing[ListingOf(c)] # "ABSENT" => listingDb[ListingOf(c)] = "CONTRACTED"
    /\ (\A d \in Contracts : TenantOf(d) = TenantOf(c) => acceptedAt[d] <= acceptedAt[c])
         => joinedDb[c] = "ANALYZING" /\ homeDb[TenantOf(c)] = ListingOf(c)

(* When the landlord has been told that the contract is terminated, the    *)
(* database has the tenant's contract as expired, if it has one, and the   *)
(* listing as open again, unless another contract on it was accepted.      *)
TerminatedIsSaved ==
  \A c \in Contracts : told[c] = "ENDED" =>
    /\ joinedDb[c] # "ANALYZING"
    /\ IsLatest(c) => listingDb[ListingOf(c)] # "CONTRACTED"

(* A listing with an accepted contract is not offered to others, whatever  *)
(* of it the database had when the process last stopped.                   *)
ContractedIsNotOffered ==
  \A c \in Contracts : up /\ status[c] = "accepted" => listing[ListingOf(c)] # "OPEN"

(* A contract terminated while it is being accepted is not joined any more *)
(* once the termination has found nothing to undo.                         *)
OnlyAcceptedIsJoined ==
  [][\A c \in Contracts :
       joined[c] = "NONE" /\ joined'[c] # "NONE" => status[c] = "accepted"]_tradeVars

(* Once the landlord has been told that the contract is terminated, the    *)
(* tenant does not live in the room of the listing by it.                  *)
TerminatedIsUnlinked ==
  \A c \in Contracts :
    told[c] = "ENDED" /\ home[TenantOf(c)] = ListingOf(c) =>
      \E d \in Of(ListingOf(c), {"accepted"}) : TenantOf(d) = TenantOf(c)
=============================================================================
