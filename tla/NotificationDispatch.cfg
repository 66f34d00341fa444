\* NotificationDispatch
SPECIFICATION DispatchSpec
CONSTANTS
  Deliveries <- MCDeliveries
  Workers = {w1, w2}
  MaxFaults = 2
  Users <- MCUsers
  Targets <- MCTargets
INVARIANTS
  EmittedOncePerFault
PROPERTIES
  LeaseRespected
  ReachableIsDelivered
