--------------------------- MODULE BoardingProofs ---------------------------
(***************************************************************************)
(* Proofs about Boarding for any number of ferries and passengers, any     *)
(* capacities and any limits: the inductive invariant, what follows from   *)
(* it, and that Boarding implements WaitingRoom and Voyages.               *)
(***************************************************************************)
EXTENDS Boarding, ArraysProofs, FiniteSetTheorems

USE PortAssumption DEF AllPassengersEnded

\* IInv but for the list of pids, which no other part depends on.
PortInv ==
  /\ TypeOK
  /\ SlotsOwned
  /\ GangwayMirrorsPassengers
  /\ FerrySlots
  /\ FoundFerriesWait
  /\ LastTrips
  /\ FinishedForGood

LEMMA PortOfInvariant == IInv <=> PortInv /\ PassengersListed
BY DEF IInv, PortInv

LEMMA InitInvariant == Init => IInv
<1> SUFFICES ASSUME Init PROVE IInv
  OBVIOUS
<1> USE DEF Init
<1>1. TypeOK
  <2>1. ferries \in [FerryIds -> FerryInfo]
    BY DEF FerryInfo, NoPassengers
  <2>2. gangway \in [num_people : 0 .. GANGWAY_CAPACITY,
                     passenger_ids : [0 .. (GANGWAY_CAPACITY - 1) -> Ids \cup {-1}]]
    OBVIOUS
  <2>3. /\ fpc \in [FerryPids -> FerryPcs]
        /\ ppc \in [PassengerPids -> PassengerPcs]
    BY DEF FerryPcs, PassengerPcs
  <2>4. QED
    BY <2>1, <2>2, <2>3 DEF TypeOK
<1>2. SlotsOwned /\ FoundFerriesWait /\ FinishedForGood
  BY DEF SlotsOwned, FoundFerriesWait, FoundFerryWaits, FinishedForGood, StayingPcs, GangwayPcs
<1>3. GangwayMirrorsPassengers
  BY DEF GangwayMirrorsPassengers, OnGangway, Distinct, Window, GangwayPcs
<1>4. FerrySlots /\ LastTrips
  BY DEF FerrySlots, LastTrips, LastTrip, FerrySlotPcs, OpenPcs
<1>5. PassengersListed
  BY DEF PassengersListed, PassengerLockPcs, GangwayPcs
<1>6. QED
  BY <1>1, <1>2, <1>3, <1>4, <1>5 DEF IInv

-----------------------------------------------------------------------------
(* The ferry: its steps leave the passengers and the gangway alone. *)

LEMMA FerryLeavesPassengers ==
  ASSUME PortInv, UNCHANGED othersOfFerry
  PROVE  SlotsOwned' /\ GangwayMirrorsPassengers' /\ FinishedForGood'
BY DEF othersOfFerry, flags, passengerLocals, PortInv, SlotsOwned, GangwayMirrorsPassengers,
       OnGangway, FinishedForGood

\* What a ferry does to its slot while the slot is not open concerns no passenger.
LEMMA ClosedFerryChanges ==
  ASSUME PortInv, UNCHANGED <<othersOfFerry, history>>, NEW k,
         k \in FerryIds => ~(ferries[k].active /\ ferries[k].status = "BOARDING"),
         \A j \in FerryIds \ {k} : ferries'[j] = ferries[j]
  PROVE  FoundFerriesWait'
<1> USE DEF othersOfFerry, passengerLocals, history
<1> SUFFICES ASSUME NEW p \in PassengerPids PROVE FoundFerryWaits(p)'
  BY DEF FoundFerriesWait
<1>1. FoundFerryWaits(p) /\ ferry_id[p] \in FerryIds \cup {-1}
  BY DEF PortInv, TypeOK, FoundFerriesWait
<1>2. CASE ferry_id[p] = k
  BY <1>1, <1>2 DEF FoundFerryWaits, AboardPcs
<1>3. CASE ferry_id[p] # k
  BY <1>1, <1>3 DEF FoundFerryWaits
<1>4. QED
  BY <1>2, <1>3

LEMMA SameFerries ==
  ASSUME PortInv, UNCHANGED <<othersOfFerry, ferries, history>>
  PROVE  FoundFerriesWait'
BY DEF othersOfFerry, passengerLocals, history, PortInv, FoundFerriesWait, FoundFerryWaits

\* What the step of ferry f does not change about the other ferries.
LEMMA OtherFerries ==
  ASSUME PortInv, NEW f \in FerryPids, NEW k \in FerryIds, my_ferry[f] = k,
         UNCHANGED <<my_ferry, othersOfFerry>>,
         fpc' = [fpc EXCEPT ![f] = fpc'[f]],
         fpc[f] \in FerrySlotPcs, fpc'[f] \in FerrySlotPcs,
         fpc'[f] = "open" => ferries'[k].num_passengers = 0,
         ferries' = [ferries EXCEPT ![k] = ferries'[k]],
         ferries'[k].active,
         ferries'[k].status = "BOARDING" <=> fpc'[f] \in OpenPcs
  PROVE  FerrySlots'
<1>1. /\ FerrySlots
      /\ fpc \in [FerryPids -> FerryPcs]
      /\ my_ferry \in [FerryPids -> FerryIds \cup {-1}]
      /\ ferries \in [FerryIds -> FerryInfo]
      /\ k # -1
  BY DEF PortInv, TypeOK, FerryIds
<1>2. \A g \in FerryPids : g # f => fpc'[g] = fpc[g] /\ my_ferry[g] # k
  BY <1>1 DEF FerrySlots
<1>3. \A j \in FerryIds : j # k => ferries'[j] = ferries[j]
  BY <1>1
<1>4. ASSUME NEW g \in FerryPids, my_ferry[g] # -1
      PROVE  /\ ferries'[my_ferry[g]].active
             /\ fpc'[g] # "killed" =>
                  (ferries'[my_ferry[g]].status = "BOARDING" <=> fpc'[g] \in OpenPcs)
  <2>1. CASE g = f
    BY <2>1
  <2>2. CASE g # f
    BY <1>1, <1>2, <1>3, <1>4, <2>2 DEF FerrySlots
  <2>3. QED
    BY <2>1, <2>2
<1>5. \A g \in FerryPids : fpc'[g] = "open" => ferries'[my_ferry[g]].num_passengers = 0
  <2>1. \A g \in FerryPids : fpc[g] = "open" => my_ferry[g] \in FerryIds
    BY <1>1 DEF FerrySlots, FerrySlotPcs
  <2>2. QED
    BY <1>1, <1>2, <1>3, <2>1 DEF FerrySlots
<1>6. \A g \in FerryPids :
        /\ fpc'[g] \in FerrySlotPcs \cup {"unregister"} => my_ferry[g] # -1
        /\ fpc'[g] \in {"start", "register", "ended"} => my_ferry[g] = -1
  BY <1>1, <1>2 DEF FerrySlots, FerrySlotPcs, OpenPcs
<1>7. \A j \in FerryIds :
        /\ ferries'[j].active => \E g \in FerryPids : my_ferry[g] = j
        /\ ~ferries'[j].active => ferries'[j].status # "BOARDING"
  BY <1>1, <1>3 DEF FerrySlots
<1>8. QED
  BY <1>1, <1>4, <1>5, <1>6, <1>7 DEF FerrySlots

\* A ferry that moves on and leaves all slots as they are.
LEMMA MovedFerry ==
  ASSUME PortInv, NEW f \in FerryPids, UNCHANGED <<ferries, my_ferry>>,
         fpc' = [fpc EXCEPT ![f] = fpc'[f]],
         fpc'[f] \in FerrySlotPcs \cup {"unregister"} => my_ferry[f] # -1,
         fpc'[f] \in {"start", "register", "ended"} => my_ferry[f] = -1,
         my_ferry[f] # -1 => (fpc[f] \in OpenPcs <=> fpc'[f] \in OpenPcs),
         fpc[f] # "killed", fpc'[f] # "open"
  PROVE  FerrySlots'
<1>1. FerrySlots /\ fpc \in [FerryPids -> FerryPcs]
  BY DEF PortInv, TypeOK
<1>2. QED
  BY <1>1 DEF FerrySlots

\* A ferry that moves on, but not into the boarding loop or out to sea.
LEMMA MovedTrip ==
  ASSUME PortInv, NEW f \in FerryPids, UNCHANGED <<othersOfFerry, late_departures, should_exit>>,
         fpc' = [fpc EXCEPT ![f] = fpc'[f]],
         fpc'[f] \notin {"finished", "full", "limit", "gangway", "sail"},
         fpc[f] \in {"sailing", "returned", "unregister_pid", "unregister"} =>
           \/ fpc'[f] \in {"returned", "unregister_pid", "unregister", "ended"}
           \/ ~should_exit[f],
         fpc[f] \notin {"ended", "killed"}
  PROVE  LastTrips'
<1>1. LastTrips /\ fpc \in [FerryPids -> FerryPcs]
  BY DEF PortInv, TypeOK
<1>2. UNCHANGED signal1_received
  BY DEF othersOfFerry, flags
<1>3. QED
  BY <1>1, <1>2 DEF LastTrips, LastTrip

LEMMA FerryTypes ==
  ASSUME TypeOK, UNCHANGED othersOfFerry,
         ferries' \in [FerryIds -> FerryInfo], ferry_pids' \subseteq FerryPids,
         fpc' \in [FerryPids -> FerryPcs],
         my_ferry' \in [FerryPids -> FerryIds \cup {-1}],
         UNCHANGED force_departure_flag,
         should_exit' \in [FerryPids -> BOOLEAN], waited' \in [FerryPids -> Nat],
         sailed' \in [PassengerPids -> BOOLEAN], late_departures' \in [FerryPids -> Nat]
  PROVE  TypeOK'
BY DEF TypeOK, othersOfFerry, flags, passengerLocals

LEMMA RegisterFerryPidInvariant ==
  ASSUME PortInv, NEW f \in FerryPids, RegisterFerryPid(f)
  PROVE  PortInv'
<1> USE DEF ferryLocals, history
<1>1. TypeOK /\ FerrySlots
  BY DEF PortInv
<1>2. /\ fpc[f] = "start" /\ fpc'[f] \in {"register", "ended"}
      /\ fpc' = [fpc EXCEPT ![f] = fpc'[f]]
      /\ ferry_pids' \subseteq FerryPids
      /\ UNCHANGED <<ferries, ferryLocals, othersOfFerry, history>>
  BY <1>1 DEF RegisterFerryPid, FerryGoto, TypeOK
<1>3. TypeOK'
  BY <1>1, <1>2 DEF TypeOK, othersOfFerry, flags, passengerLocals, FerryPcs
<1>4. my_ferry[f] = -1
  BY <1>1, <1>2 DEF FerrySlots
<1>5. FerrySlots'
  BY <1>2, <1>4, MovedFerry DEF FerrySlotPcs, OpenPcs
<1>6. FoundFerriesWait' /\ LastTrips'
  BY <1>2, SameFerries, MovedTrip
<1>7. QED
  BY <1>2, <1>3, <1>5, <1>6, FerryLeavesPassengers DEF PortInv

LEMMA RegisterFerryInvariant ==
  ASSUME PortInv, NEW f \in FerryPids, RegisterFerry(f)
  PROVE  PortInv'
<1> USE DEF history
<1>1. /\ TypeOK /\ FerrySlots
      /\ fpc[f] = "register"
      /\ UNCHANGED <<ferry_pids, force_departure_flag, should_exit, waited,
                     othersOfFerry, history>>
      /\ my_ferry[f] = -1
  BY DEF PortInv, FerrySlots, RegisterFerry
<1>2. CASE fpc' = [fpc EXCEPT ![f] = "unregister_pid"] /\ UNCHANGED <<ferries, my_ferry>>
  <2>1. fpc'[f] = "unregister_pid" /\ fpc' = [fpc EXCEPT ![f] = fpc'[f]]
    BY <1>1, <1>2 DEF TypeOK
  <2>2. TypeOK'
    BY <1>1, <1>2, FerryTypes DEF TypeOK, FerryPcs
  <2>3. FerrySlots'
    BY <1>1, <1>2, <2>1, MovedFerry DEF FerrySlotPcs, OpenPcs
  <2>4. FoundFerriesWait' /\ LastTrips'
    BY <1>1, <1>2, <2>1, SameFerries, MovedTrip
  <2>5. QED
    BY <1>1, <2>2, <2>3, <2>4, FerryLeavesPassengers DEF PortInv
<1>3. ASSUME NEW k \in FerryIds, NEW limit \in LuggageLimits, ~ferries[k].active,
             ferries' = [ferries EXCEPT ![k] =
               [active |-> TRUE, status |-> "IDLE", num_passengers |-> 0,
                passenger_ids |-> NoPassengers, max_luggage_weight |-> limit]],
             my_ferry' = [my_ferry EXCEPT ![f] = k],
             fpc' = [fpc EXCEPT ![f] = "reset"]
      PROVE  PortInv'
  <2>1. /\ fpc \in [FerryPids -> FerryPcs]
        /\ my_ferry \in [FerryPids -> FerryIds \cup {-1}]
        /\ ferries \in [FerryIds -> FerryInfo]
    BY <1>1 DEF TypeOK
  <2>2. /\ fpc'[f] = "reset" /\ my_ferry'[f] = k
        /\ fpc' = [fpc EXCEPT ![f] = fpc'[f]]
        /\ \A g \in FerryPids : g # f => my_ferry'[g] = my_ferry[g] /\ fpc'[g] = fpc[g]
    BY <1>3, <2>1
  <2>3. /\ ferries'[k].active /\ ferries'[k].status = "IDLE"
        /\ \A j \in FerryIds : j # k => ferries'[j] = ferries[j]
    BY <1>3, <2>1
  <2>4. TypeOK'
    <3>1. ferries' \in [FerryIds -> FerryInfo]
      BY <1>3, <2>1 DEF FerryInfo, NoPassengers
    <3>2. /\ fpc' \in [FerryPids -> FerryPcs]
          /\ my_ferry' \in [FerryPids -> FerryIds \cup {-1}]
      BY <1>3, <2>1 DEF FerryPcs, FerrySlotPcs
    <3>3. QED
      BY <1>1, <3>1, <3>2, FerryTypes DEF TypeOK
  <2>5. FerrySlots'
    <3>1. k # -1 /\ \A g \in FerryPids : my_ferry[g] # k
      BY <1>1, <1>3 DEF FerrySlots, FerryIds
    <3>2. ASSUME NEW g \in FerryPids
          PROVE  /\ fpc'[g] \in FerrySlotPcs \cup {"unregister"} => my_ferry'[g] # -1
                 /\ fpc'[g] \in {"start", "register", "ended"} => my_ferry'[g] = -1
                 /\ my_ferry'[g] # -1 =>
                      /\ ferries'[my_ferry'[g]].active
                      /\ fpc'[g] # "killed" =>
                           (ferries'[my_ferry'[g]].status = "BOARDING" <=> fpc'[g] \in OpenPcs)
                 /\ fpc'[g] = "open" => ferries'[my_ferry'[g]].num_passengers = 0
      <4>1. CASE g = f
        BY <2>2, <2>3, <3>1, <4>1 DEF OpenPcs
      <4>2. CASE g # f
        <5>1. fpc[g] = "open" => my_ferry[g] \in FerryIds
          BY <1>1, <2>1 DEF FerrySlots, FerrySlotPcs
        <5>2. QED
          BY <1>1, <2>1, <2>2, <2>3, <3>1, <4>2, <5>1 DEF FerrySlots
      <4>3. QED
        BY <4>1, <4>2
    <3>3. \A j \in FerryIds :
            /\ ferries'[j].active => \E g \in FerryPids : my_ferry'[g] = j
            /\ ~ferries'[j].active => ferries'[j].status # "BOARDING"
      <4>1. ASSUME NEW j \in FerryIds, j # k, ferries[j].active
            PROVE  \E g \in FerryPids : my_ferry'[g] = j
        BY <1>1, <2>2, <4>1 DEF FerrySlots, FerryIds
      <4>2. QED
        BY <1>1, <2>2, <2>3, <4>1 DEF FerrySlots
    <3>4. \A g, h \in FerryPids : g # h /\ my_ferry'[g] # -1 => my_ferry'[g] # my_ferry'[h]
      BY <1>1, <2>2, <3>1 DEF FerrySlots
    <3>5. QED
      BY <3>2, <3>3, <3>4 DEF FerrySlots
  <2>6. FoundFerriesWait' /\ LastTrips'
    BY <1>1, <1>3, <2>2, <2>3, ClosedFerryChanges, MovedTrip
  <2>7. QED
    BY <1>1, <2>4, <2>5, <2>6, FerryLeavesPassengers DEF PortInv
<1>4. QED
  BY <1>2, <1>3 DEF RegisterFerry, FirstFreeFerry, FerryGoto

LEMMA OwnSlot ==
  ASSUME PortInv, NEW f \in FerryPids, fpc[f] \in FerrySlotPcs \cup {"unregister"}
  PROVE  /\ my_ferry[f] \in FerryIds
         /\ ferries[my_ferry[f]] \in FerryInfo
         /\ ferries[my_ferry[f]].active
         /\ ferries[my_ferry[f]].status = "BOARDING" <=> fpc[f] \in OpenPcs
         /\ fpc[f] = "open" => ferries[my_ferry[f]].num_passengers = 0
BY DEF PortInv, TypeOK, FerrySlots, FerrySlotPcs, OpenPcs

\* A ferry that works on its own slot while passengers cannot board.
LEMMA ClosedFerryMoves ==
  ASSUME PortInv, NEW f \in FerryPids, NEW k \in FerryIds, my_ferry[f] = k,
         UNCHANGED <<my_ferry, ferry_pids, force_departure_flag, should_exit, othersOfFerry,
                     history>>,
         fpc' = [fpc EXCEPT ![f] = fpc'[f]],
         fpc[f] \in FerrySlotPcs \ OpenPcs, fpc'[f] \in FerrySlotPcs,
         fpc'[f] \notin {"finished", "full", "limit", "gangway", "sail"},
         fpc[f] \in {"sailing", "returned"} => fpc'[f] = "returned" \/ ~should_exit[f],
         waited' \in [FerryPids -> Nat],
         ferries'[k] \in FerryInfo,
         ferries' = [ferries EXCEPT ![k] = ferries'[k]],
         ferries'[k].active,
         fpc'[f] = "open" => ferries'[k].num_passengers = 0,
         ferries'[k].status = "BOARDING" <=> fpc'[f] \in OpenPcs
  PROVE  PortInv'
<1>1. TypeOK
  BY DEF PortInv
<1>2. /\ ferries[k].status # "BOARDING"
      /\ fpc \in [FerryPids -> FerryPcs]
      /\ ferries \in [FerryIds -> FerryInfo]
  BY <1>1, OwnSlot DEF TypeOK
<1>3. FerrySlots'
  BY <1>2, OtherFerries
<1>4. TypeOK'
  <2>1. ferries' \in [FerryIds -> FerryInfo] /\ fpc' \in [FerryPids -> FerryPcs]
    BY <1>2 DEF FerryPcs
  <2>2. QED
    BY <1>1, <2>1, FerryTypes DEF TypeOK, history
<1>5. FoundFerriesWait'
  BY <1>2, ClosedFerryChanges
<1>6. LastTrips'
  BY MovedTrip DEF FerrySlotPcs, history
<1>7. QED
  BY <1>3, <1>4, <1>5, <1>6, FerryLeavesPassengers DEF PortInv

LEMMA ResetFerryInvariant ==
  ASSUME PortInv, NEW f \in FerryPids, ResetFerry(f)
  PROVE  PortInv'
<1> DEFINE k == my_ferry[f]
<1>0. /\ fpc \in [FerryPids -> FerryPcs] /\ waited \in [FerryPids -> Nat]
      /\ ferries \in [FerryIds -> FerryInfo]
      /\ fpc[f] = "reset"
      /\ k \in FerryIds
      /\ ferries[k] \in FerryInfo
      /\ ferries[k].active
      /\ ferries[k].status # "BOARDING"
  BY OwnSlot DEF PortInv, TypeOK, FerrySlotPcs, OpenPcs, ResetFerry
<1> HIDE DEF k
<1> USE <1>0 DEF FerryGoto, ferryLocals, FerrySlotPcs, OpenPcs
<1>1. NoPassengers \in [0 .. (FERRY_CAPACITY - 1) -> Ids \cup {-1}]
  BY DEF NoPassengers
<1>2. ferries' = [ferries EXCEPT ![k].num_passengers = 0, ![k].passenger_ids = NoPassengers]
  BY DEF ResetFerry, k
<1>3. \A j \in FerryIds : ferries'[j] =
        IF j = k THEN [ferries[k] EXCEPT !.num_passengers = 0, !.passenger_ids = NoPassengers]
                 ELSE ferries[j]
  BY <1>2
<1>4. ferries'[k] \in FerryInfo
  <2>1. ferries'[k] = [ferries[k] EXCEPT !.num_passengers = 0,
                                         !.passenger_ids = NoPassengers]
    BY <1>3
  <2>2. 0 \in 0 .. FERRY_CAPACITY
    OBVIOUS
  <2>3. QED
    BY ONLY ferries[k] \in FerryInfo, <1>1, <2>1, <2>2 DEF FerryInfo
<1>5. /\ ferries' = [ferries EXCEPT ![k] = ferries'[k]]
      /\ ferries'[k].active
      /\ ferries'[k].num_passengers = 0
      /\ ferries'[k].status # "BOARDING"
  BY <1>2, <1>3 DEF FerryInfo
<1>6. QED
  BY <1>4, <1>5, ClosedFerryMoves DEF ResetFerry, k

LEMMA OpenFerryInvariant ==
  ASSUME PortInv, NEW f \in FerryPids, OpenFerry(f)
  PROVE  PortInv'
<1> DEFINE k == my_ferry[f]
<1>0. /\ fpc \in [FerryPids -> FerryPcs] /\ waited \in [FerryPids -> Nat]
      /\ ferries \in [FerryIds -> FerryInfo]
      /\ fpc[f] = "open"
      /\ k \in FerryIds
      /\ ferries[k] \in FerryInfo
      /\ ferries[k].active
      /\ ferries[k].status # "BOARDING"
      /\ ferries[k].num_passengers = 0
  BY OwnSlot DEF PortInv, TypeOK, FerrySlotPcs, OpenPcs, OpenFerry
<1> HIDE DEF k
<1> USE <1>0 DEF FerryGoto, ferryLocals, FerrySlotPcs, OpenPcs
<1>1. ferries' = [ferries EXCEPT ![k].status = "BOARDING"]
  BY DEF OpenFerry, k
<1>2. /\ ferries'[k] \in FerryInfo
      /\ ferries' = [ferries EXCEPT ![k] = ferries'[k]]
      /\ ferries'[k].active
      /\ ferries'[k].status = "BOARDING"
  BY <1>1 DEF FerryInfo
<1>3. QED
  BY <1>2, ClosedFerryMoves DEF OpenFerry, k

LEMMA ReturnToPortInvariant ==
  ASSUME PortInv, NEW f \in FerryPids, ReturnToPort(f)
  PROVE  PortInv'
<1> DEFINE k == my_ferry[f]
<1>0. /\ fpc \in [FerryPids -> FerryPcs] /\ waited \in [FerryPids -> Nat]
      /\ ferries \in [FerryIds -> FerryInfo]
      /\ fpc[f] = "sailing"
      /\ k \in FerryIds
      /\ ferries[k] \in FerryInfo
      /\ ferries[k].active
      /\ ferries[k].status # "BOARDING"
  BY OwnSlot DEF PortInv, TypeOK, FerrySlotPcs, OpenPcs, ReturnToPort
<1> HIDE DEF k
<1> USE <1>0 DEF FerryGoto, ferryLocals, FerrySlotPcs, OpenPcs
<1>1. ferries' = [ferries EXCEPT ![k].status = "RETURNING"]
  BY DEF ReturnToPort, k
<1>2. /\ ferries'[k] \in FerryInfo
      /\ ferries' = [ferries EXCEPT ![k] = ferries'[k]]
      /\ ferries'[k].active
      /\ ferries'[k].status = "RETURNING"
  BY <1>1 DEF FerryInfo
<1>3. QED
  BY <1>2, ClosedFerryMoves DEF ReturnToPort, k

LEMMA AnotherTripInvariant ==
  ASSUME PortInv, NEW f \in FerryPids, NextTrip(f), ~should_exit[f]
  PROVE  PortInv'
<1> DEFINE k == my_ferry[f]
<1>1. /\ fpc \in [FerryPids -> FerryPcs] /\ waited \in [FerryPids -> Nat]
      /\ ferries \in [FerryIds -> FerryInfo]
      /\ fpc[f] = "returned"
      /\ k \in FerryIds
      /\ ferries[k] \in FerryInfo
      /\ ferries[k].active
      /\ ferries[k].status # "BOARDING"
  BY OwnSlot DEF PortInv, TypeOK, FerrySlotPcs, OpenPcs, NextTrip
<1> HIDE DEF k
<1>2. /\ UNCHANGED <<ferries, ferry_pids, ferryLocals, othersOfFerry, history>>
      /\ fpc' = [fpc EXCEPT ![f] = fpc'[f]] /\ fpc'[f] \in {"reset", "new_limit"}
  BY <1>1 DEF NextTrip, FerryGoto
<1>3. ferries' = [ferries EXCEPT ![k] = ferries'[k]]
  BY <1>1, <1>2
<1>4. QED
  BY <1>1, <1>2, <1>3, ClosedFerryMoves DEF ferryLocals, FerrySlotPcs, OpenPcs, k

LEMMA NewLimitInvariant ==
  ASSUME PortInv, NEW f \in FerryPids, NewLimit(f)
  PROVE  PortInv'
<1> DEFINE k == my_ferry[f]
<1>0. /\ fpc \in [FerryPids -> FerryPcs] /\ waited \in [FerryPids -> Nat]
      /\ ferries \in [FerryIds -> FerryInfo]
      /\ fpc[f] = "new_limit"
      /\ k \in FerryIds
      /\ ferries[k] \in FerryInfo
      /\ ferries[k].active
      /\ ferries[k].status # "BOARDING"
  BY OwnSlot DEF PortInv, TypeOK, FerrySlotPcs, OpenPcs, NewLimit
<1> HIDE DEF k
<1> USE <1>0 DEF FerryGoto, ferryLocals, FerrySlotPcs, OpenPcs
<1>1. /\ ferries'[k] \in FerryInfo
      /\ ferries' = [ferries EXCEPT ![k] = ferries'[k]]
      /\ ferries'[k].active
      /\ ferries'[k].status # "BOARDING"
  <2>1. ASSUME NEW limit \in LuggageLimits,
               ferries' = [ferries EXCEPT ![k].max_luggage_weight = limit]
        PROVE  /\ ferries'[k] \in FerryInfo
               /\ ferries' = [ferries EXCEPT ![k] = ferries'[k]]
               /\ ferries'[k].active
               /\ ferries'[k].status # "BOARDING"
    BY <2>1 DEF FerryInfo
  <2>2. QED
    BY <2>1 DEF NewLimit, k
<1>2. QED
  BY <1>1, ClosedFerryMoves DEF NewLimit, k

\* The last trip is over: the way out begins, and ends with or without a slot.
LEMMA FerryLeavesInvariant ==
  ASSUME PortInv, NEW f \in FerryPids,
         (NextTrip(f) /\ should_exit[f]) \/ UnregisterFerryPid(f)
  PROVE  PortInv'
<1>1. /\ TypeOK /\ FerrySlots
      /\ fpc[f] \in {"returned", "unregister_pid"}
      /\ UNCHANGED <<ferries, ferryLocals, othersOfFerry, history>>
  BY DEF PortInv, NextTrip, UnregisterFerryPid
<1>2. /\ fpc' = [fpc EXCEPT ![f] = fpc'[f]]
      /\ fpc'[f] = IF fpc[f] = "returned" THEN "unregister_pid"
                   ELSE IF my_ferry[f] = -1 THEN "ended" ELSE "unregister"
  BY <1>1 DEF TypeOK, NextTrip, UnregisterFerryPid, FerryGoto
<1>3. ferry_pids' \subseteq FerryPids
  BY <1>1 DEF TypeOK, NextTrip, UnregisterFerryPid
<1> USE DEF ferryLocals, history
<1>4. TypeOK'
  BY <1>1, <1>2, <1>3, FerryTypes DEF TypeOK, FerryPcs
<1>5. FerrySlots'
  BY <1>1, <1>2, MovedFerry DEF FerrySlotPcs, OpenPcs
<1>6. FoundFerriesWait'
  BY <1>1, SameFerries
<1>7. LastTrips'
  BY <1>1, <1>2, MovedTrip
<1>8. QED
  BY <1>1, <1>4, <1>5, <1>6, <1>7, FerryLeavesPassengers DEF PortInv

LEMMA UnregisterFerryInvariant ==
  ASSUME PortInv, NEW f \in FerryPids, UnregisterFerry(f)
  PROVE  PortInv'
<1> DEFINE k == my_ferry[f]
<1> USE DEF history
<1>1. /\ TypeOK /\ FerrySlots
      /\ fpc[f] = "unregister"
      /\ UNCHANGED <<ferry_pids, force_departure_flag, should_exit, waited, othersOfFerry,
                     history>>
      /\ my_ferry' = [my_ferry EXCEPT ![f] = -1]
      /\ ferries' = [ferries EXCEPT ![k].active = FALSE]
      /\ fpc' = [fpc EXCEPT ![f] = "ended"]
  BY DEF PortInv, UnregisterFerry, FerryGoto
<1>2. /\ fpc \in [FerryPids -> FerryPcs]
      /\ my_ferry \in [FerryPids -> FerryIds \cup {-1}]
      /\ ferries \in [FerryIds -> FerryInfo]
      /\ k \in FerryIds /\ k # -1 /\ ferries[k] \in FerryInfo
      /\ ferries[k].status # "BOARDING"
  <2>1. /\ k \in FerryIds /\ ferries[k] \in FerryInfo
        /\ ferries[k].status = "BOARDING" <=> fpc[f] \in OpenPcs
    BY <1>1, OwnSlot
  <2>2. k # -1
    BY <2>1 DEF FerryIds
  <2>3. QED
    BY <1>1, <2>1, <2>2 DEF TypeOK, OpenPcs
<1> HIDE DEF k
<1>3. /\ fpc'[f] = "ended" /\ my_ferry'[f] = -1 /\ fpc' = [fpc EXCEPT ![f] = fpc'[f]]
      /\ \A g \in FerryPids : g # f => fpc'[g] = fpc[g] /\ my_ferry'[g] = my_ferry[g]
      /\ \A j \in FerryIds : j # k => ferries'[j] = ferries[j]
      /\ ~ferries'[k].active /\ ferries'[k].status # "BOARDING"
  BY <1>1, <1>2 DEF FerryInfo
<1>4. TypeOK'
  <2>1. ferries' \in [FerryIds -> FerryInfo]
    BY <1>1, <1>2 DEF FerryInfo
  <2>2. /\ fpc' \in [FerryPids -> FerryPcs]
        /\ my_ferry' \in [FerryPids -> FerryIds \cup {-1}]
    BY <1>1, <1>2 DEF FerryPcs
  <2>3. QED
    BY <1>1, <2>1, <2>2, FerryTypes DEF TypeOK
<1>5. FerrySlots'
  <2>1. \A g \in FerryPids : g # f => my_ferry[g] # k
    BY <1>1, <1>2 DEF FerrySlots, k
  <2>2. ASSUME NEW g \in FerryPids
        PROVE  /\ fpc'[g] \in FerrySlotPcs \cup {"unregister"} => my_ferry'[g] # -1
               /\ fpc'[g] \in {"start", "register", "ended"} => my_ferry'[g] = -1
               /\ my_ferry'[g] # -1 =>
                    /\ ferries'[my_ferry'[g]].active
                    /\ fpc'[g] # "killed" =>
                         (ferries'[my_ferry'[g]].status = "BOARDING" <=> fpc'[g] \in OpenPcs)
               /\ fpc'[g] = "open" => ferries'[my_ferry'[g]].num_passengers = 0
    <3>1. CASE g = f
      BY <1>3, <3>1 DEF FerrySlotPcs, OpenPcs
    <3>2. CASE g # f
      <4>1. fpc[g] = "open" => my_ferry[g] \in FerryIds
        BY <1>1, <1>2 DEF FerrySlots, FerrySlotPcs
      <4>2. QED
        BY <1>1, <1>2, <1>3, <2>1, <3>2, <4>1 DEF FerrySlots
    <3>3. QED
      BY <3>1, <3>2
  <2>3. \A j \in FerryIds :
          /\ ferries'[j].active => \E g \in FerryPids : my_ferry'[g] = j
          /\ ~ferries'[j].active => ferries'[j].status # "BOARDING"
    <3>1. ASSUME NEW j \in FerryIds, j # k, ferries[j].active
          PROVE  \E g \in FerryPids : my_ferry'[g] = j
      BY <1>1, <1>3, <3>1 DEF FerrySlots, k
    <3>2. QED
      BY <1>1, <1>3, <3>1 DEF FerrySlots
  <2>4. \A g, h \in FerryPids : g # h /\ my_ferry'[g] # -1 => my_ferry'[g] # my_ferry'[h]
    BY <1>1, <1>3 DEF FerrySlots
  <2>5. QED
    BY <2>2, <2>3, <2>4 DEF FerrySlots
<1>6. FoundFerriesWait' /\ LastTrips'
  BY <1>1, <1>2, <1>3, ClosedFerryChanges, MovedTrip
<1>7. QED
  BY <1>1, <1>4, <1>5, <1>6, FerryLeavesPassengers DEF PortInv

LEMMA BoardingRoundInvariant ==
  ASSUME PortInv, NEW f \in FerryPids, BoardingRound(f) \/ WaitForGangway(f)
  PROVE  PortInv'
<1>1. /\ TypeOK /\ LastTrips
      /\ fpc \in [FerryPids -> FerryPcs]
      /\ should_exit \in [FerryPids -> BOOLEAN]
      /\ waited \in [FerryPids -> Nat]
  BY DEF PortInv, TypeOK
<1>2. UNCHANGED <<ferries, ferry_pids, my_ferry, force_departure_flag, othersOfFerry, history>>
  BY DEF BoardingRound, WaitForGangway
<1>3. /\ fpc' = [fpc EXCEPT ![f] = fpc'[f]]
      /\ should_exit' = [should_exit EXCEPT ![f] = should_exit'[f]]
      /\ should_exit'[f] \in BOOLEAN
      /\ waited' \in [FerryPids -> Nat]
      /\ \/ fpc[f] = "boarding" /\ fpc'[f] = "finished" /\ ~signal1_received
         \/ fpc[f] = "boarding" /\ fpc'[f] = "gangway" /\ should_exit'[f]
         \/ fpc[f] \in {"finished", "full", "limit"}
              /\ fpc'[f] \in {"full", "limit", "gangway", "boarding"}
         \/ fpc[f] = "gangway" /\ fpc'[f] \in {"gangway", "sail"} /\ UNCHANGED should_exit
  <2>1. ASSUME NEW last \in BOOLEAN, CloseFerry(f, last)
        PROVE  /\ fpc' = [fpc EXCEPT ![f] = fpc'[f]] /\ fpc'[f] = "gangway"
               /\ should_exit' = [should_exit EXCEPT ![f] = should_exit'[f]]
               /\ should_exit'[f] = last
               /\ waited' \in [FerryPids -> Nat]
    BY <1>1, <2>1 DEF CloseFerry, FerryGoto
  <2>2. ASSUME NEW to, StayOpen(f, to)
        PROVE  /\ fpc' = [fpc EXCEPT ![f] = fpc'[f]] /\ fpc'[f] = to
               /\ should_exit' = [should_exit EXCEPT ![f] = should_exit'[f]]
               /\ should_exit'[f] \in BOOLEAN
               /\ waited' \in [FerryPids -> Nat]
    BY <1>1, <2>2 DEF StayOpen, FerryGoto
  <2>3. CASE fpc[f] = "boarding" /\ BoardingRound(f)
    <3>1. \/ CloseFerry(f, TRUE)
          \/ StayOpen(f, "finished") /\ ~signal1_received
      BY <2>3, Zenon DEF BoardingRound, Forced
    <3>2. QED
      BY <2>1, <2>2, <2>3, <3>1
  <2>4. CASE fpc[f] \in {"finished", "full"} /\ BoardingRound(f)
    <3>1. \/ CloseFerry(f, TRUE) \/ CloseFerry(f, FALSE)
          \/ StayOpen(f, "full") \/ StayOpen(f, "limit")
      BY <2>4 DEF BoardingRound
    <3>2. QED
      BY <2>1, <2>2, <2>4, <3>1
  <2>5. CASE fpc[f] = "limit" /\ BoardingRound(f)
    <3>1. CASE CloseFerry(f, FALSE)
      BY <2>1, <2>5, <3>1
    <3>2. CASE /\ waited' = [waited EXCEPT ![f] = @ + 1]
               /\ fpc' = [fpc EXCEPT ![f] = "boarding"]
               /\ UNCHANGED should_exit
      BY <1>1, <2>5, <3>2
    <3>3. QED
      BY <2>5, <3>1, <3>2 DEF BoardingRound, FerryGoto
  <2>6. CASE WaitForGangway(f)
    BY <1>1, <2>6 DEF WaitForGangway, FerryGoto
  <2>7. QED
    BY <2>3, <2>4, <2>5, <2>6 DEF BoardingRound
<1>4. TypeOK'
  <2>1. fpc' \in [FerryPids -> FerryPcs] /\ should_exit' \in [FerryPids -> BOOLEAN]
    BY <1>1, <1>3 DEF FerryPcs, FerrySlotPcs, OpenPcs
  <2>2. QED
    BY <1>1, <1>2, <1>3, <2>1, FerryTypes DEF TypeOK, history
<1>5. FerrySlots'
  <2>1. my_ferry[f] # -1
    BY <1>3, OwnSlot DEF FerrySlotPcs, OpenPcs, FerryIds
  <2>2. QED
    BY <1>2, <1>3, <2>1, MovedFerry DEF FerrySlotPcs, OpenPcs
<1>6. FoundFerriesWait'
  BY <1>2, SameFerries
<1>7. LastTrips'
  <2>1. signal1_received' = signal1_received /\ late_departures' = late_departures
    BY <1>2 DEF othersOfFerry, flags, history
  <2>2. LastTrip(f)'
    BY <1>1, <1>3, <2>1 DEF LastTrips, LastTrip
  <2>3. ASSUME NEW g \in FerryPids, g # f PROVE LastTrip(g)'
    BY <1>1, <1>3, <2>1, <2>3 DEF LastTrips, LastTrip
  <2>4. QED
    BY <2>2, <2>3 DEF LastTrips
<1>8. QED
  BY <1>2, <1>4, <1>5, <1>6, <1>7, FerryLeavesPassengers DEF PortInv

\* Who is on board or on the way there when the ferry sails knows no open ferry
\* from then on; the others rely on other ferries.
LEMMA SetSailInvariant ==
  ASSUME PortInv, NEW f \in FerryPids, SetSail(f)
  PROVE  PortInv'
<1> DEFINE k == my_ferry[f]
<1>1. /\ TypeOK /\ LastTrips /\ FoundFerriesWait
      /\ fpc[f] = "sail"
      /\ ferries' = [ferries EXCEPT ![k].status = "SAILING"]
      /\ fpc' = [fpc EXCEPT ![f] = "sailing"]
      /\ sailed' = [p \in PassengerPids |-> p \in Aboard(k) \cup Bound(k) \/ sailed[p]]
      /\ late_departures' = IF signal1_received
                            THEN [late_departures EXCEPT ![f] = @ + 1]
                            ELSE late_departures
      /\ UNCHANGED <<ferry_pids, ferryLocals, othersOfFerry>>
  BY DEF PortInv, SetSail, FerryGoto
<1>2. /\ fpc \in [FerryPids -> FerryPcs]
      /\ ferries \in [FerryIds -> FerryInfo]
      /\ late_departures \in [FerryPids -> Nat]
      /\ k \in FerryIds /\ ferries[k] \in FerryInfo /\ ferries[k].active
  BY <1>1, OwnSlot DEF TypeOK, FerrySlotPcs, OpenPcs
<1> HIDE DEF k
<1>3. /\ ferries'[k] \in FerryInfo /\ ferries'[k].active /\ ferries'[k].status = "SAILING"
      /\ ferries' = [ferries EXCEPT ![k] = ferries'[k]]
      /\ fpc'[f] = "sailing" /\ fpc' = [fpc EXCEPT ![f] = fpc'[f]]
  BY <1>1, <1>2 DEF FerryInfo
<1>4. TypeOK'
  <2>1. ferries' \in [FerryIds -> FerryInfo] /\ fpc' \in [FerryPids -> FerryPcs]
    BY <1>1, <1>2, <1>3 DEF FerryPcs, FerrySlotPcs
  <2>2. sailed' \in [PassengerPids -> BOOLEAN] /\ late_departures' \in [FerryPids -> Nat]
    BY <1>1, <1>2 DEF TypeOK
  <2>3. QED
    BY <1>1, <2>1, <2>2, FerryTypes DEF TypeOK, ferryLocals
<1>5. FerrySlots'
  BY <1>1, <1>2, <1>3, OtherFerries DEF ferryLocals, FerrySlotPcs, OpenPcs, k
<1>6. FoundFerriesWait'
  <2> SUFFICES ASSUME NEW p \in PassengerPids, ppc[p] \in {"enter", "on_ferry"} \cup GangwayPcs
               PROVE  FoundFerryWaits(p)'
    BY <1>1 DEF FoundFerriesWait, FoundFerryWaits, othersOfFerry
  <2> USE DEF othersOfFerry, passengerLocals, GangwayPcs, AboardPcs
  <2>1. FoundFerryWaits(p) /\ ferry_id[p] \in FerryIds
    BY <1>1 DEF TypeOK, FoundFerriesWait, FoundFerryWaits
  <2>2. CASE ferry_id[p] = k
    <3>1. ppc[p] = "back" \/ sailed'[p]
      BY <1>1, <2>2 DEF Aboard, Bound
    <3>2. QED
      BY <1>1, <2>1, <3>1 DEF FoundFerryWaits
  <2>3. CASE ferry_id[p] # k
    <3>1. ferries'[ferry_id[p]] = ferries[ferry_id[p]]
      BY <1>2, <1>3, <2>1, <2>3
    <3>2. sailed'[p] = sailed[p]
      BY <1>1, <2>3 DEF Aboard, Bound, TypeOK
    <3>3. QED
      BY <1>1, <2>1, <3>1, <3>2 DEF FoundFerryWaits
  <2>4. QED
    BY <2>2, <2>3
<1>7. LastTrips'
  <2>1. UNCHANGED <<signal1_received, should_exit>>
    BY <1>1 DEF othersOfFerry, flags, ferryLocals
  <2>2. LastTrip(f)'
    BY <1>1, <1>2, <1>3, <2>1 DEF LastTrips, LastTrip
  <2>3. ASSUME NEW g \in FerryPids, g # f PROVE LastTrip(g)'
    BY <1>1, <1>2, <1>3, <2>1, <2>3 DEF LastTrips, LastTrip
  <2>4. QED
    BY <2>2, <2>3 DEF LastTrips
<1>8. QED
  BY <1>1, <1>4, <1>5, <1>6, <1>7, FerryLeavesPassengers DEF PortInv

LEMMA FerryInvariant ==
  ASSUME PortInv, NEW f \in FerryPids, Ferry(f)
  PROVE  PortInv'
<1>1. CASE NextTrip(f)
  <2>1. CASE should_exit[f]
    BY <1>1, <2>1, FerryLeavesInvariant
  <2>2. CASE ~should_exit[f]
    BY <1>1, <2>2, AnotherTripInvariant
  <2>3. QED
    BY <2>1, <2>2
<1>2. CASE ResetFerry(f) \/ OpenFerry(f) \/ ReturnToPort(f) \/ NewLimit(f)
  BY <1>2, ResetFerryInvariant, OpenFerryInvariant, ReturnToPortInvariant, NewLimitInvariant
<1>3. CASE UnregisterFerryPid(f)
  BY <1>3, FerryLeavesInvariant
<1>4. CASE BoardingRound(f) \/ WaitForGangway(f)
  BY <1>4, BoardingRoundInvariant
<1>5. CASE RegisterFerryPid(f)
  BY <1>5, RegisterFerryPidInvariant
<1>6. CASE RegisterFerry(f)
  BY <1>6, RegisterFerryInvariant
<1>7. CASE SetSail(f)
  BY <1>7, SetSailInvariant
<1>8. CASE UnregisterFerry(f)
  BY <1>8, UnregisterFerryInvariant
<1>9. QED
  BY <1>1, <1>2, <1>3, <1>4, <1>5, <1>6, <1>7, <1>8 DEF Ferry

-----------------------------------------------------------------------------
(* The passenger: its steps change nothing about the other passengers. *)

LEMMA PassengerLeavesFerries ==
  ASSUME PortInv, NEW p \in PassengerPids, ppc[p] \notin PassengerEndPcs,
         \A q \in PassengerPids : q # p => ppc'[q] = ppc[q],
         UNCHANGED portOfPassenger
  PROVE  /\ LastTrips' /\ FinishedForGood'
         /\ UNCHANGED ferries => FerrySlots'
BY DEF PortInv, LastTrips, LastTrip, FinishedForGood, FerrySlots, portOfPassenger, flags,
       ferryLocals

LEMMA PassengerTypes ==
  ASSUME TypeOK, UNCHANGED portOfPassenger, passenger_pids' \subseteq PassengerPids,
         active' \in [Ids -> BOOLEAN], ferries' \in [FerryIds -> FerryInfo],
         gangway' \in [num_people : 0 .. GANGWAY_CAPACITY,
                       passenger_ids : [0 .. (GANGWAY_CAPACITY - 1) -> Ids \cup {-1}]],
         ppc' \in [PassengerPids -> PassengerPcs],
         my_id' \in [PassengerPids -> Ids \cup {-1}],
         ferry_id' \in [PassengerPids -> FerryIds \cup {-1}],
         vip' \in [PassengerPids -> BOOLEAN],
         luggage' \in [PassengerPids -> Weights \cup {0}],
         stop_boarding_flag' \in [PassengerPids -> BOOLEAN],
         attempts' \in [PassengerPids -> Nat],
         sailed' \in [PassengerPids -> BOOLEAN]
  PROVE  TypeOK'
BY DEF TypeOK, portOfPassenger, flags, ferryLocals

\* The same people on the same gangway.
LEMMA SameGangway ==
  ASSUME PortInv, UNCHANGED gangway,
         \A q \in PassengerPids :
           LET there == GangwayPcs \cup {"killed_on_gangway"} IN
           /\ ppc'[q] \in there <=> ppc[q] \in there
           /\ ppc[q] \in there => my_id'[q] = my_id[q]
  PROVE  GangwayMirrorsPassengers'
<1> DEFINE there == GangwayPcs \cup {"killed_on_gangway"}
<1>1. GangwayMirrorsPassengers
  BY DEF PortInv
<1>2. OnGangway' = OnGangway
  BY DEF OnGangway
<1>3. {q \in PassengerPids : ppc'[q] \in there} = {q \in PassengerPids : ppc[q] \in there}
  OBVIOUS
<1>4. {my_id'[q] : q \in {r \in PassengerPids : ppc'[r] \in there}}
        = {my_id[q] : q \in {r \in PassengerPids : ppc[r] \in there}}
  BY <1>3
<1>5. QED
  BY <1>1, <1>2, <1>4 DEF GangwayMirrorsPassengers

\* A passenger that leaves the slots as they are.
LEMMA SameSlots ==
  ASSUME PortInv, NEW p \in PassengerPids, UNCHANGED <<active, my_id>>,
         \A q \in PassengerPids : q # p => ppc'[q] = ppc[q],
         ppc'[p] \in StayingPcs \cup {"unregister", "unregister_last", "killed_on_gangway"}
           => my_id[p] # -1,
         ppc'[p] \in {"away", "unregister_pid", "ended"} => my_id[p] = -1
  PROVE  SlotsOwned'
BY DEF PortInv, SlotsOwned

\* The ferries others have found stay as they are.
LEMMA OthersFound ==
  ASSUME PortInv, NEW p \in PassengerPids, UNCHANGED ferries,
         \A q \in PassengerPids : q # p =>
           /\ ppc'[q] = ppc[q] /\ ferry_id'[q] = ferry_id[q] /\ luggage'[q] = luggage[q]
           /\ my_id'[q] = my_id[q] /\ sailed'[q] = sailed[q],
         FoundFerryWaits(p)'
  PROVE  FoundFerriesWait'
BY DEF PortInv, FoundFerriesWait, FoundFerryWaits

\* A registered passenger moves on beside the gangway, with at most its ferry and
\* its attempts changed.
LEMMA PassengerMoves ==
  ASSUME PortInv, NEW p \in PassengerPids,
         UNCHANGED <<active, ferries, gangway, my_id, vip, luggage, stop_boarding_flag,
                     othersOfPassenger>>,
         ppc' = [ppc EXCEPT ![p] = ppc'[p]],
         ferry_id' = [ferry_id EXCEPT ![p] = ferry_id'[p]],
         attempts' = [attempts EXCEPT ![p] = attempts'[p]],
         sailed' = [sailed EXCEPT ![p] = sailed'[p]],
         ferry_id'[p] \in FerryIds \cup {-1}, attempts'[p] \in Nat, sailed'[p] \in BOOLEAN,
         ppc[p] \in (StayingPcs \cup {"unregister", "unregister_last"}) \ GangwayPcs,
         ppc'[p] \in (StayingPcs \cup {"unregister", "unregister_last"}) \ GangwayPcs,
         FoundFerryWaits(p)'
  PROVE  PortInv'
<1>1. TypeOK /\ SlotsOwned
  BY DEF PortInv
<1>2. /\ ppc \in [PassengerPids -> PassengerPcs] /\ attempts \in [PassengerPids -> Nat]
      /\ ferry_id \in [PassengerPids -> FerryIds \cup {-1}]
      /\ sailed \in [PassengerPids -> BOOLEAN]
  BY <1>1 DEF TypeOK
<1>3. TypeOK'
  <2>1. ppc' \in [PassengerPids -> PassengerPcs]
    BY <1>2 DEF PassengerPcs, PassengerLockPcs, StayingPcs, GangwayPcs
  <2>2. /\ attempts' \in [PassengerPids -> Nat]
        /\ ferry_id' \in [PassengerPids -> FerryIds \cup {-1}]
        /\ sailed' \in [PassengerPids -> BOOLEAN]
    BY <1>2
  <2>3. QED
    BY <1>1, <2>1, <2>2, PassengerTypes DEF TypeOK, othersOfPassenger
<1>4. \A q \in PassengerPids : q # p =>
        ppc'[q] = ppc[q] /\ ferry_id'[q] = ferry_id[q] /\ sailed'[q] = sailed[q]
  BY <1>2
<1>5. SlotsOwned'
  BY <1>1, <1>4, SameSlots DEF SlotsOwned, StayingPcs, GangwayPcs
<1>6. GangwayMirrorsPassengers'
  BY <1>4, SameGangway DEF StayingPcs
<1>7. FoundFerriesWait'
  BY <1>4, OthersFound
<1>8. FerrySlots' /\ LastTrips' /\ FinishedForGood'
  BY <1>4, PassengerLeavesFerries
     DEF PassengerEndPcs, StayingPcs, GangwayPcs, othersOfPassenger
<1>9. QED
  BY <1>3, <1>5, <1>6, <1>7, <1>8 DEF PortInv

LEMMA SearchHeadInvariant ==
  ASSUME PortInv, NEW p \in PassengerPids, SearchHead(p)
  PROVE  PortInv'
<1>1. /\ ppc \in [PassengerPids -> PassengerPcs] /\ attempts \in [PassengerPids -> Nat]
      /\ ferry_id \in [PassengerPids -> FerryIds \cup {-1}]
      /\ sailed \in [PassengerPids -> BOOLEAN]
  BY DEF PortInv, TypeOK
<1>2. /\ ppc[p] = "search"
      /\ ppc' = [ppc EXCEPT ![p] = ppc'[p]] /\ ppc'[p] \in {"unregister", "find"}
      /\ UNCHANGED <<active, ferries, gangway, passengerLocals, sailed, othersOfPassenger>>
  BY <1>1 DEF SearchHead, Goto
<1>3. FoundFerryWaits(p)'
  BY <1>2 DEF FoundFerryWaits, GangwayPcs
<1>4. QED
  BY <1>1, <1>2, <1>3, PassengerMoves DEF passengerLocals, StayingPcs, GangwayPcs

LEMMA FindAvailableFerryInvariant ==
  ASSUME PortInv, NEW p \in PassengerPids, FindAvailableFerry(p)
  PROVE  PortInv'
<1>1. /\ ppc \in [PassengerPids -> PassengerPcs] /\ attempts \in [PassengerPids -> Nat]
      /\ ferry_id \in [PassengerPids -> FerryIds \cup {-1}]
      /\ sailed \in [PassengerPids -> BOOLEAN]
  BY DEF PortInv, TypeOK
<1>2. /\ ppc[p] = "find"
      /\ UNCHANGED <<active, ferries, gangway, my_id, vip, luggage, stop_boarding_flag,
                     othersOfPassenger>>
  BY DEF FindAvailableFerry
<1>3. ASSUME NEW k \in FerryIds, Available(k, luggage[p]),
             ferry_id' = [ferry_id EXCEPT ![p] = k],
             attempts' = [attempts EXCEPT ![p] = 0],
             sailed' = [sailed EXCEPT ![p] = FALSE],
             ppc' = [ppc EXCEPT ![p] = "enter"]
      PROVE  PortInv'
  <2>1. /\ ppc'[p] = "enter" /\ ferry_id'[p] = k /\ attempts'[p] = 0 /\ sailed'[p] = FALSE
        /\ ppc' = [ppc EXCEPT ![p] = ppc'[p]]
        /\ ferry_id' = [ferry_id EXCEPT ![p] = ferry_id'[p]]
        /\ attempts' = [attempts EXCEPT ![p] = attempts'[p]]
        /\ sailed' = [sailed EXCEPT ![p] = sailed'[p]]
    BY <1>1, <1>3
  <2>2. FoundFerryWaits(p)'
    BY <1>2, <1>3, <2>1 DEF FoundFerryWaits, Available, AboardPcs, FerryIds
  <2>3. /\ ferry_id'[p] \in FerryIds \cup {-1}
        /\ attempts'[p] \in Nat /\ sailed'[p] \in BOOLEAN
        /\ ppc[p] \in (StayingPcs \cup {"unregister", "unregister_last"}) \ GangwayPcs
        /\ ppc'[p] \in (StayingPcs \cup {"unregister", "unregister_last"}) \ GangwayPcs
    <3>1. ppc[p] = "find" /\ ppc'[p] = "enter"
      BY <1>2, <2>1
    <3>2. sailed' \in [PassengerPids -> BOOLEAN]
      BY <1>1, <1>3
    <3>3. QED
      BY <2>1, <3>1, <3>2 DEF StayingPcs, GangwayPcs
  <2>4. QED
    BY <1>2, <2>1, <2>2, <2>3, PassengerMoves
<1>4. CASE /\ attempts' = [attempts EXCEPT ![p] = @ + 1]
           /\ ppc' = [ppc EXCEPT ![p] = "search"]
           /\ UNCHANGED <<ferry_id, sailed>>
  <2>1. /\ ppc'[p] = "search" /\ attempts'[p] \in Nat
        /\ ppc' = [ppc EXCEPT ![p] = ppc'[p]]
        /\ attempts' = [attempts EXCEPT ![p] = attempts'[p]]
    BY <1>1, <1>4
  <2>2. FoundFerryWaits(p)'
    BY <2>1 DEF FoundFerryWaits, GangwayPcs
  <2>3. QED
    BY <1>1, <1>2, <1>4, <2>1, <2>2, PassengerMoves DEF StayingPcs, GangwayPcs
<1>5. QED
  BY <1>3, <1>4 DEF FindAvailableFerry, Goto

\* A VIP in front or anybody at the end: nobody is lost or doubled.
IsGangway(g) ==
  /\ g \in [num_people : 0 .. GANGWAY_CAPACITY,
            passenger_ids : [0 .. (GANGWAY_CAPACITY - 1) -> Ids \cup {-1}]]
  /\ Distinct(g.passenger_ids, g.num_people)
  /\ \A k \in g.num_people .. (GANGWAY_CAPACITY - 1) : g.passenger_ids[k] = -1
LEMMA OneMoreOnGangway ==
  ASSUME NEW g, IsGangway(g), g.num_people < GANGWAY_CAPACITY,
         NEW i \in Ids, i \notin Window(g.passenger_ids, g.num_people), NEW first,
         NEW h, h = WithOneMore(g, i, first)
  PROVE  /\ IsGangway(h)
         /\ Window(h.passenger_ids, h.num_people)
              = Window(g.passenger_ids, g.num_people) \cup {i}
<1> USE DEF IsGangway
<1> DEFINE old == g.passenger_ids
           n == g.num_people
           new == IF first
                  THEN [k \in 0 .. (GANGWAY_CAPACITY - 1) |->
                          IF k = 0 THEN i ELSE old[IF k <= n THEN k - 1 ELSE k]]
                  ELSE [old EXCEPT ![n] = i]
<1>1. /\ n \in 0 .. (GANGWAY_CAPACITY - 1)
      /\ old \in [0 .. (GANGWAY_CAPACITY - 1) -> Ids \cup {-1}]
  OBVIOUS
<1>2. h = [num_people |-> n + 1, passenger_ids |-> new]
  BY <1>1 DEF WithOneMore
<1> HIDE DEF old, n
<1>3. /\ new \in [0 .. (GANGWAY_CAPACITY - 1) -> Ids \cup {-1}]
      /\ \A k \in (n + 1) .. (GANGWAY_CAPACITY - 1) : new[k] = old[k]
  BY <1>1
<1>4. IsPrepended(old, new, n, i) \/ IsAppended(old, new, n, i)
  <2>1. CASE first
    BY <1>1, <2>1 DEF IsPrepended
  <2>2. CASE ~first
    BY <1>1, <2>2 DEF IsAppended
  <2>3. QED
    BY <2>1, <2>2
<1> HIDE DEF new
<1>5. Distinct(old, n) /\ i \notin Window(old, n)
  BY DEF old, n
<1>6. Distinct(new, n + 1) /\ Window(new, n + 1) = Window(old, n) \cup {i}
  <2>1. n \in Nat
    BY <1>1
  <2>2. CASE IsPrepended(old, new, n, i)
    BY ONLY <1>5, <2>1, <2>2, Prepended
  <2>3. CASE IsAppended(old, new, n, i)
    BY ONLY <1>5, <2>1, <2>3, Appended
  <2>4. QED
    BY <1>4, <2>2, <2>3
<1>7. \A k \in (n + 1) .. (GANGWAY_CAPACITY - 1) : new[k] = -1
  BY <1>1, <1>3 DEF old, n
<1>8. h.num_people = n + 1 /\ h.passenger_ids = new
  BY <1>2
<1>9. h \in [num_people : 0 .. GANGWAY_CAPACITY,
             passenger_ids : [0 .. (GANGWAY_CAPACITY - 1) -> Ids \cup {-1}]]
  BY <1>1, <1>2, <1>3
<1>10. QED
  BY <1>6, <1>7, <1>8, <1>9 DEF old, n

\* A passenger that enters or leaves the gangway, and nothing else.
LEMMA GangwayStep ==
  ASSUME PortInv, NEW p \in PassengerPids,
         UNCHANGED <<active, ferries, passengerLocals, sailed, othersOfPassenger>>,
         ppc' = [ppc EXCEPT ![p] = ppc'[p]],
         ppc[p] \in StayingPcs, ppc'[p] \in StayingPcs \cup {"unregister"},
         gangway' \in [num_people : 0 .. GANGWAY_CAPACITY,
                       passenger_ids : [0 .. (GANGWAY_CAPACITY - 1) -> Ids \cup {-1}]],
         GangwayMirrorsPassengers',
         FoundFerryWaits(p)'
  PROVE  PortInv'
<1> USE DEF passengerLocals
<1>1. TypeOK /\ SlotsOwned /\ ppc \in [PassengerPids -> PassengerPcs]
  BY DEF PortInv, TypeOK
<1>2. /\ ppc' \in [PassengerPids -> PassengerPcs]
      /\ \A q \in PassengerPids : q # p => ppc'[q] = ppc[q]
  BY <1>1 DEF PassengerPcs, PassengerLockPcs, StayingPcs
<1>3. TypeOK'
  BY <1>1, <1>2, PassengerTypes DEF TypeOK, othersOfPassenger
<1>4. SlotsOwned'
  BY <1>1, <1>2, SameSlots DEF SlotsOwned, StayingPcs, GangwayPcs
<1>5. FoundFerriesWait'
  BY <1>2, OthersFound
<1>6. FerrySlots' /\ LastTrips' /\ FinishedForGood'
  BY <1>2, PassengerLeavesFerries
     DEF PassengerEndPcs, StayingPcs, GangwayPcs, othersOfPassenger
<1>7. QED
  BY <1>3, <1>4, <1>5, <1>6 DEF PortInv

LEMMA EnterGangwayInvariant ==
  ASSUME PortInv, NEW p \in PassengerPids, EnterGangway(p)
  PROVE  PortInv'
<1> DEFINE there == GangwayPcs \cup {"killed_on_gangway"}
<1>1. /\ TypeOK /\ SlotsOwned /\ GangwayMirrorsPassengers /\ FoundFerryWaits(p)
      /\ ppc \in [PassengerPids -> PassengerPcs]
      /\ my_id \in [PassengerPids -> Ids \cup {-1}]
      /\ attempts \in [PassengerPids -> Nat]
      /\ ppc[p] = "enter"
      /\ UNCHANGED <<active, ferries, my_id, ferry_id, vip, luggage, stop_boarding_flag,
                     sailed, othersOfPassenger>>
  BY DEF PortInv, TypeOK, FoundFerriesWait, EnterGangway
<1>2. /\ my_id[p] \in Ids /\ my_id[p] # -1
      /\ \A q \in PassengerPids : q # p => my_id[q] # my_id[p]
  BY <1>1 DEF SlotsOwned, StayingPcs
<1>3. my_id[p] \notin OnGangway
  BY <1>1, <1>2 DEF GangwayMirrorsPassengers, GangwayPcs
<1>4. CASE gangway.num_people >= GANGWAY_CAPACITY
  <2>1. /\ ppc' = [ppc EXCEPT ![p] = ppc'[p]] /\ ppc'[p] \in {"enter", "unregister"}
        /\ attempts' = [attempts EXCEPT ![p] = attempts'[p]] /\ attempts'[p] \in Nat
        /\ UNCHANGED gangway
    BY <1>1, <1>4 DEF EnterGangway, Goto
  <2>2. FoundFerryWaits(p)'
    BY <1>1, <2>1 DEF FoundFerryWaits, GangwayPcs
  <2>3. ferry_id[p] \in FerryIds \cup {-1} /\ sailed[p] \in BOOLEAN
    BY <1>1 DEF TypeOK
  <2>4. /\ ppc[p] \in (StayingPcs \cup {"unregister", "unregister_last"}) \ GangwayPcs
        /\ ppc'[p] \in (StayingPcs \cup {"unregister", "unregister_last"}) \ GangwayPcs
    BY <1>1, <2>1 DEF StayingPcs, GangwayPcs
  <2>5. /\ ferry_id' = [ferry_id EXCEPT ![p] = ferry_id'[p]]
        /\ sailed' = [sailed EXCEPT ![p] = sailed'[p]]
    BY <1>1 DEF TypeOK
  <2>6. QED
    BY <1>1, <2>1, <2>2, <2>3, <2>4, <2>5, PassengerMoves
<1>5. CASE gangway.num_people < GANGWAY_CAPACITY
  <2>1. /\ gangway' = WithOneMore(gangway, my_id[p], vip[p])
        /\ ppc' = [ppc EXCEPT ![p] = "board"]
        /\ UNCHANGED attempts
    BY <1>1, <1>3, <1>5 DEF EnterGangway, Goto, TypeOK
  <2>2. /\ gangway' \in [num_people : 0 .. GANGWAY_CAPACITY,
                         passenger_ids : [0 .. (GANGWAY_CAPACITY - 1) -> Ids \cup {-1}]]
        /\ Distinct(gangway'.passenger_ids, gangway'.num_people)
        /\ Window(gangway'.passenger_ids, gangway'.num_people) = OnGangway \cup {my_id[p]}
        /\ \A k \in gangway'.num_people .. (GANGWAY_CAPACITY - 1) :
             gangway'.passenger_ids[k] = -1
    <3>1. IsGangway(gangway) /\ my_id[p] \notin Window(gangway.passenger_ids, gangway.num_people)
      BY <1>1, <1>3 DEF TypeOK, OnGangway, GangwayMirrorsPassengers, IsGangway
    <3>2. /\ IsGangway(gangway')
          /\ Window(gangway'.passenger_ids, gangway'.num_people)
               = Window(gangway.passenger_ids, gangway.num_people) \cup {my_id[p]}
      BY ONLY <1>2, <1>5, <2>1, <3>1, OneMoreOnGangway
    <3>3. QED
      BY <3>2 DEF IsGangway, OnGangway
  <2>3. ppc'[p] = "board" /\ \A q \in PassengerPids : q # p => ppc'[q] = ppc[q]
    BY <1>1, <2>1
  <2>4. {my_id[q] : q \in {r \in PassengerPids : ppc'[r] \in there}} =
          {my_id[q] : q \in {r \in PassengerPids : ppc[r] \in there}} \cup {my_id[p]}
    <3>1. {r \in PassengerPids : ppc'[r] \in there} =
            {r \in PassengerPids : ppc[r] \in there} \cup {p}
      BY <2>3 DEF GangwayPcs
    <3>2. QED
      BY <3>1
  <2>5. GangwayMirrorsPassengers'
    <3>1. OnGangway' = OnGangway \cup {my_id[p]}
      BY <2>2 DEF OnGangway
    <3>2. {my_id'[q] : q \in {r \in PassengerPids : ppc'[r] \in there}}
            = {my_id[q] : q \in {r \in PassengerPids : ppc'[r] \in there}}
      BY <1>1
    <3>3. QED
      BY <1>1, <2>2, <2>4, <3>1, <3>2 DEF GangwayMirrorsPassengers
  <2>6. FoundFerryWaits(p)'
    BY <1>1, <2>3 DEF FoundFerryWaits, GangwayPcs, AboardPcs
  <2>7. QED
    BY <1>1, <2>1, <2>2, <2>3, <2>5, <2>6, GangwayStep
       DEF passengerLocals, StayingPcs, GangwayPcs
<1>6. QED
  BY <1>1, <1>4, <1>5 DEF TypeOK

LEMMA ExitGangwayInvariant ==
  ASSUME PortInv, NEW p \in PassengerPids, ExitGangway(p)
  PROVE  PortInv'
<1> DEFINE there == GangwayPcs \cup {"killed_on_gangway"}
           old == gangway.passenger_ids
           n == gangway.num_people
           new == gangway'.passenger_ids
<1>1. /\ TypeOK /\ SlotsOwned /\ GangwayMirrorsPassengers /\ FoundFerryWaits(p)
      /\ ppc \in [PassengerPids -> PassengerPcs]
      /\ my_id \in [PassengerPids -> Ids \cup {-1}]
      /\ ppc[p] \in {"leave_gangway", "back"}
      /\ ppc' = [ppc EXCEPT ![p] = IF ppc[p] = "back" THEN "unregister" ELSE "on_ferry"]
      /\ UNCHANGED <<active, ferries, passengerLocals, sailed, othersOfPassenger>>
  BY DEF PortInv, TypeOK, FoundFerriesWait, ExitGangway, Goto
<1>2. \A q \in PassengerPids : q # p => my_id[q] # my_id[p]
  BY <1>1 DEF SlotsOwned, StayingPcs, GangwayPcs
<1>3. my_id[p] \in Window(old, n)
  BY <1>1 DEF GangwayMirrorsPassengers, OnGangway, GangwayPcs
<1>4. /\ n \in 0 .. GANGWAY_CAPACITY
      /\ old \in [0 .. (GANGWAY_CAPACITY - 1) -> Ids \cup {-1}]
      /\ Distinct(old, n)
      /\ \A k \in n .. (GANGWAY_CAPACITY - 1) : old[k] = -1
  BY <1>1 DEF TypeOK, GangwayMirrorsPassengers
<1>5. /\ CountWithout(old, n, my_id[p]) = n - 1 /\ n > 0
      /\ FirstIndex(old, n, my_id[p]) \in 0 .. (n - 1)
      /\ Without(old, n, my_id[p]) = CloseGap(old, n, FirstIndex(old, n, my_id[p]))
      /\ Distinct(Without(old, n, my_id[p]), n - 1)
      /\ \A v : v \in Window(Without(old, n, my_id[p]), n - 1)
                <=> v \in Window(old, n) /\ v # my_id[p]
  BY <1>3, <1>4, WithoutCells
<1>6. gangway' = [num_people |-> n - 1,
                  passenger_ids |-> [Without(old, n, my_id[p]) EXCEPT ![n - 1] = -1]]
  BY <1>3, <1>5 DEF ExitGangway, OnGangway
<1> HIDE DEF old, n
<1>7. /\ new \in [0 .. (GANGWAY_CAPACITY - 1) -> Ids \cup {-1}]
      /\ \A k \in 0 .. (n - 2) : new[k] = Without(old, n, my_id[p])[k]
      /\ \A k \in (n - 1) .. (GANGWAY_CAPACITY - 1) : new[k] = -1
  <2>1. Without(old, n, my_id[p]) \in [0 .. (GANGWAY_CAPACITY - 1) -> Ids \cup {-1}]
    BY <1>4, <1>5 DEF CloseGap
  <2>2. \A k \in n .. (GANGWAY_CAPACITY - 1) : Without(old, n, my_id[p])[k] = old[k]
    BY <1>4, <1>5 DEF CloseGap
  <2>3. QED
    BY <1>4, <1>5, <1>6, <2>1, <2>2
<1>8. /\ Distinct(new, n - 1)
      /\ Window(new, n - 1) = OnGangway \ {my_id[p]}
  <2>1. 0 .. ((n - 1) - 1) = 0 .. (n - 2)
    BY <1>4
  <2>2. Distinct(new, n - 1)
    BY <1>5, <1>7, <2>1 DEF Distinct
  <2>3. Window(new, n - 1) = Window(Without(old, n, my_id[p]), n - 1)
    BY <1>7, <2>1 DEF Window
  <2>4. QED
    BY <1>5, <2>2, <2>3 DEF OnGangway, old, n
<1>9. /\ ppc'[p] \in {"unregister", "on_ferry"}
      /\ ppc' = [ppc EXCEPT ![p] = ppc'[p]]
      /\ \A q \in PassengerPids : q # p => ppc'[q] = ppc[q]
      /\ ppc'[p] = "on_ferry" => ppc[p] = "leave_gangway"
  BY <1>1
<1>10. {my_id[q] : q \in {r \in PassengerPids : ppc'[r] \in there}} =
         {my_id[q] : q \in {r \in PassengerPids : ppc[r] \in there}} \ {my_id[p]}
  <2>1. {r \in PassengerPids : ppc'[r] \in there} =
          {r \in PassengerPids : ppc[r] \in there} \ {p}
    BY <1>9 DEF GangwayPcs
  <2>2. QED
    BY <1>2, <2>1
<1>11. GangwayMirrorsPassengers'
  <2>1. UNCHANGED my_id /\ gangway'.num_people = n - 1
    BY <1>1, <1>6 DEF passengerLocals
  <2>2. QED
    <3>1. OnGangway' = OnGangway \ {my_id[p]}
      BY <1>8, <2>1 DEF OnGangway
    <3>2. {my_id'[q] : q \in {r \in PassengerPids : ppc'[r] \in there}}
            = {my_id[q] : q \in {r \in PassengerPids : ppc'[r] \in there}}
      BY <2>1
    <3>3. QED
      BY <1>1, <1>7, <1>8, <1>10, <2>1, <3>1, <3>2 DEF GangwayMirrorsPassengers
<1>12. FoundFerryWaits(p)'
  BY <1>1, <1>9 DEF FoundFerryWaits, GangwayPcs, AboardPcs, passengerLocals
<1>13. gangway' \in [num_people : 0 .. GANGWAY_CAPACITY,
                     passenger_ids : [0 .. (GANGWAY_CAPACITY - 1) -> Ids \cup {-1}]]
  BY <1>4, <1>5, <1>6, <1>7
<1>14. QED
  BY <1>1, <1>9, <1>11, <1>12, <1>13, GangwayStep DEF StayingPcs, GangwayPcs

\* The place a passenger takes is behind those given away before: nobody on the
\* list is moved, and a ferry that opens has none yet.
LEMMA BoardFerryInvariant ==
  ASSUME PortInv, NEW p \in PassengerPids, BoardFerry(p)
  PROVE  PortInv'
<1> DEFINE k == ferry_id[p]
           n == ferries[k].num_passengers
           old == ferries[k].passenger_ids
<1>1. /\ TypeOK /\ SlotsOwned /\ FerrySlots /\ FoundFerriesWait
      /\ FoundFerryWaits(p)
      /\ ppc \in [PassengerPids -> PassengerPcs]
      /\ sailed \in [PassengerPids -> BOOLEAN]
      /\ ferries \in [FerryIds -> FerryInfo]
      /\ ppc[p] = "board"
      /\ UNCHANGED <<active, gangway, passengerLocals, othersOfPassenger>>
  BY DEF PortInv, TypeOK, FoundFerriesWait, BoardFerry
<1>2. /\ k \in FerryIds /\ k # -1 /\ ferries[k] \in FerryInfo
      /\ my_id[p] \in Ids
      /\ n \in Nat /\ old \in [0 .. (FERRY_CAPACITY - 1) -> Ids \cup {-1}]
  <2>1. k \in FerryIds /\ k # -1 /\ my_id[p] \in Ids
    BY <1>1 DEF TypeOK, SlotsOwned, StayingPcs, GangwayPcs, FoundFerryWaits
  <2>2. ferries[k] \in FerryInfo
    BY <1>1, <2>1
  <2>3. QED
    BY <2>1, <2>2 DEF FerryInfo
<1>3. /\ ppc' = [ppc EXCEPT ![p] = ppc'[p]] /\ ppc'[p] \in {"leave_gangway", "back"}
      /\ \A q \in PassengerPids : q # p => ppc'[q] = ppc[q]
  BY <1>1 DEF BoardFerry, Goto
<1>4. GangwayMirrorsPassengers'
  BY <1>1, <1>3, SameGangway DEF GangwayPcs, passengerLocals
<1>5. SlotsOwned'
  BY <1>1, <1>2, <1>3, SameSlots DEF passengerLocals, Ids
<1>6. LastTrips' /\ FinishedForGood' /\ (UNCHANGED ferries => FerrySlots')
  BY <1>1, <1>3, PassengerLeavesFerries DEF PassengerEndPcs, othersOfPassenger
<1>7. ppc' \in [PassengerPids -> PassengerPcs]
  BY <1>1, <1>3 DEF PassengerPcs, PassengerLockPcs, GangwayPcs
<1>8. CASE ppc'[p] = "back" /\ UNCHANGED <<ferries, sailed>>
  <2>1. TypeOK'
    BY <1>1, <1>7, <1>8, PassengerTypes DEF TypeOK, passengerLocals, othersOfPassenger
  <2>2. FoundFerryWaits(p)'
    BY <1>1, <1>8 DEF FoundFerryWaits, GangwayPcs, AboardPcs, passengerLocals
  <2>3. FoundFerriesWait'
    BY <1>1, <1>3, <1>8, <2>2, OthersFound DEF passengerLocals
  <2>4. QED
    BY <1>4, <1>5, <1>6, <1>8, <2>1, <2>3 DEF PortInv
<1>9. CASE /\ ferries[k].active /\ ferries[k].status = "BOARDING" /\ n < FERRY_CAPACITY
           /\ ferries' = [ferries EXCEPT ![k].passenger_ids[n] = my_id[p],
                                         ![k].num_passengers = n + 1]
           /\ sailed' = [sailed EXCEPT ![p] = FALSE]
           /\ ppc' = [ppc EXCEPT ![p] = "leave_gangway"]
  <2>1. \A j \in FerryIds : ferries'[j] =
          IF j = k THEN [ferries[k] EXCEPT !.passenger_ids = [old EXCEPT ![n] = my_id[p]],
                                           !.num_passengers = n + 1]
                   ELSE ferries[j]
    BY <1>1, <1>2, <1>9
  <2> HIDE DEF k, n, old
  <2>2. /\ ferries'[k].active /\ ferries'[k].status = "BOARDING"
        /\ ferries'[k].num_passengers = n + 1
        /\ ferries'[k].passenger_ids = [old EXCEPT ![n] = my_id[p]]
        /\ ferries'[k].max_luggage_weight = ferries[k].max_luggage_weight
        /\ \A j \in FerryIds : j # k => ferries'[j] = ferries[j]
    <3>1. ferries'[k] = [ferries[k] EXCEPT !.passenger_ids = [old EXCEPT ![n] = my_id[p]],
                                           !.num_passengers = n + 1]
      BY <1>2, <2>1
    <3>2. ferries[k] \in FerryInfo /\ ferries[k].active /\ ferries[k].status = "BOARDING"
      BY <1>2, <1>9
    <3>3. QED
      BY <2>1, <3>1, <3>2 DEF FerryInfo
  <2>3. TypeOK'
    <3>1. [old EXCEPT ![n] = my_id[p]] \in [0 .. (FERRY_CAPACITY - 1) -> Ids \cup {-1}]
      BY <1>2
    <3>2. n + 1 \in 0 .. FERRY_CAPACITY
      BY <1>2, <1>9
    <3>3. ferries'[k] \in FerryInfo
      <4>1. ferries'[k] = [ferries[k] EXCEPT !.passenger_ids = [old EXCEPT ![n] = my_id[p]],
                                             !.num_passengers = n + 1]
        BY <1>2, <2>1
      <4>2. QED
        BY ONLY <1>2, <3>1, <3>2, <4>1 DEF FerryInfo
    <3>4. ferries' \in [FerryIds -> FerryInfo]
      BY <1>1, <1>2, <1>9, <2>1, <3>3
    <3>5. sailed' \in [PassengerPids -> BOOLEAN]
      BY <1>1, <1>9
    <3>6. QED
      BY <1>1, <1>7, <3>4, <3>5, PassengerTypes DEF TypeOK, passengerLocals, othersOfPassenger
  <2>4. FerrySlots'
    <3>1. \A f \in FerryPids : my_ferry[f] = k /\ fpc[f] # "killed" => fpc[f] \in OpenPcs
      BY <1>1, <1>2, <1>9 DEF FerrySlots
    <3>2. \A f \in FerryPids : fpc[f] = "open" => my_ferry[f] \in FerryIds /\ my_ferry[f] # k
      <4>1. \A f \in FerryPids : fpc[f] = "open" => my_ferry[f] \in FerryIds
        BY OwnSlot DEF FerrySlotPcs
      <4>2. QED
        BY <3>1, <4>1 DEF OpenPcs
    <3>3. \A f \in FerryPids : my_ferry[f] # -1 =>
            /\ ferries'[my_ferry[f]].active
            /\ ferries'[my_ferry[f]].status = ferries[my_ferry[f]].status
      <4>1. my_ferry \in [FerryPids -> FerryIds \cup {-1}]
        BY <1>1 DEF TypeOK
      <4>2. QED
        BY <1>1, <1>9, <2>2, <4>1 DEF FerrySlots
    <3>4. \A j \in FerryIds : /\ ferries'[j].active <=> ferries[j].active
                             /\ ferries'[j].status = ferries[j].status
      BY <1>9, <2>2
    <3>5. UNCHANGED <<fpc, my_ferry>>
      BY <1>1 DEF othersOfPassenger, portOfPassenger, ferryLocals
    <3>6. QED
      BY <1>1, <2>2, <3>2, <3>3, <3>4, <3>5 DEF FerrySlots
  <2>5. FoundFerriesWait'
    <3> SUFFICES ASSUME NEW q \in PassengerPids,
                        ppc'[q] \in {"enter", "on_ferry"} \cup GangwayPcs
                 PROVE  FoundFerryWaits(q)'
      BY DEF FoundFerriesWait, FoundFerryWaits
    <3> USE DEF passengerLocals
    <3>1. Window(old, n) \cup {my_id[p]}
            \subseteq Window(ferries'[k].passenger_ids, ferries'[k].num_passengers)
      <4>1. /\ 0 .. ((n + 1) - 1) = 0 .. (n - 1) \cup {n}
            /\ n \notin 0 .. (n - 1)
            /\ n \in DOMAIN old
        BY <1>2, <1>9
      <4>2. QED
        BY <2>2, <4>1 DEF Window
    <3>2. CASE q = p
      <4>1. ppc'[p] = "leave_gangway" /\ UNCHANGED <<ferry_id, my_id>>
        BY <1>1, <1>9
      <4>2. QED
        BY <1>1, <2>2, <3>1, <3>2, <4>1 DEF FoundFerryWaits, GangwayPcs, k
    <3>3. CASE q # p
      <4>1. /\ FoundFerryWaits(q) /\ ferry_id[q] \in FerryIds
            /\ ppc'[q] = ppc[q] /\ sailed'[q] = sailed[q]
            /\ UNCHANGED <<ferry_id, my_id, luggage>>
        BY <1>1, <1>3, <1>9, <3>3 DEF FoundFerriesWait, FoundFerryWaits, TypeOK
      <4>2. CASE ferry_id[q] = k
        BY <1>9, <2>2, <3>1, <4>1, <4>2 DEF FoundFerryWaits, n, old
      <4>3. CASE ferry_id[q] # k
        BY <2>2, <4>1, <4>3 DEF FoundFerryWaits
      <4>4. QED
        BY <4>2, <4>3
    <3>4. QED
      BY <3>2, <3>3
  <2>6. QED
    BY <1>4, <1>5, <1>6, <2>3, <2>4, <2>5 DEF PortInv
<1>10. QED
  BY <1>1, <1>3, <1>8, <1>9 DEF BoardFerry, Goto

\* A passenger that comes or goes, away from ferries and gangway.
LEMMA AwayFromFerries ==
  ASSUME PortInv, NEW p \in PassengerPids,
         UNCHANGED <<ferries, gangway, portOfPassenger>>,
         passenger_pids' \subseteq PassengerPids,
         active' \in [Ids -> BOOLEAN],
         my_id' \in [PassengerPids -> Ids \cup {-1}],
         ferry_id' \in [PassengerPids -> FerryIds \cup {-1}],
         vip' \in [PassengerPids -> BOOLEAN],
         luggage' \in [PassengerPids -> Weights \cup {0}],
         stop_boarding_flag' \in [PassengerPids -> BOOLEAN],
         attempts' \in [PassengerPids -> Nat],
         sailed' \in [PassengerPids -> BOOLEAN],
         \A q \in PassengerPids : q # p =>
           /\ my_id'[q] = my_id[q] /\ ferry_id'[q] = ferry_id[q]
           /\ luggage'[q] = luggage[q] /\ sailed'[q] = sailed[q],
         ppc' = [ppc EXCEPT ![p] = ppc'[p]],
         ppc[p] \in {"away", "on_ferry", "unregister", "unregister_last", "unregister_pid"},
         ppc'[p] \in {"search", "unregister_last", "unregister_pid", "ended"},
         SlotsOwned'
  PROVE  PortInv'
<1>1. TypeOK /\ ppc \in [PassengerPids -> PassengerPcs]
  BY DEF PortInv, TypeOK
<1>2. /\ ppc' \in [PassengerPids -> PassengerPcs]
      /\ \A q \in PassengerPids : q # p => ppc'[q] = ppc[q]
  BY <1>1 DEF PassengerPcs, PassengerLockPcs
<1>3. TypeOK'
  BY <1>1, <1>2, PassengerTypes DEF TypeOK
<1>4. GangwayMirrorsPassengers'
  BY <1>2, SameGangway DEF GangwayPcs
<1>5. FoundFerryWaits(p)'
  BY DEF FoundFerryWaits, GangwayPcs
<1>6. FoundFerriesWait'
  BY <1>2, <1>5, OthersFound
<1>7. FerrySlots' /\ LastTrips' /\ FinishedForGood'
  BY <1>2, PassengerLeavesFerries DEF PassengerEndPcs
<1>8. QED
  BY <1>3, <1>4, <1>6, <1>7 DEF PortInv

LEMMA ArriveInvariant ==
  ASSUME PortInv, NEW p \in PassengerPids, Arrive(p)
  PROVE  PortInv'
<1>1. /\ TypeOK /\ SlotsOwned
      /\ ppc \in [PassengerPids -> PassengerPcs]
      /\ my_id \in [PassengerPids -> Ids \cup {-1}]
      /\ active \in [Ids -> BOOLEAN]
      /\ ppc[p] = "away" /\ my_id[p] = -1
      /\ UNCHANGED <<ferries, gangway, ferry_id, attempts, sailed, portOfPassenger>>
      /\ passenger_pids' \subseteq PassengerPids
  BY DEF PortInv, TypeOK, SlotsOwned, Arrive
<1>2. ASSUME NEW i \in Ids, NEW w \in Weights, NEW v \in Vips, ~active[i],
             active' = [active EXCEPT ![i] = TRUE],
             my_id' = [my_id EXCEPT ![p] = i],
             luggage' = [luggage EXCEPT ![p] = w],
             vip' = [vip EXCEPT ![p] = v],
             stop_boarding_flag' = [stop_boarding_flag EXCEPT ![p] =
                                     captain_pc \notin {"absent", "working", "send2"}],
             ppc' = [ppc EXCEPT ![p] = "search"]
      PROVE  PortInv'
  <2>1. /\ ppc'[p] = "search" /\ ppc' = [ppc EXCEPT ![p] = ppc'[p]]
        /\ my_id'[p] = i /\ i # -1 /\ active'[i]
        /\ \A q \in PassengerPids : q # p => ppc'[q] = ppc[q] /\ my_id'[q] = my_id[q]
        /\ \A j \in Ids : active[j] => active'[j]
    BY <1>1, <1>2 DEF Ids
  <2>2. SlotsOwned'
    <3>1. \A q \in PassengerPids : my_id[q] # i
      BY <1>1, <1>2, <2>1 DEF SlotsOwned
    <3>2. QED
      BY <1>1, <2>1, <3>1 DEF SlotsOwned
  <2>3. /\ active' \in [Ids -> BOOLEAN]
        /\ my_id' \in [PassengerPids -> Ids \cup {-1}]
        /\ vip' \in [PassengerPids -> BOOLEAN]
        /\ luggage' \in [PassengerPids -> Weights \cup {0}]
        /\ stop_boarding_flag' \in [PassengerPids -> BOOLEAN]
    BY <1>1, <1>2 DEF TypeOK
  <2>4. \A q \in PassengerPids : q # p => luggage'[q] = luggage[q]
    BY <1>1, <1>2 DEF TypeOK
  <2>5. QED
    BY <1>1, <2>1, <2>2, <2>3, <2>4, AwayFromFerries DEF TypeOK
<1>3. CASE /\ ppc' = [ppc EXCEPT ![p] = "ended"]
           /\ UNCHANGED <<active, my_id, luggage, vip, stop_boarding_flag>>
  <2>1. /\ ppc'[p] = "ended" /\ ppc' = [ppc EXCEPT ![p] = ppc'[p]]
        /\ \A q \in PassengerPids : q # p => ppc'[q] = ppc[q]
    BY <1>1, <1>3
  <2>2. SlotsOwned'
    BY <1>1, <1>3, <2>1, SameSlots DEF StayingPcs, GangwayPcs
  <2>3. QED
    BY <1>1, <1>3, <2>1, <2>2, AwayFromFerries DEF TypeOK
<1>4. QED
  BY <1>2, <1>3 DEF Arrive, Goto

LEMMA ExitLocals ==
  ASSUME TypeOK, NEW p \in PassengerPids, Exit(p)
  PROVE  /\ ppc' = [ppc EXCEPT ![p] = ppc'[p]] /\ ppc'[p] = "ended" /\ my_id'[p] = -1
         /\ my_id' \in [PassengerPids -> Ids \cup {-1}]
         /\ ferry_id' \in [PassengerPids -> FerryIds \cup {-1}]
         /\ vip' \in [PassengerPids -> BOOLEAN]
         /\ luggage' \in [PassengerPids -> Weights \cup {0}]
         /\ stop_boarding_flag' \in [PassengerPids -> BOOLEAN]
         /\ attempts' \in [PassengerPids -> Nat]
         /\ sailed' \in [PassengerPids -> BOOLEAN]
         /\ \A q \in PassengerPids : q # p =>
              /\ ppc'[q] = ppc[q] /\ my_id'[q] = my_id[q] /\ ferry_id'[q] = ferry_id[q]
              /\ luggage'[q] = luggage[q] /\ sailed'[q] = sailed[q]
              /\ stop_boarding_flag'[q] = stop_boarding_flag[q]
<1> USE DEF Exit, Goto, TypeOK
<1>1. /\ ppc' = [ppc EXCEPT ![p] = ppc'[p]] /\ ppc'[p] = "ended" /\ my_id'[p] = -1
  OBVIOUS
<1>2. /\ my_id' \in [PassengerPids -> Ids \cup {-1}]
      /\ ferry_id' \in [PassengerPids -> FerryIds \cup {-1}]
      /\ vip' \in [PassengerPids -> BOOLEAN]
      /\ luggage' \in [PassengerPids -> Weights \cup {0}]
  OBVIOUS
<1>3. /\ stop_boarding_flag' \in [PassengerPids -> BOOLEAN]
      /\ attempts' \in [PassengerPids -> Nat]
      /\ sailed' \in [PassengerPids -> BOOLEAN]
  OBVIOUS
<1>4. \A q \in PassengerPids : q # p =>
        /\ ppc'[q] = ppc[q] /\ my_id'[q] = my_id[q] /\ ferry_id'[q] = ferry_id[q]
        /\ luggage'[q] = luggage[q] /\ sailed'[q] = sailed[q]
        /\ stop_boarding_flag'[q] = stop_boarding_flag[q]
  OBVIOUS
<1>5. QED
  BY ONLY <1>1, <1>2, <1>3, <1>4

LEMMA UnregisterPassengerInvariant ==
  ASSUME PortInv, NEW p \in PassengerPids, UnregisterPassenger(p)
  PROVE  PortInv'
<1>1. /\ TypeOK /\ SlotsOwned
      /\ ppc \in [PassengerPids -> PassengerPcs]
      /\ my_id \in [PassengerPids -> Ids \cup {-1}]
      /\ active \in [Ids -> BOOLEAN]
      /\ ppc[p] \in {"unregister", "unregister_last"}
      /\ active' = [active EXCEPT ![my_id[p]] = FALSE]
      /\ UNCHANGED <<ferries, gangway, portOfPassenger>>
      /\ passenger_pids' \subseteq PassengerPids
  BY DEF PortInv, TypeOK, UnregisterPassenger, othersOfPassenger
<1>2. /\ my_id[p] \in Ids
      /\ active' \in [Ids -> BOOLEAN]
      /\ \A j \in Ids : j # my_id[p] => active'[j] = active[j]
      /\ \A q \in PassengerPids : q # p => my_id[q] # my_id[p]
  BY <1>1 DEF SlotsOwned
<1>3. ASSUME ppc'[p] \in {"unregister_pid", "ended"}, my_id'[p] = -1,
             \A q \in PassengerPids : q # p => ppc'[q] = ppc[q] /\ my_id'[q] = my_id[q]
      PROVE  SlotsOwned'
  BY <1>1, <1>2, <1>3 DEF SlotsOwned, StayingPcs, GangwayPcs
<1>4. CASE /\ ppc' = [ppc EXCEPT ![p] = "unregister_pid"]
           /\ my_id' = [my_id EXCEPT ![p] = -1]
           /\ UNCHANGED <<ferry_id, vip, luggage, stop_boarding_flag, attempts, sailed>>
  <2>1. /\ ppc'[p] = "unregister_pid" /\ ppc' = [ppc EXCEPT ![p] = ppc'[p]]
        /\ my_id'[p] = -1 /\ my_id' \in [PassengerPids -> Ids \cup {-1}]
        /\ \A q \in PassengerPids : q # p => ppc'[q] = ppc[q] /\ my_id'[q] = my_id[q]
    BY <1>1, <1>4
  <2>2. SlotsOwned'
    BY <1>3, <2>1
  <2>3. QED
    BY <1>1, <1>2, <1>4, <2>1, <2>2, AwayFromFerries DEF TypeOK
<1>5. CASE Exit(p)
  <2>1. SlotsOwned'
    BY <1>1, <1>3, <1>5, ExitLocals
  <2>2. QED
    BY <1>1, <1>2, <1>5, <2>1, ExitLocals, AwayFromFerries
<1>6. QED
  BY <1>4, <1>5 DEF UnregisterPassenger, Goto

LEMMA UnregisterPassengerPidInvariant ==
  ASSUME PortInv, NEW p \in PassengerPids, UnregisterPassengerPid(p)
  PROVE  PortInv'
<1>1. /\ TypeOK /\ SlotsOwned
      /\ ppc \in [PassengerPids -> PassengerPcs]
      /\ ppc[p] \in {"unregister_pid", "on_ferry"}
      /\ UNCHANGED <<active, ferries, gangway, portOfPassenger>>
      /\ passenger_pids' \subseteq PassengerPids
  BY DEF PortInv, TypeOK, UnregisterPassengerPid
<1>2. CASE /\ ppc[p] = "on_ferry"
           /\ ppc' = [ppc EXCEPT ![p] = "unregister_last"]
           /\ UNCHANGED <<passengerLocals, sailed>>
  <2>1. /\ ppc'[p] = "unregister_last" /\ ppc' = [ppc EXCEPT ![p] = ppc'[p]]
        /\ \A q \in PassengerPids : q # p => ppc'[q] = ppc[q]
    BY <1>1, <1>2
  <2>2. SlotsOwned'
    BY <1>1, <1>2, <2>1, SameSlots DEF SlotsOwned, StayingPcs, passengerLocals
  <2>3. QED
    BY <1>1, <1>2, <2>1, <2>2, AwayFromFerries DEF TypeOK, passengerLocals
<1>3. CASE ppc[p] = "unregister_pid" /\ Exit(p)
  <2>1. my_id[p] = -1 /\ my_id \in [PassengerPids -> Ids \cup {-1}]
    BY <1>1, <1>3 DEF SlotsOwned, TypeOK
  <2>2. UNCHANGED my_id
    BY <1>3, <2>1 DEF Exit
  <2>3. SlotsOwned'
    BY <1>1, <1>3, <2>1, <2>2, ExitLocals, SameSlots DEF StayingPcs, GangwayPcs
  <2>4. QED
    BY <1>1, <1>3, <2>3, ExitLocals, AwayFromFerries DEF TypeOK
<1>4. QED
  BY <1>1, <1>2, <1>3 DEF UnregisterPassengerPid, Goto

LEMMA PassengerInvariant ==
  ASSUME PortInv, NEW p \in PassengerPids, Passenger(p)
  PROVE  PortInv'
BY ArriveInvariant, SearchHeadInvariant, FindAvailableFerryInvariant, EnterGangwayInvariant,
   BoardFerryInvariant, ExitGangwayInvariant, UnregisterPassengerInvariant,
   UnregisterPassengerPidInvariant DEF Passenger

-----------------------------------------------------------------------------
(* The captain and the launcher. *)

\* Nobody moves.
LEMMA NobodyMoves ==
  ASSUME PortInv, TypeOK',
         UNCHANGED <<active, ferries, gangway, fpc, my_ferry, should_exit, ppc, my_id, ferry_id,
                     luggage, history>>,
         signal1_received => signal1_received',
         all_passengers_finished' =>
           all_passengers_finished \/ AllPassengersEnded
  PROVE  PortInv'
<1> USE DEF history
<1>1. SlotsOwned' /\ FinishedForGood'
  BY DEF PortInv, SlotsOwned, FinishedForGood
<1>2. GangwayMirrorsPassengers'
  BY SameGangway
<1>3. FerrySlots'
  BY DEF PortInv, FerrySlots
<1>4. FoundFerriesWait'
  BY DEF PortInv, FoundFerriesWait, FoundFerryWaits
<1>5. LastTrips'
  BY DEF PortInv, LastTrips, LastTrip
<1>6. QED
  BY <1>1, <1>2, <1>3, <1>4, <1>5 DEF PortInv

\* Whoever is interrupted keeps its slot and its place on the gangway.
LEMMA SendSignal2Invariant ==
  ASSUME PortInv, SendSignal2
  PROVE  PortInv'
<1>1. /\ TypeOK /\ ppc \in [PassengerPids -> PassengerPcs]
      /\ captain_pc' \in {"working_on", "force"}
      /\ UNCHANGED <<signal1_received, fpc, force_departure_flag, othersOfCaptain>>
  BY DEF PortInv, TypeOK, SendSignal2
<1>2. PICK interrupted \in SUBSET {p \in passenger_pids : ppc[p] \in PassengerLockPcs} :
        ppc' = [p \in PassengerPids |->
                  IF p \notin interrupted THEN ppc[p]
                  ELSE IF ppc[p] \in GangwayPcs THEN "killed_on_gangway" ELSE "killed"]
  BY DEF SendSignal2
<1>3. \A p \in PassengerPids :
        \/ ppc'[p] = ppc[p]
        \/ ppc[p] \in GangwayPcs /\ ppc'[p] = "killed_on_gangway"
        \/ ppc[p] \in PassengerLockPcs \ GangwayPcs /\ ppc'[p] = "killed"
  BY <1>2
<1>4. TypeOK'
  <2>1. ppc' \in [PassengerPids -> PassengerPcs]
    BY <1>1, <1>2, <1>3 DEF PassengerPcs
  <2>2. stop_boarding_flag' \in [PassengerPids -> BOOLEAN]
    BY DEF SendSignal2
  <2>3. QED
    BY <1>1, <2>1, <2>2 DEF TypeOK, othersOfCaptain, history
<1> USE DEF othersOfCaptain, history
<1>5. SlotsOwned'
  BY <1>1, <1>3 DEF PortInv, SlotsOwned, StayingPcs, GangwayPcs
<1>6. GangwayMirrorsPassengers'
  BY <1>1, <1>3, SameGangway DEF PassengerLockPcs, GangwayPcs
<1>7. FerrySlots' /\ LastTrips'
  BY <1>1 DEF PortInv, FerrySlots, LastTrips, LastTrip
<1>8. FoundFerriesWait'
  BY <1>1, <1>3 DEF PortInv, FoundFerriesWait, FoundFerryWaits, GangwayPcs, AboardPcs
<1>9. FinishedForGood'
  BY <1>1, <1>3 DEF PortInv, FinishedForGood, PassengerEndPcs
<1>10. QED
  BY <1>4, <1>5, <1>6, <1>7, <1>8, <1>9 DEF PortInv

\* A ferry that is interrupted keeps its slot and makes no more trips.
LEMMA SendSignal1Invariant ==
  ASSUME PortInv, SendSignal1
  PROVE  PortInv'
<1>1. /\ TypeOK /\ fpc \in [FerryPids -> FerryPcs]
      /\ captain_pc' = "done" /\ signal1_received'
      /\ UNCHANGED <<ppc, stop_boarding_flag, othersOfCaptain>>
  BY DEF PortInv, TypeOK, SendSignal1
<1>2. PICK interrupted \in SUBSET {f \in FerryPids : fpc[f] \in ListedFerryPcs} :
        fpc' = [f \in FerryPids |-> IF f \in interrupted THEN "killed" ELSE fpc[f]]
  BY <1>1 DEF SendSignal1, TypeOK
<1>3. \A f \in FerryPids : \/ fpc'[f] = fpc[f]
                          \/ fpc'[f] = "killed"
  BY <1>2
<1>4. TypeOK'
  <2>1. fpc' \in [FerryPids -> FerryPcs]
    BY <1>1, <1>2 DEF FerryPcs
  <2>2. force_departure_flag' \in [FerryPids -> BOOLEAN] /\ signal1_received' \in BOOLEAN
    BY DEF SendSignal1
  <2>3. QED
    BY <1>1, <2>1, <2>2 DEF TypeOK, othersOfCaptain, history
<1> USE DEF othersOfCaptain, history
<1>5. SlotsOwned' /\ FoundFerriesWait' /\ FinishedForGood'
  BY <1>1 DEF PortInv, SlotsOwned, FoundFerriesWait, FoundFerryWaits, FinishedForGood
<1>6. GangwayMirrorsPassengers'
  BY <1>1, SameGangway
<1>7. FerrySlots'
  BY <1>1, <1>3 DEF PortInv, FerrySlots, FerrySlotPcs, OpenPcs
<1>8. LastTrips'
  BY <1>1, <1>3 DEF PortInv, LastTrips, LastTrip
<1>9. QED
  BY <1>4, <1>5, <1>6, <1>7, <1>8 DEF PortInv

LEMMA CaptainInvariant ==
  ASSUME PortInv, Captain
  PROVE  PortInv'
<1>1. TypeOK
  BY DEF PortInv
<1>2. CASE CaptainPoll \/ ForceDeparture
  <2>1. TypeOK'
    BY <1>1, <1>2 DEF TypeOK, CaptainPoll, ForceDeparture, othersOfCaptain, history
  <2>2. QED
    BY <1>2, <2>1, NobodyMoves DEF CaptainPoll, ForceDeparture, othersOfCaptain, history
<1>3. QED
  BY <1>2, SendSignal1Invariant, SendSignal2Invariant DEF Captain

LEMMA LauncherInvariant ==
  ASSUME PortInv, Launcher
  PROVE  PortInv'
<1>1. TypeOK
  BY DEF PortInv
<1>2. TypeOK'
  BY <1>1 DEF TypeOK, Launcher, ferryLocals, passengerLocals, history
<1>3. QED
  BY <1>2, NobodyMoves DEF Launcher, ferryLocals, passengerLocals, history

-----------------------------------------------------------------------------
(* The invariant and what follows from it. *)

LEMMA PortInvariant ==
  ASSUME PortInv, [Next]_vars
  PROVE  PortInv'
<1>1. CASE UNCHANGED vars
  <2>1. TypeOK'
    BY <1>1 DEF PortInv, TypeOK, vars, flags, ferryLocals, passengerLocals, history
  <2>2. QED
    BY <1>1, <2>1, NobodyMoves DEF vars, flags, ferryLocals, passengerLocals, history
<1>2. QED
  BY <1>1, FerryInvariant, PassengerInvariant, CaptainInvariant, LauncherInvariant DEF Next

\* Only a passenger changes the list, and only where it comes and goes; signal 2
\* leaves the pids of those it interrupts on it.
LEMMA ListedStep ==
  ASSUME TypeOK, PassengersListed, [Next]_vars
  PROVE  PassengersListed'
<1> DEFINE listed == {"search", "killed", "killed_on_gangway"} \cup PassengerLockPcs
<1>1. ppc \in [PassengerPids -> PassengerPcs] /\ passenger_pids \subseteq PassengerPids
  BY DEF TypeOK
<1>2. ASSUME NEW p \in PassengerPids, ppc' = [ppc EXCEPT ![p] = ppc'[p]],
             UNCHANGED passenger_pids, ppc'[p] \in listed <=> ppc[p] \in listed
      PROVE  PassengersListed'
  BY <1>1, <1>2 DEF PassengersListed
<1>3. ASSUME NEW p \in PassengerPids, Passenger(p)
      PROVE  PassengersListed'
  <2>1. CASE SearchHead(p) \/ FindAvailableFerry(p) \/ EnterGangway(p) \/ BoardFerry(p)
             \/ ExitGangway(p)
    <3>1. /\ ppc' = [ppc EXCEPT ![p] = ppc'[p]] /\ UNCHANGED passenger_pids
          /\ ppc[p] \in {"search", "find", "enter", "board", "leave_gangway", "back"}
          /\ ppc'[p] \in {"search", "find", "enter", "board", "leave_gangway", "back",
                          "on_ferry", "unregister"}
      BY <1>1, <2>1 DEF SearchHead, FindAvailableFerry, EnterGangway, BoardFerry, ExitGangway,
                        Goto, othersOfPassenger
    <3>2. QED
      BY <1>2, <3>1 DEF PassengerLockPcs, GangwayPcs
  <2>2. CASE Arrive(p)
    <3>1. \/ ppc' = [ppc EXCEPT ![p] = "search"] /\ passenger_pids' = passenger_pids \cup {p}
          \/ ppc' = [ppc EXCEPT ![p] = "ended"] /\ UNCHANGED passenger_pids
      BY <2>2 DEF Arrive, Goto
    <3>2. ppc[p] = "away"
      BY <2>2 DEF Arrive
    <3>3. QED
      BY <1>1, <3>1, <3>2 DEF PassengersListed, PassengerLockPcs, GangwayPcs
  <2>3. CASE UnregisterPassenger(p)
    <3>1. UNCHANGED passenger_pids
      BY <2>3 DEF UnregisterPassenger, othersOfPassenger
    <3>2. \/ ppc[p] = "unregister" /\ ppc' = [ppc EXCEPT ![p] = "unregister_pid"]
          \/ ppc[p] = "unregister_last" /\ ppc' = [ppc EXCEPT ![p] = "ended"]
      BY <2>3 DEF UnregisterPassenger, Goto, Exit
    <3>3. QED
      BY <1>1, <3>1, <3>2 DEF PassengersListed, PassengerLockPcs, GangwayPcs
  <2>4. CASE UnregisterPassengerPid(p)
    <3>1. /\ passenger_pids' = passenger_pids \ {p}
          /\ \/ ppc' = [ppc EXCEPT ![p] = "unregister_last"]
             \/ ppc' = [ppc EXCEPT ![p] = "ended"]
      BY <2>4 DEF UnregisterPassengerPid, Goto, Exit
    <3>2. QED
      BY <1>1, <3>1 DEF PassengersListed, PassengerLockPcs, GangwayPcs
  <2>5. QED
    BY <1>3, <2>1, <2>2, <2>3, <2>4 DEF Passenger
<1>4. CASE SendSignal2
  <2>1. UNCHANGED passenger_pids
    BY <1>4 DEF SendSignal2, othersOfCaptain
  <2>2. \A p \in PassengerPids :
          \/ ppc'[p] = ppc[p]
          \/ ppc[p] \in PassengerLockPcs /\ ppc'[p] \in {"killed", "killed_on_gangway"}
    BY <1>4 DEF SendSignal2
  <2>3. QED
    BY <2>1, <2>2 DEF PassengersListed, PassengerLockPcs, GangwayPcs
<1>5. CASE UNCHANGED <<ppc, passenger_pids>>
  BY <1>5 DEF PassengersListed
<1>6. ASSUME NEW f \in FerryPids, Ferry(f)
      PROVE  UNCHANGED <<ppc, passenger_pids>>
  <2>1. UNCHANGED othersOfFerry
    BY <1>6 DEF Ferry, RegisterFerryPid, RegisterFerry, ResetFerry, OpenFerry, BoardingRound,
                WaitForGangway, SetSail, ReturnToPort, NextTrip, NewLimit, UnregisterFerryPid,
                UnregisterFerry
  <2>2. QED
    BY <2>1 DEF othersOfFerry
<1>7. CASE UNCHANGED vars \/ Launcher \/ CaptainPoll \/ ForceDeparture \/ SendSignal1
  BY <1>5, <1>7 DEF vars, Launcher, CaptainPoll, ForceDeparture, SendSignal1, othersOfCaptain
<1>8. QED
  BY <1>3, <1>4, <1>5, <1>6, <1>7 DEF Next, Captain

LEMMA NextInvariant ==
  ASSUME IInv, [Next]_vars
  PROVE  IInv'
<1>1. PortInv /\ PassengersListed /\ TypeOK
  BY PortOfInvariant DEF IInv
<1>2. PortInv' /\ PassengersListed'
  BY <1>1, PortInvariant, ListedStep
<1>3. QED
  BY <1>2 DEF IInv, PortInv

\* The slots of passengers and ferries, the gangway, the lists of the ferries and
\* the last trips, for any interleaving of sections and signals.
THEOREM Invariant == Spec => []IInv
<1>1. Init => IInv
  BY InitInvariant
<1>2. IInv /\ [Next]_vars => IInv'
  BY NextInvariant
<1>3. QED
  BY <1>1, <1>2, PTL DEF Spec

\* ferry.c and passenger.c: every variable keeps its type, and no index leaves the
\* arrays of the segment.
THEOREM TypeCorrect == Spec => []TypeOK
<1>1. IInv => TypeOK
  BY DEF IInv
<1>2. QED
  BY <1>1, Invariant, PTL

\* ipc_enter_gangway, ipc_exit_gangway: the gangway holds those who are on it, each
\* once, for any capacity and any order of VIPs.
THEOREM GangwayCorrect == Spec => []GangwayMirrorsPassengers
<1>1. IInv => GangwayMirrorsPassengers
  BY DEF IInv
<1>2. QED
  BY <1>1, Invariant, PTL

\* ferry.c takes its slot, opens, sails and gives the slot back in sections of its
\* own: it has the slot to itself, and the status it writes says where it is.
THEOREM FerriesCorrect == Spec => []FerriesOwned
<1>1. IInv => FerriesOwned
  <2> SUFFICES ASSUME IInv PROVE FerriesOwned
    OBVIOUS
  <2>1. FerrySlots
    BY DEF IInv
  <2>2. ASSUME NEW f \in FerryPids, fpc[f] \in FerrySlotPcs \cup {"unregister"}
        PROVE  /\ my_ferry[f] \in FerryIds
               /\ ferries[my_ferry[f]].active
               /\ ferries[my_ferry[f]].status = "BOARDING" <=> fpc[f] \in OpenPcs
    BY <2>2, PortOfInvariant, OwnSlot
  <2>3. \A k \in FerryIds : ferries[k].active =>
          \E f \in FerryPids : my_ferry[f] = k /\ fpc[f] # "ended"
    BY <2>1 DEF FerrySlots, FerryIds
  <2>4. QED
    BY <2>1, <2>2, <2>3 DEF FerriesOwned, FerrySlots
<1>2. QED
  BY <1>1, Invariant, PTL

\* ipc_board_ferry and ferry.c: a place on the list is kept until the ferry sails.
THEOREM BoardersCorrect == Spec => []BoardersKept
<1>1. IInv => BoardersKept
  BY DEF IInv, FoundFerriesWait, FoundFerryWaits, BoardersKept, AboardPcs, GangwayPcs
<1>2. QED
  BY <1>1, Invariant, PTL

\* ferry.c after the captain's signal 1: two more departures, wherever it comes.
THEOREM TripsBounded == Spec => []AtMostTwoMoreTrips
<1>1. IInv => AtMostTwoMoreTrips
  BY DEF IInv, LastTrips, LastTrip, AtMostTwoMoreTrips
<1>2. QED
  BY <1>1, Invariant, PTL

\* passenger.c looks for a place, takes the gangway and boards in three sections:
\* those who wait on board have different slots on the list, which has no more than
\* FERRY_CAPACITY of them.
THEOREM LoadCorrect == Spec => []NeverOverloaded
<1>1. IInv => NeverOverloaded
  <2> SUFFICES ASSUME IInv, NEW k \in FerryIds
               PROVE  Cardinality({p \in Aboard(k) : ~sailed[p]}) <= FERRY_CAPACITY
    BY DEF NeverOverloaded
  <2> DEFINE S == {p \in Aboard(k) : ~sailed[p]}
             r == ferries[k]
  <2>1. r.num_passengers \in 0 .. FERRY_CAPACITY
    <3>1. r \in FerryInfo
      BY DEF IInv, TypeOK
    <3>2. QED
      BY <3>1 DEF FerryInfo
  <2>2. \A p \in S : my_id[p] \in Window(r.passenger_ids, r.num_passengers)
    BY DEF Aboard, IInv, FoundFerriesWait, FoundFerryWaits, AboardPcs, GangwayPcs
  <2>3. \A p, q \in S : p # q => my_id[p] # my_id[q]
    <3>1. \A p \in S : p \in PassengerPids /\ my_id[p] # -1
      BY DEF Aboard, IInv, SlotsOwned, AboardPcs, StayingPcs, GangwayPcs
    <3>2. QED
      BY <3>1 DEF IInv, SlotsOwned
  <2> HIDE DEF S, r
  <2>4. Cardinality(S) <= r.num_passengers
    BY <2>1, <2>2, <2>3, NoMoreThanCells
  <2>5. Cardinality(S) \in Int
    <3>1. S \subseteq PassengerPids
      BY DEF S, Aboard
    <3>2. QED
      BY <3>1, FS_Subset, FS_CardinalityType
  <2>6. QED
    BY <2>1, <2>4, <2>5 DEF S
<1>2. QED
  BY <1>1, Invariant, PTL

-----------------------------------------------------------------------------
(* Boarding implements WaitingRoom: what each kind of step of a passenger *)
(* looks like in the room.                                                *)

Holders == {p \in PassengerPids : my_id[p] # -1}
Held == {<<p, my_id[p]>> : p \in Holders}
Staying == {p \in PassengerPids : ppc[p] \in StayingPcs}
Flagged == {p \in Staying : stop_boarding_flag[p]}
Told == captain_pc \notin {"absent", "working", "send2"}

\* The mapping of Room: the flag is set in the slot of everybody who holds one.
RoomIsMapped ==
  /\ {<<p, my_id[p]>> : p \in {q \in PassengerPids : my_id[q] # -1 /\ active[my_id[q]]}} = Held
  /\ {p \in PassengerPids : ppc[p] \in StayingPcs} = Staying
  /\ {p \in PassengerPids : ppc[p] \in StayingPcs /\ stop_boarding_flag[p]} = Flagged
  /\ (captain_pc \notin {"absent", "working", "send2"}) = Told
LEMMA RoomState == IInv => RoomIsMapped
<1> SUFFICES ASSUME IInv PROVE RoomIsMapped
  OBVIOUS
<1>1. {q \in PassengerPids : my_id[q] # -1 /\ active[my_id[q]]} = Holders
  BY DEF IInv, SlotsOwned, Holders
<1>2. {p \in PassengerPids : ppc[p] \in StayingPcs /\ stop_boarding_flag[p]} = Flagged
  BY DEF Flagged, Staying
<1>3. QED
  BY <1>1, <1>2 DEF RoomIsMapped, Held, Staying, Told

LEMMA RoomStates ==
  ASSUME IInv, IInv'
  PROVE  RoomIsMapped /\ RoomIsMapped'
<1>1. (IInv => RoomIsMapped)'
  BY RoomState, PTL
<1>2. QED
  BY <1>1, RoomState

\* For everybody but p the room stays as it is.
OthersStay(p) ==
  /\ Told' = Told
  /\ \A q \in PassengerPids : q # p =>
       /\ my_id'[q] = my_id[q]
       /\ ppc'[q] \in StayingPcs <=> ppc[q] \in StayingPcs
       /\ stop_boarding_flag'[q] = stop_boarding_flag[q]

LEMMA RoomLeave ==
  ASSUME IInv, IInv', NEW p \in PassengerPids, OthersStay(p), my_id'[p] = my_id[p],
         ppc[p] \in StayingPcs, ppc'[p] \notin StayingPcs
  PROVE  Room!Leave(p)
<1>1. Staying' = Staying \ {p} /\ Flagged' = Flagged \ {p} /\ p \in Staying
  BY DEF Staying, Flagged, OthersStay
<1>2. Holders' = Holders /\ Held' = Held
  BY DEF Holders, Held, OthersStay
<1>3. Told' = Told
  BY DEF OthersStay
<1>4. QED
  BY <1>1, <1>2, <1>3, RoomStates DEF Room!Leave, RoomIsMapped

LEMMA RoomStutter ==
  ASSUME IInv, IInv', NEW p \in PassengerPids, OthersStay(p), my_id'[p] = my_id[p],
         ppc'[p] \in StayingPcs <=> ppc[p] \in StayingPcs,
         ppc[p] \in StayingPcs => (stop_boarding_flag'[p] <=> stop_boarding_flag[p])
  PROVE  UNCHANGED Room!roomVars
<1>1. Staying' = Staying /\ Flagged' = Flagged
  BY DEF Staying, Flagged, OthersStay
<1>2. Holders' = Holders /\ Held' = Held
  BY DEF Holders, Held, OthersStay
<1>3. Told' = Told
  BY DEF OthersStay
<1>4. QED
  BY <1>1, <1>2, <1>3, RoomStates DEF Room!roomVars, RoomIsMapped

LEMMA RoomGiveBack ==
  ASSUME IInv, IInv', NEW p \in PassengerPids, OthersStay(p),
         my_id[p] # -1, my_id'[p] = -1,
         ppc[p] \notin StayingPcs, ppc'[p] \notin StayingPcs
  PROVE  \E i \in Ids : Room!GiveBack(p, i)
<1>1. Staying' = Staying /\ Flagged' = Flagged /\ p \notin Staying
  BY DEF Staying, Flagged, OthersStay
<1>2. Held' = Held \ {<<p, my_id[p]>>}
  <2>1. Holders' = Holders \ {p} /\ \A q \in Holders' : my_id'[q] = my_id[q]
    BY DEF Holders, OthersStay
  <2>2. Held' = {<<q, my_id[q]>> : q \in Holders \ {p}}
    BY <2>1 DEF Held
  <2>3. QED
    BY <2>2 DEF Held
<1>3. Told' = Told
  BY DEF OthersStay
<1>4. PICK i \in Ids : i = my_id[p]
  BY DEF IInv, TypeOK
<1>5. Room!GiveBack(p, i)
  BY <1>1, <1>2, <1>3, <1>4, RoomStates DEF Room!GiveBack, RoomIsMapped
<1>6. QED
  BY <1>5

\* The number is not that of another passenger in the room, although the slots of
\* those who were interrupted are never given back.
LEMMA RoomArrive ==
  ASSUME IInv, IInv', NEW p \in PassengerPids, OthersStay(p),
         my_id[p] = -1, my_id'[p] # -1,
         ppc[p] \notin StayingPcs, ppc'[p] \in StayingPcs,
         stop_boarding_flag'[p] <=> Told
  PROVE  \E i \in Ids : Room!Arrive(p, i)
<1>0. PICK i \in Ids : i = my_id'[p]
  BY DEF IInv, TypeOK
<1>1. Staying' = Staying \cup {p} /\ Flagged' = IF Told THEN Flagged \cup {p} ELSE Flagged
  BY DEF Staying, Flagged, OthersStay
<1>2. Held' = Held \cup {<<p, i>>}
  <2>1. Holders' = Holders \cup {p} /\ \A q \in Holders : my_id'[q] = my_id[q]
    BY DEF Holders, OthersStay
  <2>2. QED
    BY <1>0, <2>1 DEF Held
<1>3. \A h \in Held : p # h[1] /\ i # h[2]
  <2>1. \A q \in Holders : q # p /\ q \in PassengerPids /\ my_id'[q] = my_id[q] /\ my_id'[q] # -1
    BY DEF Holders, OthersStay
  <2>2. \A q \in Holders : my_id[q] # i
    BY <1>0, <2>1 DEF IInv, SlotsOwned
  <2>3. QED
    BY <2>1, <2>2 DEF Held
<1>4. Told' = Told
  BY DEF OthersStay
<1>5. Room!Arrive(p, i)
  BY <1>1, <1>2, <1>3, <1>4, RoomStates DEF Room!Arrive, RoomIsMapped
<1>6. QED
  BY <1>5

\* The captain tells everybody: those who stay know, the others were interrupted.
LEMMA RoomTell ==
  ASSUME IInv, IInv', UNCHANGED my_id, ~Told, Told',
         \A p \in PassengerPids :
           ppc'[p] \in StayingPcs =>
             ppc'[p] = ppc[p] /\ stop_boarding_flag'[p]
  PROVE  Room!Tell
<1>1. Staying' \subseteq Staying /\ Flagged' = Staying'
  BY DEF Staying, Flagged
<1>2. Held' = Held
  BY DEF Holders, Held
<1>3. QED
  BY <1>1, <1>2, RoomStates DEF Room!Tell, RoomIsMapped

\* Nobody in the room notices.
LEMMA RoomUnseen ==
  ASSUME IInv, IInv', UNCHANGED <<my_id, ppc, stop_boarding_flag>>, Told' = Told
  PROVE  UNCHANGED Room!roomVars
<1>1. Staying' = Staying /\ Flagged' = Flagged /\ Held' = Held
  BY DEF Staying, Flagged, Holders, Held
<1>2. QED
  BY <1>1, RoomStates DEF Room!roomVars, RoomIsMapped

\* Every step of a passenger is one of these, or none.
LEMMA PassengerInRoom ==
  ASSUME IInv, IInv', NEW p \in PassengerPids, Passenger(p)
  PROVE  [Room!Next]_Room!roomVars
<1>1. /\ ppc \in [PassengerPids -> PassengerPcs]
      /\ my_id \in [PassengerPids -> Ids \cup {-1}]
      /\ stop_boarding_flag \in [PassengerPids -> BOOLEAN]
  BY DEF IInv, TypeOK
<1>2. Told' = Told
  BY DEF Told, Passenger, Arrive, SearchHead, FindAvailableFerry, EnterGangway, BoardFerry,
         ExitGangway, UnregisterPassenger, UnregisterPassengerPid, othersOfPassenger,
         portOfPassenger
<1>3. ASSUME UNCHANGED <<my_id, stop_boarding_flag>>, ppc' = [ppc EXCEPT ![p] = ppc'[p]],
             ppc'[p] \in StayingPcs => ppc[p] \in StayingPcs
      PROVE  [Room!Next]_Room!roomVars
  <2>1. OthersStay(p)
    BY <1>1, <1>2, <1>3 DEF OthersStay
  <2>2. CASE ppc'[p] \in StayingPcs <=> ppc[p] \in StayingPcs
    BY <1>3, <2>1, <2>2, RoomStutter
  <2>3. CASE ppc'[p] \notin StayingPcs /\ ppc[p] \in StayingPcs
    <3>1. Room!Leave(p)
      BY <1>3, <2>1, <2>3, RoomLeave
    <3>2. QED
      BY <3>1 DEF Room!Next
  <2>4. QED
    BY <1>3, <2>2, <2>3
<1>4. CASE SearchHead(p) \/ FindAvailableFerry(p) \/ EnterGangway(p) \/ BoardFerry(p)
  <2>1. UNCHANGED <<my_id, stop_boarding_flag>>
    BY <1>4 DEF SearchHead, FindAvailableFerry, EnterGangway, BoardFerry, passengerLocals
  <2>2. ppc' = [ppc EXCEPT ![p] = ppc'[p]] /\ ppc[p] \in StayingPcs
    BY <1>1, <1>4 DEF SearchHead, FindAvailableFerry, EnterGangway, BoardFerry, Goto,
                      StayingPcs, GangwayPcs
  <2>3. QED
    BY <1>3, <2>1, <2>2
<1>5. CASE ExitGangway(p)
  <2>1. /\ UNCHANGED <<my_id, stop_boarding_flag>>
        /\ ppc' = [ppc EXCEPT ![p] = ppc'[p]] /\ ppc[p] \in StayingPcs
    BY <1>1, <1>5 DEF ExitGangway, passengerLocals, Goto, StayingPcs, GangwayPcs
  <2>2. QED
    BY <1>3, <2>1
<1>6. CASE Arrive(p)
  <2>1. my_id[p] = -1 /\ ppc[p] = "away"
    BY <1>6 DEF Arrive, IInv, SlotsOwned
  <2>2. ASSUME NEW i \in Ids,
               my_id' = [my_id EXCEPT ![p] = i],
               stop_boarding_flag' = [stop_boarding_flag EXCEPT ![p] = Told],
               ppc' = [ppc EXCEPT ![p] = "search"]
        PROVE  [Room!Next]_Room!roomVars
    <3>1. my_id'[p] # -1 /\ ppc'[p] = "search"
      BY <1>1, <2>2 DEF Ids
    <3>2. OthersStay(p)
      BY <1>1, <1>2, <2>2 DEF OthersStay
    <3>3. stop_boarding_flag'[p] <=> Told
      BY <1>1, <2>2
    <3>4. \E j \in Ids : Room!Arrive(p, j)
      BY <2>1, <3>1, <3>2, <3>3, RoomArrive DEF StayingPcs, GangwayPcs
    <3>5. QED
      BY <3>4 DEF Room!Next
  <2>3. CASE ppc' = [ppc EXCEPT ![p] = "ended"] /\ UNCHANGED <<my_id, stop_boarding_flag>>
    BY <1>1, <1>3, <2>3 DEF StayingPcs, GangwayPcs
  <2>4. QED
    BY <1>6, <2>2, <2>3 DEF Arrive, Goto, Told
<1>7. CASE UnregisterPassenger(p)
  <2>1. my_id[p] # -1 /\ ppc[p] \notin StayingPcs
    BY <1>7 DEF UnregisterPassenger, IInv, SlotsOwned, StayingPcs, GangwayPcs
  <2>2. /\ ppc'[p] \notin StayingPcs /\ my_id'[p] = -1
        /\ OthersStay(p)
    <3>1. CASE /\ ppc' = [ppc EXCEPT ![p] = "unregister_pid"]
               /\ my_id' = [my_id EXCEPT ![p] = -1]
               /\ UNCHANGED stop_boarding_flag
      BY <1>1, <1>2, <3>1 DEF OthersStay, StayingPcs, GangwayPcs
    <3>2. CASE Exit(p)
      BY <1>2, <3>2, ExitLocals DEF IInv, OthersStay, StayingPcs, GangwayPcs
    <3>3. QED
      BY <1>7, <3>1, <3>2 DEF UnregisterPassenger, Goto
  <2>3. \E i \in Ids : Room!GiveBack(p, i)
    BY <2>1, <2>2, RoomGiveBack
  <2>4. QED
    BY <2>3 DEF Room!Next
<1>8. CASE UnregisterPassengerPid(p)
  <2>1. CASE ppc[p] = "on_ferry"
    BY <1>1, <1>3, <1>8, <2>1 DEF UnregisterPassengerPid, Goto, passengerLocals, StayingPcs,
                                  GangwayPcs
  <2>2. CASE ppc[p] = "unregister_pid"
    <3>1. Exit(p) /\ my_id[p] = -1
      BY <1>8, <2>2 DEF UnregisterPassengerPid, IInv, SlotsOwned
    <3>2. OthersStay(p) /\ ppc'[p] = "ended" /\ my_id'[p] = -1
      BY <1>2, <3>1, ExitLocals DEF IInv, OthersStay
    <3>3. QED
      BY <2>2, <3>1, <3>2, RoomStutter DEF StayingPcs, GangwayPcs
  <2>3. QED
    BY <1>8, <2>1, <2>2 DEF UnregisterPassengerPid
<1>9. QED
  BY <1>4, <1>5, <1>6, <1>7, <1>8 DEF Passenger

\* The captain tells those on the list, or finds when he looks the first time that
\* everybody has gone; the ferries and the launcher are not seen in the room.
LEMMA OthersInRoom ==
  ASSUME IInv, IInv', [Next]_vars, ~ \E p \in PassengerPids : Passenger(p)
  PROVE  [Room!Next]_Room!roomVars
<1>1. CASE UNCHANGED vars \/ Launcher \/ \E f \in FerryPids : Ferry(f)
  <2>1. UNCHANGED <<my_id, ppc, stop_boarding_flag, captain_pc>>
    <3>1. ASSUME NEW f \in FerryPids, Ferry(f)
          PROVE  UNCHANGED othersOfFerry
      BY <3>1 DEF Ferry, RegisterFerryPid, RegisterFerry, ResetFerry, OpenFerry, BoardingRound,
                  WaitForGangway, SetSail, ReturnToPort, NextTrip, NewLimit,
                  UnregisterFerryPid, UnregisterFerry
    <3>2. QED
      BY <1>1, <3>1 DEF othersOfFerry, passengerLocals, vars, Launcher
  <2>2. QED
    BY <2>1, RoomUnseen DEF Told
<1>2. CASE ForceDeparture \/ SendSignal1
  <2>1. UNCHANGED <<my_id, ppc, stop_boarding_flag>> /\ Told' = Told
    BY <1>2 DEF ForceDeparture, SendSignal1, othersOfCaptain, Told
  <2>2. QED
    BY <2>1, RoomUnseen
<1>3. CASE CaptainPoll
  <2>1. UNCHANGED <<my_id, ppc, stop_boarding_flag>>
    BY <1>3 DEF CaptainPoll, othersOfCaptain
  <2>2. CASE captain_pc = "working" /\ captain_pc' = "done"
    <3>1. all_passengers_finished
      BY <1>3, <2>2 DEF CaptainPoll
    <3>2. \A p \in PassengerPids : ppc'[p] \notin StayingPcs
      BY <2>1, <3>1 DEF IInv, FinishedForGood, PassengerEndPcs, StayingPcs, GangwayPcs
    <3>3. Room!Tell
      BY <2>1, <2>2, <3>2, RoomTell DEF Told
    <3>4. QED
      BY <3>3 DEF Room!Next
  <2>3. CASE ~(captain_pc = "working" /\ captain_pc' = "done")
    <3>1. Told' = Told
      BY <1>3, <2>3 DEF CaptainPoll, Told
    <3>2. QED
      BY <2>1, <3>1, RoomUnseen
  <2>4. QED
    BY <2>2, <2>3
<1>4. CASE SendSignal2
  <2>1. UNCHANGED my_id /\ ~Told /\ Told'
    BY <1>4 DEF SendSignal2, othersOfCaptain, Told
  <2>2. ASSUME NEW p \in PassengerPids, ppc'[p] \in StayingPcs
        PROVE  ppc'[p] = ppc[p] /\ stop_boarding_flag'[p]
    <3>1. PICK interrupted \in SUBSET {q \in passenger_pids : ppc[q] \in PassengerLockPcs} :
            /\ ppc' = [q \in PassengerPids |->
                         IF q \notin interrupted THEN ppc[q]
                         ELSE IF ppc[q] \in GangwayPcs THEN "killed_on_gangway" ELSE "killed"]
            /\ stop_boarding_flag' = [q \in PassengerPids |-> q \in passenger_pids \ interrupted]
      BY <1>4 DEF SendSignal2
    <3>2. p \notin interrupted /\ ppc'[p] = ppc[p]
      BY <2>2, <3>1 DEF StayingPcs, GangwayPcs
    <3>3. p \in passenger_pids
      BY <2>2, <3>2 DEF IInv, PassengersListed, StayingPcs, PassengerLockPcs
    <3>4. QED
      BY <3>1, <3>2, <3>3
  <2>3. Room!Tell
    BY <2>1, <2>2, RoomTell
  <2>4. QED
    BY <2>3 DEF Room!Next
<1>5. QED
  BY <1>1, <1>2, <1>3, <1>4 DEF Next, Captain

\* passenger.c from the waiting room on keeps what the ferries are told about those
\* who arrive there: nobody is missed by signal 2, nobody shares a slot.
THEOREM ImplementsWaitingRoom == Spec => KeepsWaitingRoom
<1>1. Init => Room!Init
  BY DEF Init, Room!Init, StayingPcs, GangwayPcs
<1>2. IInv /\ IInv' /\ [Next]_vars => [Room!Next]_Room!roomVars
  BY PassengerInRoom, OthersInRoom
<1>3. QED
  BY <1>1, <1>2, Invariant, PTL DEF Spec, KeepsWaitingRoom, Room!Spec

-----------------------------------------------------------------------------
(* Boarding implements Voyages. *)

IsOpen(k) == ferries[k].active /\ ferries[k].status = "BOARDING"
OpenFerries == {k \in FerryIds : IsOpen(k)}
Seats == [k \in FerryIds |-> IF ferries[k].status = "BOARDING" THEN ferries[k].num_passengers ELSE 0]
Waits(p) == ppc[p] \in AboardPcs /\ ~sailed[p]
Waiting == [k \in FerryIds |-> {p \in PassengerPids : Waits(p) /\ ferry_id[p] = k}]

\* The mapping of Voyage.
VoyageIsMapped ==
  /\ {k \in FerryIds : ferries[k].active /\ ferries[k].status = "BOARDING"} = OpenFerries
  /\ [k \in FerryIds |-> IF ferries[k].status = "BOARDING" THEN ferries[k].num_passengers ELSE 0]
       = Seats
  /\ [k \in FerryIds |-> {p \in Aboard(k) : ~sailed[p]}] = Waiting
LEMMA VoyageState == VoyageIsMapped
BY DEF VoyageIsMapped, OpenFerries, IsOpen, Seats, Waiting, Waits, Aboard
LEMMA VoyageStates == VoyageIsMapped /\ VoyageIsMapped'
BY VoyageState, PTL

\* A ferry seen from the voyage: open or not, and the seats given away.
SameFerry(k) ==
  /\ ferries'[k].status = "BOARDING" <=> ferries[k].status = "BOARDING"
  /\ ferries[k].status = "BOARDING" =>
       /\ ferries'[k].active <=> ferries[k].active
       /\ ferries'[k].num_passengers = ferries[k].num_passengers
SamePassenger(p) ==
  /\ Waits(p)' <=> Waits(p)
  /\ Waits(p) => ferry_id'[p] = ferry_id[p]

LEMMA SameOpenFerries ==
  ASSUME \A k \in FerryIds : SameFerry(k)
  PROVE  OpenFerries' = OpenFerries /\ Seats' = Seats
BY DEF SameFerry, OpenFerries, IsOpen, Seats

LEMMA SamePassengers ==
  ASSUME \A p \in PassengerPids : SamePassenger(p)
  PROVE  Waiting' = Waiting
BY DEF SamePassenger, Waiting

LEMMA VoyageStutter ==
  ASSUME \A k \in FerryIds : SameFerry(k), \A p \in PassengerPids : SamePassenger(p)
  PROVE  UNCHANGED Voyage!voyageVars
<1>1. OpenFerries' = OpenFerries /\ Seats' = Seats /\ Waiting' = Waiting
  BY SameOpenFerries, SamePassengers
<1>2. QED
  BY <1>1, VoyageStates DEF Voyage!voyageVars, VoyageIsMapped

LEMMA VoyageStepOff ==
  ASSUME \A k \in FerryIds : SameFerry(k),
         \A p \in PassengerPids : Waits(p)' => Waits(p) /\ ferry_id'[p] = ferry_id[p]
  PROVE  Voyage!StepOff
<1>1. OpenFerries' = OpenFerries /\ Seats' = Seats
  BY SameOpenFerries
<1>2. /\ Waiting' \in [FerryIds -> SUBSET PassengerPids]
      /\ \A k \in FerryIds : Waiting'[k] \subseteq Waiting[k]
  BY DEF Waiting
<1>3. QED
  BY <1>1, <1>2, VoyageStates DEF Voyage!StepOff, VoyageIsMapped

\* A ferry opens with the empty list that the reset before left.
LEMMA OpenFerryOpens ==
  ASSUME IInv, NEW f \in FerryPids, OpenFerry(f)
  PROVE  \E k \in FerryIds : Voyage!Open(k)
<1>1. PICK k \in FerryIds : k = my_ferry[f]
  BY PortOfInvariant, OwnSlot DEF OpenFerry, FerrySlotPcs
<1>2. /\ ferries[k] \in FerryInfo /\ ferries[k].active
      /\ ferries[k].status # "BOARDING"
      /\ ferries[k].num_passengers = 0
      /\ ferries \in [FerryIds -> FerryInfo]
  BY <1>1, PortOfInvariant, OwnSlot DEF OpenFerry, FerrySlotPcs, OpenPcs, IInv, TypeOK
<1>3. /\ ferries'[k].active /\ ferries'[k].status = "BOARDING"
      /\ ferries'[k].num_passengers = 0
      /\ \A j \in FerryIds : j # k => ferries'[j] = ferries[j]
  BY <1>1, <1>2 DEF OpenFerry, FerryInfo
<1>4. k \notin OpenFerries /\ OpenFerries' = OpenFerries \cup {k}
  BY <1>2, <1>3 DEF OpenFerries, IsOpen
<1>5. Seats' = Seats
  BY <1>2, <1>3 DEF Seats
<1>6. Waiting' = Waiting
  BY SamePassengers DEF SamePassenger, Waits, OpenFerry, othersOfFerry, passengerLocals, history
<1>7. Voyage!Open(k)
  BY <1>4, <1>5, <1>6, VoyageStates DEF Voyage!Open, VoyageIsMapped
<1>8. QED
  BY <1>7

\* Whoever waits on board of the ferry that sails has sailed; nobody else has.
LEMMA SetSailSails ==
  ASSUME IInv, NEW f \in FerryPids, SetSail(f)
  PROVE  \E k \in FerryIds : Voyage!Sail(k)
<1>1. PICK k \in FerryIds : k = my_ferry[f]
  BY PortOfInvariant, OwnSlot DEF SetSail, FerrySlotPcs, OpenPcs
<1>2. /\ ferries[k] \in FerryInfo /\ IsOpen(k)
      /\ ferries \in [FerryIds -> FerryInfo]
  BY <1>1, PortOfInvariant, OwnSlot DEF SetSail, FerrySlotPcs, OpenPcs, IInv, TypeOK, IsOpen
<1>3. /\ ferries'[k].status = "SAILING"
      /\ \A j \in FerryIds : j # k => ferries'[j] = ferries[j]
  BY <1>1, <1>2 DEF SetSail, FerryInfo
<1>4. k \in OpenFerries /\ OpenFerries' = OpenFerries \ {k}
  BY <1>2, <1>3 DEF OpenFerries, IsOpen
<1>5. Seats' = [Seats EXCEPT ![k] = 0]
  BY <1>3 DEF Seats
<1>6. Waiting' = [Waiting EXCEPT ![k] = {}]
  <2>1. UNCHANGED <<ppc, ferry_id>>
    BY DEF SetSail, othersOfFerry, passengerLocals
  <2>2. \A p \in PassengerPids : ferry_id[p] = k => ~Waits(p)'
    BY <1>1, <2>1 DEF SetSail, Waits, Aboard
  <2>3. \A p \in PassengerPids : ferry_id[p] # k => (Waits(p)' <=> Waits(p))
    BY <1>1, <2>1 DEF SetSail, Waits, Aboard, Bound
  <2>4. QED
    BY <2>1, <2>2, <2>3 DEF Waiting
<1>7. Voyage!Sail(k)
  BY <1>4, <1>5, <1>6, VoyageStates DEF Voyage!Sail, VoyageIsMapped
<1>8. QED
  BY <1>7

\* The passenger on the gangway waits on no ferry yet, and takes the next seat of
\* the one it found, if that one is open.
LEMMA BoardFerryTakesOn ==
  ASSUME IInv, NEW p \in PassengerPids, BoardFerry(p)
  PROVE  [Voyage!Next]_Voyage!voyageVars
<1>1. /\ TypeOK /\ FoundFerryWaits(p)
      /\ ppc \in [PassengerPids -> PassengerPcs]
      /\ sailed \in [PassengerPids -> BOOLEAN]
      /\ ppc[p] = "board"
      /\ UNCHANGED <<passengerLocals, othersOfPassenger>>
  BY DEF BoardFerry, IInv, TypeOK, FoundFerriesWait
<1>2. PICK k \in FerryIds : k = ferry_id[p]
  BY <1>1 DEF TypeOK, FoundFerryWaits, GangwayPcs
<1>3. CASE ppc' = [ppc EXCEPT ![p] = "back"] /\ UNCHANGED <<ferries, sailed>>
  <2>1. \A j \in FerryIds : SameFerry(j)
    BY <1>3 DEF SameFerry
  <2>2. \A q \in PassengerPids : SamePassenger(q)
    BY <1>1, <1>3 DEF SamePassenger, Waits, passengerLocals, AboardPcs
  <2>3. QED
    BY <2>1, <2>2, VoyageStutter
<1>4. CASE /\ IsOpen(k) /\ ferries[k].num_passengers < FERRY_CAPACITY
           /\ ferries' = [ferries EXCEPT
                ![k].passenger_ids[ferries[k].num_passengers] = my_id[p],
                ![k].num_passengers = ferries[k].num_passengers + 1]
           /\ sailed' = [sailed EXCEPT ![p] = FALSE]
           /\ ppc' = [ppc EXCEPT ![p] = "leave_gangway"]
  <2> DEFINE n == ferries[k].num_passengers
             new == [ferries[k].passenger_ids EXCEPT ![n] = my_id[p]]
  <2>1. ferries \in [FerryIds -> FerryInfo] /\ ferries[k] \in FerryInfo
    BY <1>1 DEF TypeOK
  <2>2. \A j \in FerryIds : ferries'[j] =
          IF j = k THEN [ferries[k] EXCEPT !.passenger_ids = new, !.num_passengers = n + 1]
                   ELSE ferries[j]
    BY <1>4, <2>1
  <2> HIDE DEF n, new
  <2>3. /\ ferries'[k].active = ferries[k].active
        /\ ferries'[k].status = "BOARDING" /\ ferries'[k].num_passengers = n + 1
        /\ \A j \in FerryIds : j # k => ferries'[j] = ferries[j]
    <3>1. ferries'[k] = [ferries[k] EXCEPT !.passenger_ids = new, !.num_passengers = n + 1]
      BY <2>2
    <3>2. QED
      BY <1>4, <2>1, <2>2, <3>1 DEF FerryInfo, IsOpen
  <2>4. k \in OpenFerries /\ OpenFerries' = OpenFerries
    BY <1>4, <2>3 DEF OpenFerries, IsOpen
  <2>5. Seats[k] < FERRY_CAPACITY /\ Seats' = [Seats EXCEPT ![k] = @ + 1]
    <3>1. Seats[k] = n /\ n < FERRY_CAPACITY
      BY <1>4 DEF Seats, IsOpen, n
    <3>2. Seats'[k] = n + 1 /\ \A j \in FerryIds : j # k => Seats'[j] = Seats[j]
      BY <2>3 DEF Seats
    <3>3. QED
      BY <3>1, <3>2 DEF Seats
  <2>6. /\ \A j \in FerryIds : p \notin Waiting[j]
        /\ Waiting' = [Waiting EXCEPT ![k] = @ \cup {p}]
    <3>1. ~Waits(p) /\ Waits(p)' /\ ferry_id'[p] = k
      BY <1>1, <1>2, <1>4 DEF Waits, AboardPcs, passengerLocals
    <3>2. \A q \in PassengerPids : q # p =>
            (Waits(q)' <=> Waits(q)) /\ ferry_id'[q] = ferry_id[q]
      BY <1>1, <1>4 DEF Waits, passengerLocals
    <3>3. QED
      BY <3>1, <3>2 DEF Waiting
  <2>7. Voyage!TakeOn(k, p)
    BY <2>4, <2>5, <2>6, VoyageStates DEF Voyage!TakeOn, VoyageIsMapped
  <2>8. QED
    BY <2>7 DEF Voyage!Next
<1>5. QED
  BY <1>2, <1>3, <1>4 DEF BoardFerry, Goto, IsOpen

\* The other steps of a ferry change nothing that a passenger could board.
LEMMA ClosedFerryStutters ==
  ASSUME IInv, NEW f \in FerryPids, Ferry(f), ~OpenFerry(f), ~SetSail(f)
  PROVE  UNCHANGED Voyage!voyageVars
<1>1. \A p \in PassengerPids : SamePassenger(p)
  BY DEF SamePassenger, Waits, Ferry, RegisterFerryPid, RegisterFerry, ResetFerry, BoardingRound,
         WaitForGangway, ReturnToPort, NextTrip, NewLimit, UnregisterFerryPid,
         UnregisterFerry, othersOfFerry, passengerLocals, history
<1>2. ferries \in [FerryIds -> FerryInfo]
  BY DEF IInv, TypeOK
<1>3. \A k \in FerryIds : SameFerry(k)
  <2>1. CASE UNCHANGED ferries
    BY <2>1 DEF SameFerry
  <2>2. CASE RegisterFerry(f)
    <3>1. ASSUME NEW k \in FerryIds, NEW limit \in LuggageLimits, ~ferries[k].active,
                 ferries' = [ferries EXCEPT ![k] =
                   [active |-> TRUE, status |-> "IDLE", num_passengers |-> 0,
                    passenger_ids |-> NoPassengers, max_luggage_weight |-> limit]]
          PROVE  \A j \in FerryIds : SameFerry(j)
      BY <1>2, <3>1 DEF SameFerry, IInv, FerrySlots
    <3>2. QED
      BY <2>1, <2>2, <3>1 DEF RegisterFerry, FirstFreeFerry
  <2>3. CASE ResetFerry(f) \/ ReturnToPort(f) \/ NewLimit(f) \/ UnregisterFerry(f)
    <3>1. PICK k \in FerryIds : k = my_ferry[f]
      BY <2>3, PortOfInvariant, OwnSlot DEF ResetFerry, ReturnToPort, NewLimit, UnregisterFerry, FerrySlotPcs
    <3>2. ferries[k] \in FerryInfo /\ ferries[k].status # "BOARDING"
      BY <2>3, <3>1, PortOfInvariant, OwnSlot DEF ResetFerry, ReturnToPort, NewLimit, UnregisterFerry,
                                 FerrySlotPcs, OpenPcs
    <3>3. /\ ferries'[k].status # "BOARDING"
          /\ \A j \in FerryIds : j # k => ferries'[j] = ferries[j]
      <4>1. CASE ResetFerry(f)
        BY <1>2, <3>1, <3>2, <4>1 DEF ResetFerry, FerryInfo
      <4>2. CASE ReturnToPort(f)
        BY <1>2, <3>1, <3>2, <4>2 DEF ReturnToPort, FerryInfo
      <4>3. CASE NewLimit(f)
        <5>1. ASSUME NEW limit \in LuggageLimits,
                     ferries' = [ferries EXCEPT ![k].max_luggage_weight = limit]
              PROVE  /\ ferries'[k].status # "BOARDING"
                     /\ \A j \in FerryIds : j # k => ferries'[j] = ferries[j]
          BY <1>2, <3>2, <5>1 DEF FerryInfo
        <5>2. QED
          BY <3>1, <4>3, <5>1 DEF NewLimit
      <4>4. CASE UnregisterFerry(f)
        BY <1>2, <3>1, <3>2, <4>4 DEF UnregisterFerry, FerryInfo
      <4>5. QED
        BY <2>3, <4>1, <4>2, <4>3, <4>4
    <3>4. QED
      BY <3>2, <3>3 DEF SameFerry
  <2>4. QED
    BY <2>1, <2>2, <2>3 DEF Ferry, RegisterFerryPid, BoardingRound, WaitForGangway,
                            NextTrip, UnregisterFerryPid
<1>4. QED
  BY <1>1, <1>3, VoyageStutter

LEMMA PassengerOnVoyage ==
  ASSUME IInv, NEW p \in PassengerPids, Passenger(p)
  PROVE  [Voyage!Next]_Voyage!voyageVars
<1>1. /\ ppc \in [PassengerPids -> PassengerPcs]
      /\ ferry_id \in [PassengerPids -> FerryIds \cup {-1}]
      /\ sailed \in [PassengerPids -> BOOLEAN]
  BY DEF IInv, TypeOK
<1>2. ASSUME UNCHANGED ferries,
             \A q \in PassengerPids : q # p =>
               ppc'[q] = ppc[q] /\ ferry_id'[q] = ferry_id[q] /\ sailed'[q] = sailed[q],
             Waits(p)' => Waits(p) /\ ferry_id'[p] = ferry_id[p]
      PROVE  [Voyage!Next]_Voyage!voyageVars
  <2>1. \A q \in PassengerPids : Waits(q)' => Waits(q) /\ ferry_id'[q] = ferry_id[q]
    BY <1>2 DEF Waits
  <2>2. Voyage!StepOff
    BY <1>2, <2>1, VoyageStepOff DEF SameFerry
  <2>3. QED
    BY <2>2 DEF Voyage!Next
<1>3. CASE Exit(p) /\ UNCHANGED ferries
  <2>1. ~Waits(p)'
    BY <1>3, ExitLocals DEF IInv, Waits, AboardPcs
  <2>2. QED
    BY <1>2, <1>3, <2>1, ExitLocals DEF IInv
<1>4. CASE Arrive(p) \/ SearchHead(p) \/ EnterGangway(p)
  BY <1>1, <1>2, <1>4 DEF Arrive, SearchHead, EnterGangway, Goto, passengerLocals, Waits, AboardPcs
<1>5. CASE FindAvailableFerry(p)
  <2>1. /\ ppc' = [ppc EXCEPT ![p] = ppc'[p]] /\ ppc'[p] \in {"enter", "search"}
        /\ UNCHANGED ferries
        /\ \A q \in PassengerPids : q # p =>
             ferry_id'[q] = ferry_id[q] /\ sailed'[q] = sailed[q]
    BY <1>1, <1>5 DEF FindAvailableFerry, Goto
  <2>2. QED
    BY <1>1, <1>2, <2>1 DEF Waits, AboardPcs
<1>6. CASE ExitGangway(p)
  BY <1>1, <1>2, <1>6 DEF ExitGangway, Goto, passengerLocals, Waits, AboardPcs
<1>7. CASE UnregisterPassenger(p)
  <2>1. UNCHANGED ferries
    BY <1>7 DEF UnregisterPassenger
  <2>2. CASE ppc' = [ppc EXCEPT ![p] = "unregister_pid"] /\ UNCHANGED <<ferry_id, sailed>>
    BY <1>1, <1>2, <2>1, <2>2 DEF Waits, AboardPcs
  <2>3. QED
    BY <1>3, <1>7, <2>1, <2>2 DEF UnregisterPassenger, Goto
<1>8. CASE UnregisterPassengerPid(p)
  <2>1. UNCHANGED ferries
    BY <1>8 DEF UnregisterPassengerPid
  <2>2. CASE ppc' = [ppc EXCEPT ![p] = "unregister_last"] /\ UNCHANGED <<ferry_id, sailed>>
    BY <1>1, <1>2, <2>1, <2>2 DEF Waits, AboardPcs
  <2>3. QED
    BY <1>3, <1>8, <2>1, <2>2 DEF UnregisterPassengerPid, Goto, passengerLocals
<1>9. QED
  BY <1>4, <1>5, <1>6, <1>7, <1>8, BoardFerryTakesOn DEF Passenger

\* Signal 2 takes several passengers off at once; what else the captain and the
\* launcher do is not seen on board.
LEMMA CaptainOnVoyage ==
  ASSUME IInv, UNCHANGED vars \/ Captain \/ Launcher
  PROVE  [Voyage!Next]_Voyage!voyageVars
<1>1. UNCHANGED <<ferries, ferry_id, sailed>>
  BY DEF vars, passengerLocals, history, Captain, CaptainPoll, SendSignal2, ForceDeparture,
         SendSignal1, Launcher, othersOfCaptain
<1>2. \A p \in PassengerPids : ppc'[p] \in AboardPcs => ppc'[p] = ppc[p]
  BY DEF vars, Captain, CaptainPoll, SendSignal2, ForceDeparture, SendSignal1, Launcher, AboardPcs
<1>3. Voyage!StepOff
  BY <1>1, <1>2, VoyageStepOff DEF SameFerry, Waits
<1>4. QED
  BY <1>3 DEF Voyage!Next

\* ferry.c and ipc_board_ferry: whatever the sections and the signals in between,
\* every trip is a voyage that opens empty, gives no seat away twice and sails with
\* all who are still on board.
THEOREM ImplementsVoyages == Spec => TripsAreVoyages
<1>1. Init => Voyage!Init
  BY DEF Init, Voyage!Init, Aboard, AboardPcs
<1>2. IInv /\ [Next]_vars => [Voyage!Next]_Voyage!voyageVars
  <2> SUFFICES ASSUME IInv, [Next]_vars PROVE [Voyage!Next]_Voyage!voyageVars
    OBVIOUS
  <2>1. ASSUME NEW f \in FerryPids, Ferry(f) PROVE [Voyage!Next]_Voyage!voyageVars
    <3>1. CASE OpenFerry(f)
      BY <3>1, OpenFerryOpens DEF Voyage!Next
    <3>2. CASE SetSail(f)
      BY <3>2, SetSailSails DEF Voyage!Next
    <3>3. QED
      BY <2>1, <3>1, <3>2, ClosedFerryStutters
  <2>2. QED
    BY <2>1, PassengerOnVoyage, CaptainOnVoyage DEF Next
<1>3. QED
  BY <1>1, <1>2, Invariant, PTL DEF Spec, TripsAreVoyages, Voyage!Spec
=============================================================================
