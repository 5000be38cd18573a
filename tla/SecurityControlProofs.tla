----------------------- MODULE SecurityControlProofs -----------------------
(***************************************************************************)
(* Proofs about SecurityControl for any number of processes and any sizes  *)
(* of the arrays.                                                          *)
(***************************************************************************)
EXTENDS SecurityControl, ArraysProofs, FiniteSetTheorems

USE SizesAssumption

LEMMA InitInvariant == Init => IInv
<1> SUFFICES ASSUME Init PROVE IInv
  OBVIOUS
<1> USE DEF Init
<1>1. TypeOK
  <2>1. passengers \in [Ids -> PassengerInfo]
    <3>1. 0 \in Stations /\ 0 \in -1 .. (MAX_SECURITY_QUEUE - 1) /\ 0 \in 0 .. MAX_QUEUE_PASSES
      BY DEF Stations
    <3>2. QED
      BY <3>1 DEF PassengerInfo, Genders, Statuses
  <2>2. security_stations \in [Stations -> SecurityStation]
    BY DEF SecurityStation, Genders
  <2>3. /\ security_queue \in [0 .. (MAX_SECURITY_QUEUE - 1) -> Ids \cup {-1}]
        /\ security_queue_size \in 0 .. MAX_SECURITY_QUEUE
        /\ security_queue_tail \in 0 .. (MAX_SECURITY_QUEUE - 1)
        /\ current_queue_pos \in [Pids -> -1 .. (MAX_SECURITY_QUEUE - 1)]
    OBVIOUS
  <2>4. /\ passenger_pids \in [0 .. (MAX_PASSENGER_PIDS - 1) -> Pids \cup {NoPid}]
        /\ num_passenger_pids \in 0 .. MAX_PASSENGER_PIDS
        /\ pc \in [Pids -> Pcs]
    BY PidsAssumption DEF Pcs
  <2>5. /\ my_id \in [Pids -> Ids \cup {-1}]
        /\ stop_boarding_flag \in [Pids -> BOOLEAN]
        /\ assignment_attempts \in [Pids -> 0 .. MAX_ASSIGNMENT_ATTEMPTS]
        /\ gender \in [Pids -> Genders]
    OBVIOUS
  <2>6. total_passengers \in Int
    OBVIOUS
  <2>7. /\ boarding_allowed \in BOOLEAN
        /\ signal2_received \in BOOLEAN
        /\ captain_pc \in {"working", "send", "done"}
    OBVIOUS
  <2>8. QED
    BY <2>1, <2>2, <2>3, <2>4, <2>5, <2>6, <2>7, Zenon DEF TypeOK
<1>2. QueueMirrorsPassengers
  BY DEF QueueMirrorsPassengers, Distinct, Window, InQueue
<1>3. StationsSegregated
  BY DEF StationsSegregated, Distinct, Window, StationWindow
<1>4. SlotsOwned
  BY DEF SlotsOwned, HoldingPcs, InsidePcs, WaitingPcs
<1>5. WaitersAreQueued
  BY DEF WaitersAreQueued, HoldingPcs, InsidePcs, WaitingPcs
<1>6. PidsListed
  BY DEF PidsListed, Distinct, Window, Listed, ListedPcs, HoldingPcs, InsidePcs, WaitingPcs
<1>7. SignalReachesAll /\ RoundsAndSignal
  BY DEF SignalReachesAll, RoundsAndSignal
<1>8. QED
  BY <1>1, <1>2, <1>3, <1>4, <1>5, <1>6, <1>7 DEF IInv

-----------------------------------------------------------------------------
(* Steps that move one process and leave the shared memory alone. *)

\* A process that has a slot moves on within its stage (in the queue, at the
\* station, elsewhere), with at most its attempts and its snapshot changed.
SameStage(l, m) ==
  /\ l \in HoldingPcs \ {"unregister_last"} /\ m \in HoldingPcs \ {"unregister_last"}
  /\ l \in WaitingPcs <=> m \in WaitingPcs
  /\ l = "at_station" <=> m = "at_station"
LocalMove(p) ==
  /\ SameStage(pc[p], pc'[p])
  /\ pc' = [pc EXCEPT ![p] = pc'[p]]
  /\ pc'[p] \in InsidePcs => pc[p] \in InsidePcs \/ ~signal2_received
  /\ UNCHANGED <<passengers, total_passengers, queueVars, security_stations, pidVars,
                 captainVars, my_id, stop_boarding_flag, gender>>
  /\ assignment_attempts' \in [Pids -> 0 .. MAX_ASSIGNMENT_ATTEMPTS]
  /\ current_queue_pos' \in [Pids -> -1 .. (MAX_SECURITY_QUEUE - 1)]
  /\ \A q \in Pids \ {p} : assignment_attempts'[q] = assignment_attempts[q]
  /\ pc'[p] \in {"assign", "position", "size", "pass"} =>
       assignment_attempts'[p] < MAX_ASSIGNMENT_ATTEMPTS

LEMMA LocalMoveInvariant ==
  ASSUME IInv, NEW p \in Pids, LocalMove(p)
  PROVE  IInv'
<1> USE DEF LocalMove, SameStage, queueVars, pidVars, captainVars
<1>1. TypeOK'
  BY DEF IInv, TypeOK, Pcs, ListedPcs
<1>2. QueueMirrorsPassengers' /\ StationsSegregated'
  BY DEF IInv, QueueMirrorsPassengers, InQueue, StationsSegregated, StationWindow
<1>3. \A q \in Pids : /\ pc'[q] \in HoldingPcs <=> pc[q] \in HoldingPcs
                      /\ pc'[q] = "killed" <=> pc[q] = "killed"
                      /\ pc'[q] \in WaitingPcs <=> pc[q] \in WaitingPcs
                      /\ pc'[q] = "at_station" <=> pc[q] = "at_station"
                      /\ pc'[q] \in ListedPcs <=> pc[q] \in ListedPcs
  BY DEF IInv, TypeOK, HoldingPcs, InsidePcs, ListedPcs, WaitingPcs
<1>4. SlotsOwned'
  BY <1>3 DEF IInv, SlotsOwned
<1>5. WaitersAreQueued'
  BY <1>3 DEF IInv, WaitersAreQueued
<1>6. PidsListed'
  BY <1>3 DEF IInv, PidsListed, Listed
<1>7. SignalReachesAll' /\ RoundsAndSignal'
  BY DEF IInv, TypeOK, SignalReachesAll, RoundsAndSignal
<1>8. QED
  BY <1>1, <1>2, <1>4, <1>5, <1>6, <1>7 DEF IInv

LEMMA LocalActions ==
  ASSUME IInv, NEW p \in Pids,
         \/ CheckIn(p)      \/ LoopHead(p)  \/ GetQueuePosition(p)
         \/ GetQueueSize(p) \/ LeaveWaitingRoom(p)
  PROVE  LocalMove(p)
<1> USE DEF LocalMove, SameStage, Goto, localVars, HoldingPcs, InsidePcs, WaitingPcs
<1>1. /\ assignment_attempts \in [Pids -> 0 .. MAX_ASSIGNMENT_ATTEMPTS]
      /\ current_queue_pos \in [Pids -> -1 .. (MAX_SECURITY_QUEUE - 1)]
      /\ pc \in [Pids -> Pcs]
      /\ pc[p] \in {"assign", "position", "size", "pass"} =>
           assignment_attempts[p] < MAX_ASSIGNMENT_ATTEMPTS
  BY DEF IInv, TypeOK, RoundsAndSignal
<1>2. CASE CheckIn(p)
  <2>1. boarding_allowed => ~signal2_received
    BY DEF IInv, RoundsAndSignal
  <2>2. QED
    BY <1>1, <1>2, <2>1 DEF CheckIn
<1>3. CASE LoopHead(p)
  BY <1>1, <1>3 DEF LoopHead
<1>4. CASE GetQueuePosition(p)
  <2>1. passengers[my_id[p]].in_security_queue
    BY <1>4 DEF GetQueuePosition, IInv, WaitersAreQueued
  <2>2. passengers[my_id[p]].queue_position \in -1 .. (MAX_SECURITY_QUEUE - 1)
    BY <1>4 DEF GetQueuePosition, IInv, TypeOK, SlotsOwned, PassengerInfo
  <2>3. QED
    BY <1>1, <1>4, <2>1, <2>2 DEF GetQueuePosition
<1>5. CASE GetQueueSize(p)
  BY <1>1, <1>5 DEF GetQueueSize, NextRound
<1>6. CASE LeaveWaitingRoom(p)
  BY <1>1, <1>6 DEF LeaveWaitingRoom
<1>7. QED
  BY <1>2, <1>3, <1>4, <1>5, <1>6
-----------------------------------------------------------------------------
(* The list of pids and the captain. *)

\* The list never overflows: it holds each process once, and one is missing.
LEMMA RoomForPid ==
  ASSUME IInv, NEW p \in Pids, p \notin Listed
  PROVE  num_passenger_pids < MAX_PASSENGER_PIDS
<1> SUFFICES ASSUME num_passenger_pids = MAX_PASSENGER_PIDS PROVE FALSE
  BY PidsAssumption DEF IInv, TypeOK
<1> DEFINE Cells == 0 .. (MAX_PASSENGER_PIDS - 1)
           Others == Pids \ {p}
<1>1. passenger_pids \in [Cells -> Others]
  BY PidsAssumption DEF IInv, TypeOK, PidsListed, Listed, Window
<1>2. IsFiniteSet(Others) /\ Cardinality(Others) = Cardinality(Pids) - 1
  BY PidsAssumption, FS_RemoveElement
<1>3. IsFiniteSet(Cells) /\ Cardinality(Cells) = MAX_PASSENGER_PIDS
  BY PidsAssumption, FS_Interval
<1>4. Cardinality(Others) < Cardinality(Cells)
  BY <1>2, <1>3, PidsAssumption, FS_CardinalityType
<1> HIDE DEF Cells, Others
<1>5. \E j, k \in Cells : j # k /\ passenger_pids[j] = passenger_pids[k]
  BY <1>1, <1>2, <1>3, <1>4, FS_PigeonHole
<1>6. QED
  BY <1>5 DEF IInv, PidsListed, Distinct, Cells

LEMMA RegisterPassengerPidInvariant ==
  ASSUME IInv, NEW p \in Pids, RegisterPassengerPid(p)
  PROVE  IInv'
<1> USE DEF RegisterPassengerPid, Goto, queueVars, captainVars, localVars
<1>0. pc \in [Pids -> Pcs] /\ pc' = [pc EXCEPT ![p] = "register"]
  BY DEF IInv, TypeOK
<1>1. p \notin Listed
  BY DEF IInv, PidsListed, ListedPcs, HoldingPcs, InsidePcs, WaitingPcs
<1>2. /\ num_passenger_pids \in 0 .. (MAX_PASSENGER_PIDS - 1)
      /\ passenger_pids' = [passenger_pids EXCEPT ![num_passenger_pids] = p]
      /\ num_passenger_pids' = num_passenger_pids + 1
  BY <1>1, RoomForPid, PidsAssumption DEF IInv, TypeOK
<1>3. /\ passenger_pids' \in [0 .. (MAX_PASSENGER_PIDS - 1) -> Pids \cup {NoPid}]
      /\ Distinct(passenger_pids', num_passenger_pids')
      /\ Window(passenger_pids', num_passenger_pids') = Listed \cup {p}
  <2>1. /\ passenger_pids \in [0 .. (MAX_PASSENGER_PIDS - 1) -> Pids \cup {NoPid}]
        /\ Distinct(passenger_pids, num_passenger_pids)
        /\ p \notin Window(passenger_pids, num_passenger_pids)
    BY <1>1 DEF IInv, TypeOK, PidsListed, Listed
  <2>2. passenger_pids' \in [0 .. (MAX_PASSENGER_PIDS - 1) -> Pids \cup {NoPid}]
    BY <1>2, <2>1, PidsAssumption
  <2>3. IsAppended(passenger_pids, passenger_pids', num_passenger_pids, p)
    BY <1>2, <2>1, PidsAssumption DEF IsAppended
  <2>4. num_passenger_pids \in Nat
    BY <1>2, PidsAssumption
  <2>5. /\ Distinct(passenger_pids', num_passenger_pids + 1)
        /\ Window(passenger_pids', num_passenger_pids + 1)
             = Window(passenger_pids, num_passenger_pids) \cup {p}
    BY <2>1, <2>3, <2>4, Appended
  <2>6. QED
    BY <1>2, <2>2, <2>5 DEF Listed
<1>4. TypeOK'
  BY <1>0, <1>2, <1>3, PidsAssumption DEF IInv, TypeOK, Pcs, ListedPcs
<1>5. QueueMirrorsPassengers' /\ StationsSegregated'
  BY DEF IInv, QueueMirrorsPassengers, InQueue, StationsSegregated, StationWindow
<1>6. \A q \in Pids : /\ pc'[q] \in HoldingPcs <=> pc[q] \in HoldingPcs
                      /\ pc'[q] = "killed" <=> pc[q] = "killed"
                      /\ pc'[q] \in WaitingPcs <=> pc[q] \in WaitingPcs
                      /\ pc'[q] = "at_station" <=> pc[q] = "at_station"
                      /\ pc'[q] \in ListedPcs <=> pc[q] \in ListedPcs \/ q = p
  BY <1>0 DEF HoldingPcs, InsidePcs, ListedPcs, WaitingPcs
<1>7. SlotsOwned' /\ WaitersAreQueued'
  BY <1>6 DEF IInv, SlotsOwned, WaitersAreQueued
<1>8. PidsListed'
  BY <1>3, <1>6 DEF IInv, PidsListed, Listed
<1>9. SignalReachesAll' /\ RoundsAndSignal'
  BY <1>0 DEF IInv, TypeOK, SignalReachesAll, RoundsAndSignal, InsidePcs, WaitingPcs
<1>10. QED
  BY <1>4, <1>5, <1>7, <1>8, <1>9 DEF IInv

LEMMA StopBoardingInvariant ==
  ASSUME IInv, StopBoarding
  PROVE  IInv'
<1> USE DEF StopBoarding, queueVars, pidVars, localVars
<1>1. TypeOK'
  BY DEF IInv, TypeOK
<1>2. QueueMirrorsPassengers' /\ StationsSegregated'
  BY DEF IInv, QueueMirrorsPassengers, InQueue, StationsSegregated, StationWindow
<1>3. SlotsOwned' /\ WaitersAreQueued' /\ PidsListed'
  BY DEF IInv, SlotsOwned, WaitersAreQueued, PidsListed, Listed
<1>4. SignalReachesAll' /\ RoundsAndSignal'
  BY DEF IInv, TypeOK, SignalReachesAll, RoundsAndSignal
<1>5. QED
  BY <1>1, <1>2, <1>3, <1>4 DEF IInv

LEMMA SendSignal2Invariant ==
  ASSUME IInv, SendSignal2
  PROVE  IInv'
<1> USE DEF SendSignal2, queueVars, pidVars
<1>1. PICK interrupted \in SUBSET {p \in Listed : pc[p] \in LockPoints} :
        pc' = [p \in Pids |-> IF p \in interrupted THEN "killed" ELSE pc[p]]
  OBVIOUS
<1>2. \A q \in Pids : \/ pc'[q] = pc[q]
                      \/ pc'[q] = "killed" /\ pc[q] \in ListedPcs
  BY <1>1 DEF LockPoints, ListedPcs, HoldingPcs, InsidePcs, WaitingPcs
<1>3. TypeOK'
  <2>1. pc' \in [Pids -> Pcs]
    BY <1>1, <1>2 DEF IInv, TypeOK, Pcs, EndedPcs
  <2>2. stop_boarding_flag' \in [Pids -> BOOLEAN]
    BY DEF IInv, TypeOK
  <2>3. QED
    BY <2>1, <2>2 DEF IInv, TypeOK
<1>4. QueueMirrorsPassengers' /\ StationsSegregated'
  BY DEF IInv, QueueMirrorsPassengers, InQueue, StationsSegregated, StationWindow
<1>5. "killed" \notin HoldingPcs /\ "killed" \notin WaitingPcs
  BY DEF HoldingPcs, InsidePcs, WaitingPcs
<1>6. SlotsOwned'
  BY <1>2, <1>5 DEF IInv, SlotsOwned
<1>7. WaitersAreQueued'
  BY <1>2, <1>5 DEF IInv, WaitersAreQueued
<1>8. PidsListed'
  BY <1>2 DEF IInv, PidsListed, Listed
<1>9. SignalReachesAll'
  <2>1. ASSUME NEW q \in Pids, pc'[q] \in InsidePcs PROVE stop_boarding_flag'[q]
    <3>1. pc[q] = pc'[q] /\ pc'[q] # "killed"
      BY <1>2, <2>1 DEF InsidePcs, WaitingPcs
    <3>2. q \in Listed
      BY <2>1, <3>1 DEF IInv, PidsListed, ListedPcs, HoldingPcs, InsidePcs, WaitingPcs
    <3>3. QED
      BY <3>1, <3>2
  <2>2. QED
    BY <2>1 DEF SignalReachesAll
<1>10. RoundsAndSignal'
  BY <1>2 DEF IInv, RoundsAndSignal
<1>11. QED
  BY <1>3, <1>4, <1>6, <1>7, <1>8, <1>9, <1>10 DEF IInv

\* The locals of a process that may exit in this step.
LEMMA LocalsAfterExit ==
  ASSUME IInv, NEW p \in Pids,
         \/ UNCHANGED <<stop_boarding_flag, assignment_attempts, current_queue_pos>>
         \/ Exit(p)
  PROVE  /\ stop_boarding_flag' \in [Pids -> BOOLEAN]
         /\ assignment_attempts' \in [Pids -> 0 .. MAX_ASSIGNMENT_ATTEMPTS]
         /\ current_queue_pos' \in [Pids -> -1 .. (MAX_SECURITY_QUEUE - 1)]
<1>1. \/ UNCHANGED <<stop_boarding_flag, assignment_attempts, current_queue_pos>>
      \/ /\ stop_boarding_flag' = [stop_boarding_flag EXCEPT ![p] = FALSE]
         /\ assignment_attempts' = [assignment_attempts EXCEPT ![p] = 0]
         /\ current_queue_pos' = [current_queue_pos EXCEPT ![p] = -1]
  BY DEF Exit
<1>2. /\ stop_boarding_flag \in [Pids -> BOOLEAN]
      /\ assignment_attempts \in [Pids -> 0 .. MAX_ASSIGNMENT_ATTEMPTS]
      /\ current_queue_pos \in [Pids -> -1 .. (MAX_SECURITY_QUEUE - 1)]
  BY DEF IInv, TypeOK
<1>3. stop_boarding_flag' \in [Pids -> BOOLEAN]
  BY ONLY <1>1, <1>2
<1>4. assignment_attempts' \in [Pids -> 0 .. MAX_ASSIGNMENT_ATTEMPTS]
  BY ONLY <1>1, <1>2, SizesAssumption
<1>5. current_queue_pos' \in [Pids -> -1 .. (MAX_SECURITY_QUEUE - 1)]
  BY ONLY <1>1, <1>2, SizesAssumption
<1>6. QED
  BY <1>3, <1>4, <1>5

LEMMA UnregisterPassengerPidInvariant ==
  ASSUME IInv, NEW p \in Pids, UnregisterPassengerPid(p)
  PROVE  IInv'
<1> USE DEF UnregisterPassengerPid, Goto, Exit, queueVars, captainVars
<1>0. pc \in [Pids -> Pcs]
  BY DEF IInv, TypeOK
<1>1. /\ pc' = [pc EXCEPT ![p] = pc'[p]]
      /\ pc[p] = "journey_end" => pc'[p] = "unregister_last" /\ my_id' = my_id
      /\ pc[p] = "unregister_pid" => pc'[p] = "exited" /\ my_id' = [my_id EXCEPT ![p] = -1]
  BY <1>0
<1>2. p \in Listed
  BY DEF IInv, PidsListed, ListedPcs, HoldingPcs
<1>3. /\ passenger_pids' \in [0 .. (MAX_PASSENGER_PIDS - 1) -> Pids \cup {NoPid}]
      /\ num_passenger_pids' \in 0 .. MAX_PASSENGER_PIDS
      /\ Distinct(passenger_pids', num_passenger_pids')
      /\ Listed' = Listed \ {p}
  <2>1. /\ passenger_pids \in [0 .. (MAX_PASSENGER_PIDS - 1) -> Pids \cup {NoPid}]
        /\ num_passenger_pids \in Nat
        /\ num_passenger_pids <= MAX_PASSENGER_PIDS
        /\ 0 .. (num_passenger_pids - 1) \subseteq DOMAIN passenger_pids
        /\ Distinct(passenger_pids, num_passenger_pids)
        /\ p \in Window(passenger_pids, num_passenger_pids)
    BY <1>2, PidsAssumption DEF IInv, TypeOK, PidsListed, Listed
  <2>2. /\ passenger_pids' = Without(passenger_pids, num_passenger_pids, p)
        /\ num_passenger_pids' = CountWithout(passenger_pids, num_passenger_pids, p)
    OBVIOUS
  <2> DEFINE new == Without(passenger_pids, num_passenger_pids, p)
             n == num_passenger_pids
  <2>3. CountWithout(passenger_pids, n, p) = n - 1 /\ n > 0 /\ Distinct(new, n - 1)
    BY ONLY <2>1, WithoutCells
  <2>4. \A v : v \in Window(new, n - 1) <=> v \in Window(passenger_pids, n) /\ v # p
    BY ONLY <2>1, WithoutCells
  <2>5. new = CloseGap(passenger_pids, n, FirstIndex(passenger_pids, n, p))
        /\ FirstIndex(passenger_pids, n, p) \in 0 .. (n - 1)
    BY ONLY <2>1, WithoutCells
  <2>6. new \in [0 .. (MAX_PASSENGER_PIDS - 1) -> Pids \cup {NoPid}]
    BY ONLY <2>1, <2>5, PidsAssumption DEF CloseGap
  <2>7. QED
    BY <2>1, <2>2, <2>3, <2>4, <2>6, PidsAssumption DEF Listed
<1>4. TypeOK'
  <2>1. pc' \in [Pids -> Pcs] /\ my_id' \in [Pids -> Ids \cup {-1}]
    BY <1>0, <1>1 DEF IInv, TypeOK, Pcs, EndedPcs
  <2>2. /\ stop_boarding_flag' \in [Pids -> BOOLEAN]
        /\ assignment_attempts' \in [Pids -> 0 .. MAX_ASSIGNMENT_ATTEMPTS]
        /\ current_queue_pos' \in [Pids -> -1 .. (MAX_SECURITY_QUEUE - 1)]
    BY LocalsAfterExit
  <2>3. QED
    BY <1>3, <2>1, <2>2 DEF IInv, TypeOK
<1>5. QueueMirrorsPassengers' /\ StationsSegregated'
  BY DEF IInv, QueueMirrorsPassengers, InQueue, StationsSegregated, StationWindow
<1>6. \A q \in Pids \ {p} : pc'[q] = pc[q] /\ my_id'[q] = my_id[q]
  BY <1>0, <1>1 DEF IInv, TypeOK
<1>7. /\ pc[p] \in ListedPcs /\ pc'[p] \notin ListedPcs \cup {"killed"}
      /\ pc[p] \in HoldingPcs <=> pc'[p] \in HoldingPcs
      /\ pc'[p] \in HoldingPcs => my_id'[p] = my_id[p]
      /\ pc[p] \notin WaitingPcs \cup {"at_station", "killed"}
      /\ pc'[p] \notin WaitingPcs \cup {"at_station", "killed"}
  BY <1>1 DEF ListedPcs, HoldingPcs, InsidePcs, WaitingPcs
<1>8. SlotsOwned'
  BY <1>6, <1>7 DEF IInv, SlotsOwned
<1>9. WaitersAreQueued'
  BY <1>6, <1>7 DEF IInv, WaitersAreQueued
<1>10. PidsListed'
  BY <1>3, <1>6, <1>7 DEF IInv, PidsListed
<1>11. SignalReachesAll' /\ RoundsAndSignal'
  BY <1>0, <1>1 DEF IInv, TypeOK, SignalReachesAll, RoundsAndSignal, InsidePcs, WaitingPcs
<1>12. QED
  BY <1>4, <1>5, <1>8, <1>9, <1>10, <1>11 DEF IInv

-----------------------------------------------------------------------------
(* The slots. *)

\* A process with a slot has it alone.
LEMMA OwnSlot ==
  ASSUME IInv, NEW p \in Pids, pc[p] \in HoldingPcs
  PROVE  /\ my_id[p] \in Ids
         /\ passengers[my_id[p]] \in PassengerInfo
         /\ passengers[my_id[p]].active
         /\ passengers[my_id[p]].pid = p
         /\ \A q \in Pids \ {p} : pc[q] \in HoldingPcs => my_id[q] # my_id[p]
BY DEF IInv, TypeOK, SlotsOwned

LEMMA RegisterPassengerInvariant ==
  ASSUME IInv, NEW p \in Pids, RegisterPassenger(p)
  PROVE  IInv'
<1> USE DEF RegisterPassenger, Goto, queueVars, pidVars, captainVars
<1>0. pc \in [Pids -> Pcs] /\ pc[p] = "register"
  BY DEF IInv, TypeOK
<1>1. pc' = [pc EXCEPT ![p] = pc'[p]] /\ pc'[p] \in {"check", "unregister_pid"}
  BY <1>0
<1>2. \A q \in Pids \ {p} : pc'[q] = pc[q]
  BY <1>0, <1>1
<1>3. PidsListed'
  BY <1>0, <1>1, <1>2 DEF IInv, PidsListed, Listed, ListedPcs, HoldingPcs
<1>4. SignalReachesAll' /\ RoundsAndSignal'
  BY <1>0, <1>1, <1>2 DEF IInv, SignalReachesAll, RoundsAndSignal, InsidePcs, WaitingPcs
<1>5. CASE UNCHANGED <<passengers, total_passengers, my_id>> /\ pc'[p] = "unregister_pid"
  <2>1. TypeOK'
    BY <1>0, <1>1, <1>5 DEF IInv, TypeOK, Pcs, ListedPcs
  <2>2. QueueMirrorsPassengers' /\ StationsSegregated'
    BY <1>5 DEF IInv, QueueMirrorsPassengers, InQueue, StationsSegregated, StationWindow
  <2>3. /\ pc[p] \notin HoldingPcs \cup {"killed"} /\ pc'[p] \notin HoldingPcs \cup {"killed"}
        /\ pc'[p] \notin WaitingPcs \cup {"at_station"}
    BY <1>0, <1>5 DEF HoldingPcs, InsidePcs, WaitingPcs
  <2>4. SlotsOwned' /\ WaitersAreQueued'
    BY <1>2, <1>5, <2>3 DEF IInv, SlotsOwned, WaitersAreQueued
  <2>5. QED
    BY <1>3, <1>4, <2>1, <2>2, <2>4 DEF IInv
<1>6. ASSUME NEW i \in Ids,
             FirstFree(i),
             passengers' = [passengers EXCEPT ![i] =
               [active |-> TRUE, pid |-> p, gender |-> gender[p], status |-> "WAITING",
                security_station_id |-> -1, queue_position |-> -1, times_passed |-> 0,
                in_security_queue |-> FALSE]],
             total_passengers' = total_passengers + 1,
             my_id' = [my_id EXCEPT ![p] = i],
             pc'[p] = "check"
      PROVE  IInv'
  <2>1. ~passengers[i].active /\ ~passengers[i].in_security_queue
    BY <1>6 DEF FirstFree, IInv, SlotsOwned
  <2>2. /\ passengers \in [Ids -> PassengerInfo]
        /\ my_id \in [Pids -> Ids \cup {-1}]
        /\ gender \in [Pids -> Genders]
    BY DEF IInv, TypeOK
  <2>3. \A j \in Ids \ {i} : passengers'[j] = passengers[j]
    BY <1>6, <2>2
  <2>4. /\ passengers'[i].active /\ passengers'[i].pid = p
        /\ passengers'[i].gender = gender[p]
        /\ ~passengers'[i].in_security_queue
        /\ passengers'[i].security_station_id = -1
    BY <1>6, <2>2
  <2>5. TypeOK'
    <3>1. passengers' \in [Ids -> PassengerInfo]
      BY <1>6, <2>2 DEF PassengerInfo, Statuses
    <3>2. my_id' \in [Pids -> Ids \cup {-1}] /\ pc' \in [Pids -> Pcs]
      BY <1>0, <1>1, <1>6, <2>2 DEF Pcs, ListedPcs, HoldingPcs
    <3>3. total_passengers' \in Int
      BY <1>6 DEF IInv, TypeOK
    <3>4. QED
      BY <3>1, <3>2, <3>3 DEF IInv, TypeOK
  <2>6. QueueMirrorsPassengers'
    <3>1. ~InQueue(i)
      BY <2>1 DEF IInv, QueueMirrorsPassengers
    <3>2. \A k \in 0 .. (security_queue_size - 1) : security_queue[k] \in Ids \ {i}
      BY <3>1 DEF IInv, QueueMirrorsPassengers, InQueue, Window
    <3>3. QED
      BY <2>3, <2>4, <3>1, <3>2 DEF IInv, QueueMirrorsPassengers, InQueue
  <2>7. StationsSegregated'
    <3>1. \A s \in Stations : i \notin StationWindow(s)
      BY <2>1 DEF IInv, StationsSegregated
    <3>2. \A s \in Stations : \A k \in 0 .. (security_stations[s].num_people - 1) :
            security_stations[s].passenger_ids[k] \in Ids \ {i}
      BY <3>1 DEF IInv, StationsSegregated, StationWindow, Window
    <3>3. -1 \notin Stations
      BY DEF Stations
    <3>4. QED
      BY <2>3, <2>4, <3>1, <3>2, <3>3 DEF IInv, StationsSegregated, StationWindow
  <2>8. pc[p] \notin HoldingPcs \cup {"killed"} /\ pc'[p] \in HoldingPcs \ (WaitingPcs \cup {"at_station"})
    BY <1>0, <1>6 DEF HoldingPcs, InsidePcs, WaitingPcs
  <2>9. my_id'[p] = i /\ \A q \in Pids \ {p} : my_id'[q] = my_id[q]
    BY <1>6, <2>2
  <2>10. SlotsOwned'
    <3>1. \A q \in Pids \ {p} : pc[q] \in HoldingPcs => my_id[q] # i
      BY <2>1 DEF IInv, SlotsOwned
    <3>2. \A j \in Ids \ {i} : passengers[j].active => passengers[j].pid \in Pids \ {p}
      BY <2>8 DEF IInv, SlotsOwned
    <3>3. QED
      BY <1>2, <2>3, <2>4, <2>8, <2>9, <3>1, <3>2 DEF IInv, SlotsOwned
  <2>11. WaitersAreQueued'
    <3>1. \A q \in Pids \ {p} : pc[q] \in HoldingPcs => passengers'[my_id'[q]] = passengers[my_id[q]]
      BY <2>1, <2>3, <2>9, OwnSlot
    <3>2. WaitingPcs \cup {"at_station"} \subseteq HoldingPcs
      BY DEF HoldingPcs, InsidePcs
    <3>3. QED
      BY <1>2, <2>4, <2>8, <2>9, <3>1, <3>2 DEF IInv, WaitersAreQueued
  <2>12. QED
    BY <1>3, <1>4, <2>5, <2>6, <2>7, <2>10, <2>11 DEF IInv
<1>7. QED
  BY <1>0, <1>5, <1>6

LEMMA UnregisterPassengerInvariant ==
  ASSUME IInv, NEW p \in Pids, UnregisterPassenger(p)
  PROVE  IInv'
<1> USE DEF UnregisterPassenger, Goto, queueVars, pidVars, captainVars
<1> DEFINE i == my_id[p]
<1>0. pc \in [Pids -> Pcs] /\ my_id \in [Pids -> Ids \cup {-1}] /\ passengers \in [Ids -> PassengerInfo]
  BY DEF IInv, TypeOK
<1>1. /\ pc[p] \in HoldingPcs \ (WaitingPcs \cup {"at_station", "killed"})
      /\ pc'[p] \notin HoldingPcs \cup {"killed"}
      /\ pc[p] \in ListedPcs <=> pc'[p] \in ListedPcs
      /\ pc'[p] \notin InsidePcs \cup {"assign", "position", "size", "pass"}
      /\ pc' = [pc EXCEPT ![p] = pc'[p]]
      /\ pc'[p] \in {"unregister_pid", "exited"}
  BY <1>0 DEF Exit, HoldingPcs, InsidePcs, WaitingPcs, ListedPcs
<1>2. my_id' = my_id \/ my_id' = [my_id EXCEPT ![p] = -1]
  BY DEF Exit
<1>3. \A q \in Pids \ {p} : pc'[q] = pc[q] /\ my_id'[q] = my_id[q]
  BY <1>0, <1>1, <1>2
<1>4. /\ i \in Ids /\ passengers[i].active /\ passengers[i].pid = p
      /\ \A q \in Pids \ {p} : pc[q] \in HoldingPcs => my_id[q] # i
  BY <1>1, OwnSlot
<1>5. ~passengers[i].in_security_queue /\ passengers[i].security_station_id = -1
  BY <1>1 DEF IInv, WaitersAreQueued
<1>6. /\ passengers' = [passengers EXCEPT ![i].active = FALSE]
      /\ total_passengers' = total_passengers - 1
  BY <1>4
<1>7. \A j \in Ids : j # i => passengers'[j] = passengers[j]
  BY <1>0, <1>6
<1>8. /\ ~passengers'[i].active /\ ~passengers'[i].in_security_queue
      /\ passengers'[i].gender = passengers[i].gender
      /\ passengers'[i].queue_position = passengers[i].queue_position
  BY <1>0, <1>4, <1>5, <1>6 DEF PassengerInfo
<1>9. TypeOK'
  <2>1. passengers' \in [Ids -> PassengerInfo]
    <3>1. passengers[i] \in PassengerInfo
      BY <1>0, <1>4
    <3>2. [passengers[i] EXCEPT !.active = FALSE] \in PassengerInfo
      BY ONLY <3>1 DEF PassengerInfo
    <3>3. QED
      BY ONLY <1>0, <1>4, <1>6, <3>2
  <2>2. pc' \in [Pids -> Pcs] /\ my_id' \in [Pids -> Ids \cup {-1}]
    BY <1>0, <1>1, <1>2 DEF Pcs, ListedPcs, EndedPcs
  <2>3. /\ stop_boarding_flag' \in [Pids -> BOOLEAN]
        /\ assignment_attempts' \in [Pids -> 0 .. MAX_ASSIGNMENT_ATTEMPTS]
        /\ current_queue_pos' \in [Pids -> -1 .. (MAX_SECURITY_QUEUE - 1)]
    BY LocalsAfterExit
  <2>4. total_passengers' \in Int
    BY <1>6 DEF IInv, TypeOK
  <2>5. QED
    BY <2>1, <2>2, <2>3, <2>4 DEF IInv, TypeOK
<1>10. QueueMirrorsPassengers'
  <2>1. \A j \in Ids : /\ passengers'[j].in_security_queue <=> passengers[j].in_security_queue
                       /\ passengers'[j].queue_position = passengers[j].queue_position
    BY <1>5, <1>7, <1>8
  <2>2. QED
    BY <2>1 DEF IInv, QueueMirrorsPassengers, InQueue
<1>11. StationsSegregated'
  <2>1. \A s \in Stations : i \notin StationWindow(s)
    BY <1>4, <1>5 DEF IInv, StationsSegregated, Stations
  <2>2. \A j \in Ids : passengers'[j].gender = passengers[j].gender
    BY <1>7, <1>8
  <2>3. QED
    BY <1>7, <1>8, <2>1, <2>2 DEF IInv, StationsSegregated, StationWindow
<1>12. SlotsOwned'
  <2>1. \A j \in Ids : j # i /\ passengers[j].active => passengers[j].pid # p
    BY DEF IInv, SlotsOwned
  <2>2. QED
    BY <1>1, <1>3, <1>4, <1>7, <1>8, <2>1 DEF IInv, SlotsOwned
<1>13. WaitersAreQueued'
  <2>1. \A q \in Pids \ {p} : pc[q] \in HoldingPcs => passengers'[my_id'[q]] = passengers[my_id[q]]
    BY <1>3, <1>4, <1>7, OwnSlot
  <2>2. WaitingPcs \cup {"at_station"} \subseteq HoldingPcs
    BY DEF HoldingPcs, InsidePcs
  <2>3. QED
    BY <1>1, <1>3, <2>1, <2>2 DEF IInv, WaitersAreQueued
<1>14. PidsListed'
  <2>1. \A q \in Pids : pc'[q] \in ListedPcs \cup {"killed"} <=> pc[q] \in ListedPcs \cup {"killed"}
    BY <1>1, <1>3
  <2>2. QED
    BY <2>1 DEF IInv, PidsListed, Listed
<1>15. SignalReachesAll' /\ RoundsAndSignal'
  <2>1. \A q \in Pids \ {p} : /\ stop_boarding_flag'[q] = stop_boarding_flag[q]
                               /\ assignment_attempts'[q] = assignment_attempts[q]
    BY DEF Exit, IInv, TypeOK
  <2>2. QED
    BY <1>1, <1>3, <2>1 DEF IInv, SignalReachesAll, RoundsAndSignal
<1>16. QED
  BY <1>9, <1>10, <1>11, <1>12, <1>13, <1>14, <1>15 DEF IInv

\* A step that hands no slot out and takes none back.
SlotsKept ==
  /\ total_passengers' = total_passengers
  /\ \A j \in Ids : passengers'[j].active <=> passengers[j].active

-----------------------------------------------------------------------------
(* The queue. *)

\* The only arithmetic on security_queue_tail: it wraps, and comes back.
LEMMA TailWraps ==
  ASSUME NEW m \in Nat \ {0}, NEW n \in 0 .. m
  PROVE  /\ n % m \in 0 .. (m - 1)
         /\ n < m => n % m = n
         /\ n > 0 => ((n % m) - 1 + m) % m = (n - 1) % m
<1>1. CASE n < m
  <2>1. n % m = n
    BY <1>1
  <2>2. n > 0 => (n - 1 + m) % m = n - 1 /\ (n - 1) % m = n - 1
    BY <1>1
  <2>3. QED
    BY <1>1, <2>1, <2>2
<1>2. CASE n = m
  <2>1. n % m = 0
    BY <1>2
  <2>2. (m - 1) % m = m - 1
    OBVIOUS
  <2>3. QED
    BY <1>2, <2>1, <2>2
<1>3. QED
  BY <1>1, <1>2

LEMMA JoinSecurityQueueInvariant ==
  ASSUME IInv, NEW p \in Pids, JoinSecurityQueue(p)
  PROVE  IInv' /\ SlotsKept
<1> USE DEF Goto, pidVars, captainVars, localVars
<1> DEFINE i == my_id[p]
           n == security_queue_size
<1>0. /\ pc \in [Pids -> Pcs] /\ passengers \in [Ids -> PassengerInfo] /\ n \in 0 .. MAX_SECURITY_QUEUE
      /\ security_queue \in [0 .. (MAX_SECURITY_QUEUE - 1) -> Ids \cup {-1}]
      /\ pc[p] = "join"
      /\ UNCHANGED <<total_passengers, security_stations, pidVars, captainVars, localVars>>
  BY DEF IInv, TypeOK, JoinSecurityQueue
<1>1. /\ i \in Ids /\ passengers[i].active /\ passengers[i].pid = p
      /\ \A q \in Pids \ {p} : pc[q] \in HoldingPcs => my_id[q] # i
      /\ ~passengers[i].in_security_queue /\ passengers[i].security_station_id = -1
  <2>1. pc[p] \in HoldingPcs \ (WaitingPcs \cup {"at_station"})
    BY <1>0 DEF HoldingPcs, InsidePcs, WaitingPcs
  <2>2. QED
    BY <2>1, OwnSlot DEF IInv, WaitersAreQueued
<1>2. CASE UNCHANGED <<passengers, queueVars>> /\ pc' = [pc EXCEPT ![p] = "unregister"]
  <2>1. LocalMove(p)
    BY <1>0, <1>2 DEF LocalMove, SameStage, HoldingPcs, InsidePcs, WaitingPcs, IInv, TypeOK
  <2>2. QED
    BY <1>0, <1>2, <2>1, LocalMoveInvariant DEF SlotsKept
<1>3. ASSUME n < MAX_SECURITY_QUEUE,
             security_queue' = [security_queue EXCEPT ![security_queue_tail] = i],
             security_queue_tail' = (security_queue_tail + 1) % MAX_SECURITY_QUEUE,
             security_queue_size' = n + 1,
             passengers' = [passengers EXCEPT ![i].in_security_queue = TRUE,
                                              ![i].queue_position = n,
                                              ![i].status = "IN_QUEUE"],
             pc' = [pc EXCEPT ![p] = "loop"]
      PROVE  IInv' /\ SlotsKept
  <2>1. security_queue_tail = n /\ n \in Nat
    BY <1>0, <1>3, TailWraps DEF IInv, QueueMirrorsPassengers
  <2>2. \A j \in Ids : j # i => passengers'[j] = passengers[j]
    BY <1>0, <1>3
  <2>3. passengers'[i] = [passengers[i] EXCEPT !.in_security_queue = TRUE,
                                               !.queue_position = n, !.status = "IN_QUEUE"]
    BY <1>0, <1>1, <1>3
  <2>4. /\ passengers'[i].active /\ passengers'[i].pid = p
        /\ passengers'[i].gender = passengers[i].gender
        /\ passengers'[i].in_security_queue /\ passengers'[i].queue_position = n
        /\ passengers'[i].security_station_id = -1
        /\ passengers'[i].status = "IN_QUEUE"
    BY <1>0, <1>1, <2>3 DEF PassengerInfo
  <2>5. \A q \in Pids \ {p} : pc'[q] = pc[q]
    BY <1>0, <1>3
  <2>6. pc'[p] = "loop"
    BY <1>0, <1>3
  <2>7. TypeOK'
    <3>0. passengers[i] \in PassengerInfo /\ n \in -1 .. (MAX_SECURITY_QUEUE - 1)
      BY <1>0, <1>1, <1>3, <2>1
    <3>1. passengers'[i] \in PassengerInfo
      BY ONLY <2>3, <3>0 DEF PassengerInfo, Statuses
    <3>2. passengers' \in [Ids -> PassengerInfo]
      BY ONLY <1>0, <1>1, <1>3, <2>2, <3>1
    <3>3. /\ security_queue' \in [0 .. (MAX_SECURITY_QUEUE - 1) -> Ids \cup {-1}]
          /\ security_queue_size' \in 0 .. MAX_SECURITY_QUEUE
          /\ security_queue_tail' \in 0 .. (MAX_SECURITY_QUEUE - 1)
      <4>1. security_queue' \in [0 .. (MAX_SECURITY_QUEUE - 1) -> Ids \cup {-1}]
        BY ONLY <1>0, <1>1, <1>3
      <4>2. n + 1 \in 0 .. MAX_SECURITY_QUEUE
        BY <1>0, <1>3
      <4>3. (n + 1) % MAX_SECURITY_QUEUE \in 0 .. (MAX_SECURITY_QUEUE - 1)
        BY ONLY <4>2, TailWraps, SizesAssumption
      <4>4. QED
        BY <1>3, <2>1, <4>1, <4>2, <4>3
    <3>4. pc' \in [Pids -> Pcs]
      BY <1>0, <1>3 DEF Pcs, ListedPcs, HoldingPcs, InsidePcs, WaitingPcs
    <3>5. QED
      BY <1>0, <3>2, <3>3, <3>4 DEF IInv, TypeOK
  <2>8. QueueMirrorsPassengers'
    <3>1. Distinct(security_queue, n) /\ i \notin Window(security_queue, n)
      BY <1>1 DEF IInv, QueueMirrorsPassengers, InQueue
    <3>2. IsAppended(security_queue, security_queue', n, i)
      BY <1>0, <1>3, <2>1 DEF IsAppended
    <3>3. /\ Distinct(security_queue', n + 1)
          /\ Window(security_queue', n + 1) = Window(security_queue, n) \cup {i}
      BY ONLY <2>1, <3>1, <3>2, Appended
    <3>4. security_queue_tail' = security_queue_size' % MAX_SECURITY_QUEUE
      BY <1>3, <2>1
    <3>5. \A j \in Ids : passengers'[j].in_security_queue <=> j \in Window(security_queue', n + 1)
      BY <2>2, <2>4, <3>3 DEF IInv, QueueMirrorsPassengers, InQueue
    <3>6. ASSUME NEW k \in 0 .. n
          PROVE  security_queue'[k] \in Ids /\ passengers'[security_queue'[k]].queue_position = k
      <4>1. CASE k = n
        BY <1>1, <2>4, <3>2, <4>1 DEF IsAppended
      <4>2. CASE k \in 0 .. (n - 1)
        <5>1. security_queue'[k] = security_queue[k] /\ security_queue[k] # i
          BY <3>1, <3>2, <4>2 DEF IsAppended, Window
        <5>2. QED
          BY <2>2, <4>2, <5>1 DEF IInv, QueueMirrorsPassengers
      <4>3. QED
        BY <2>1, <4>1, <4>2
    <3>7. security_queue_size' = n + 1 /\ 0 .. (security_queue_size' - 1) = 0 .. n
      BY <1>3, <2>1
    <3> HIDE DEF n, i
    <3>8. Distinct(security_queue', security_queue_size')
      BY <3>3, <3>7
    <3>9. \A j \in Ids : passengers'[j].in_security_queue <=> InQueue(j)'
      BY <3>5, <3>7 DEF InQueue
    <3>10. QED
      BY <3>4, <3>6, <3>7, <3>8, <3>9 DEF QueueMirrorsPassengers
  <2>9. StationsSegregated'
    <3>1. \A j \in Ids : /\ passengers'[j].gender = passengers[j].gender
                         /\ passengers'[j].active <=> passengers[j].active
                         /\ passengers'[j].security_station_id = passengers[j].security_station_id
      BY <1>1, <2>2, <2>4
    <3>2. QED
      BY <1>0, <3>1 DEF IInv, StationsSegregated, StationWindow
  <2>10. /\ pc[p] \in HoldingPcs /\ pc'[p] \in HoldingPcs /\ pc'[p] \in WaitingPcs
         /\ pc[p] \in ListedPcs /\ pc'[p] \in ListedPcs
         /\ pc[p] \in InsidePcs /\ pc'[p] \in InsidePcs
    BY <1>0, <2>6 DEF HoldingPcs, ListedPcs, InsidePcs, WaitingPcs
  <2>11. SlotsOwned'
    BY <1>0, <1>1, <2>2, <2>4, <2>5, <2>10 DEF IInv, SlotsOwned
  <2>12. WaitersAreQueued'
    <3>1. \A q \in Pids \ {p} : pc[q] \in HoldingPcs => passengers'[my_id'[q]] = passengers[my_id[q]]
      BY <1>0, <1>1, <2>2, OwnSlot
    <3>2. WaitingPcs \cup {"at_station"} \subseteq HoldingPcs
      BY DEF HoldingPcs, InsidePcs
    <3>3. my_id'[p] = i
      BY <1>0
    <3>4. QED
      BY <2>4, <2>5, <2>6, <2>10, <3>1, <3>2, <3>3 DEF IInv, WaitersAreQueued
  <2>13. PidsListed'
    BY <1>0, <2>5, <2>10 DEF IInv, PidsListed, Listed
  <2>14. SignalReachesAll' /\ RoundsAndSignal'
    BY <1>0, <2>5, <2>6, <2>10 DEF IInv, SignalReachesAll, RoundsAndSignal
  <2>15. SlotsKept
    BY <1>0, <1>1, <2>2, <2>4 DEF SlotsKept
  <2>16. QED
    BY <2>7, <2>8, <2>9, <2>11, <2>12, <2>13, <2>14, <2>15 DEF IInv
<1>4. QED
  BY <1>2, <1>3 DEF JoinSecurityQueue

\* What ipc_leave_security_queue and ipc_assign_to_security_station do to the
\* queue, for passengers ps that differ from the shared ones in other fields.
LEMMA Dequeued ==
  ASSUME IInv, NEW i \in Ids, InQueue(i), NEW ps \in [Ids -> PassengerInfo], Dequeue(ps, i),
         \A j \in Ids : ps[j].in_security_queue <=> passengers[j].in_security_queue
  PROVE  /\ passengers' \in [Ids -> PassengerInfo]
         /\ security_queue' \in [0 .. (MAX_SECURITY_QUEUE - 1) -> Ids \cup {-1}]
         /\ security_queue_size' \in 0 .. MAX_SECURITY_QUEUE
         /\ security_queue_tail' \in 0 .. (MAX_SECURITY_QUEUE - 1)
         /\ QueueMirrorsPassengers'
         /\ \A j \in Ids : passengers'[j].in_security_queue
                             <=> passengers[j].in_security_queue /\ j # i
         /\ \A j \in Ids : /\ passengers'[j].active <=> ps[j].active
                           /\ passengers'[j].pid = ps[j].pid
                           /\ passengers'[j].gender = ps[j].gender
                           /\ passengers'[j].status = ps[j].status
                           /\ passengers'[j].security_station_id = ps[j].security_station_id
                           /\ passengers'[j].times_passed = ps[j].times_passed
         /\ security_queue_size' = security_queue_size - 1
         /\ \E c \in 0 .. (security_queue_size - 1) :
              /\ security_queue[c] = i
              /\ \A k \in 0 .. (security_queue_size - 2) :
                   security_queue'[k] = IF k < c THEN security_queue[k] ELSE security_queue[k + 1]
<1> DEFINE n == security_queue_size
           q == Without(security_queue, n, i)
           new == Renumbered(ps, q, n - 1)
<1>1. /\ security_queue \in [0 .. (MAX_SECURITY_QUEUE - 1) -> Ids \cup {-1}]
      /\ n \in 0 .. MAX_SECURITY_QUEUE
      /\ Distinct(security_queue, n)
      /\ security_queue_tail = n % MAX_SECURITY_QUEUE
      /\ i \in Window(security_queue, n)
      /\ \A j \in Ids : passengers[j].in_security_queue <=> j \in Window(security_queue, n)
      /\ Window(security_queue, n) \subseteq Ids
  BY SMTT(30) DEF IInv, TypeOK, QueueMirrorsPassengers, InQueue, Window
<1>2. /\ n \in Nat /\ 0 .. (n - 1) \subseteq DOMAIN security_queue
      /\ Distinct(security_queue, n) /\ i \in Window(security_queue, n)
  BY <1>1
<1>3. /\ CountWithout(security_queue, n, i) = n - 1
      /\ n > 0
      /\ FirstIndex(security_queue, n, i) \in 0 .. (n - 1)
      /\ q = CloseGap(security_queue, n, FirstIndex(security_queue, n, i))
      /\ Distinct(q, n - 1)
  <2>1. /\ CountWithout(security_queue, n, i) = n - 1
        /\ n > 0
        /\ Distinct(q, n - 1)
    BY ONLY <1>2, WithoutCells
  <2>2. /\ FirstIndex(security_queue, n, i) \in 0 .. (n - 1)
        /\ q = CloseGap(security_queue, n, FirstIndex(security_queue, n, i))
    BY ONLY <1>2, WithoutCells
  <2>3. QED
    BY <2>1, <2>2
<1>4. \A v : v \in Window(q, n - 1) <=> v \in Window(security_queue, n) /\ v # i
  BY ONLY <1>2, WithoutCells
<1>5. q \in [0 .. (MAX_SECURITY_QUEUE - 1) -> Ids \cup {-1}]
  BY ONLY <1>1, <1>3, SizesAssumption DEF CloseGap
<1>6. n - 1 \in Nat /\ n - 1 < MAX_SECURITY_QUEUE
  BY <1>1, <1>3
<1> DEFINE m == n - 1
<1>7. \A k \in 0 .. (m - 1) : q[k] \in Window(q, m) /\ LastIndex(q, m, q[k]) = k
  <2>1. m \in Nat /\ Distinct(q, m)
    BY <1>3, <1>6
  <2> HIDE DEF m, q
  <2>2. \A k \in 0 .. (m - 1) : LastIndex(q, m, q[k]) = k
    BY ONLY <2>1, LastIndexOfCell
  <2>3. QED
    BY ONLY <2>2 DEF Window
<1>8. \A j \in Window(q, n - 1) : LastIndex(q, n - 1, j) \in -1 .. (MAX_SECURITY_QUEUE - 1)
  <2>1. m \in Nat /\ Distinct(q, m) /\ m < MAX_SECURITY_QUEUE
    BY <1>3, <1>6
  <2> HIDE DEF m, q
  <2>2. \A j \in Window(q, m) : LastIndex(q, m, j) \in 0 .. (m - 1)
    BY ONLY <2>1, IndexFound
  <2>3. ASSUME NEW k \in 0 .. (m - 1) PROVE k \in -1 .. (MAX_SECURITY_QUEUE - 1)
    BY <2>1
  <2>4. QED
    BY ONLY <2>2, <2>3 DEF m
<1>9. /\ security_queue' = q
      /\ security_queue_size' = n - 1
      /\ security_queue_tail' = ((n % MAX_SECURITY_QUEUE) - 1 + MAX_SECURITY_QUEUE)
                                  % MAX_SECURITY_QUEUE
      /\ passengers' = [new EXCEPT ![i].in_security_queue = FALSE, ![i].queue_position = -1]
  <2>1. n - (n - 1) = 1
    BY <1>2
  <2>2. QED
    BY <1>1, <1>3, <2>1 DEF Dequeue
<1>10. \A j \in Ids : new[j] = IF j \in Window(q, n - 1)
                               THEN [ps[j] EXCEPT !.queue_position = LastIndex(q, n - 1, j)]
                               ELSE ps[j]
  BY DEF Renumbered
<1>11. security_queue_tail' = (n - 1) % MAX_SECURITY_QUEUE
  BY ONLY <1>1, <1>3, <1>9, TailWraps, SizesAssumption
<1>12. /\ security_queue_size' \in 0 .. MAX_SECURITY_QUEUE
       /\ security_queue_tail' \in 0 .. (MAX_SECURITY_QUEUE - 1)
  <2>1. n - 1 \in 0 .. MAX_SECURITY_QUEUE
    BY <1>6
  <2>2. (n - 1) % MAX_SECURITY_QUEUE \in 0 .. (MAX_SECURITY_QUEUE - 1)
    BY ONLY <2>1, TailWraps, SizesAssumption
  <2>3. QED
    BY <1>9, <1>11, <2>1, <2>2
<1> HIDE DEF q
<1>13. new \in [Ids -> PassengerInfo]
  <2>1. ASSUME NEW j \in Ids PROVE new[j] \in PassengerInfo
    <3>1. ps[j] \in PassengerInfo
      OBVIOUS
    <3>2. ASSUME NEW k \in -1 .. (MAX_SECURITY_QUEUE - 1)
          PROVE  [ps[j] EXCEPT !.queue_position = k] \in PassengerInfo
      BY ONLY <3>1, <3>2 DEF PassengerInfo
    <3>3. QED
      BY ONLY <1>8, <1>10, <3>1, <3>2, <2>1
  <2>2. QED
    BY <2>1 DEF Renumbered
<1> HIDE DEF new
<1>14. /\ \A j \in Ids : j # i => passengers'[j] = new[j]
       /\ passengers'[i] = [new[i] EXCEPT !.in_security_queue = FALSE, !.queue_position = -1]
  BY ONLY <1>9, <1>13, i \in Ids
<1>15. passengers'[i] \in PassengerInfo
  <2>1. new[i] \in PassengerInfo /\ -1 \in -1 .. (MAX_SECURITY_QUEUE - 1)
    BY <1>13
  <2>2. QED
    BY ONLY <1>14, <2>1 DEF PassengerInfo
<1>16. passengers' \in [Ids -> PassengerInfo]
  BY ONLY <1>9, <1>13, <1>14, <1>15
<1>17. \A j \in Ids : /\ new[j].active <=> ps[j].active
                      /\ new[j].pid = ps[j].pid
                      /\ new[j].gender = ps[j].gender
                      /\ new[j].status = ps[j].status
                      /\ new[j].security_station_id = ps[j].security_station_id
                      /\ new[j].times_passed = ps[j].times_passed
                      /\ new[j].in_security_queue <=> ps[j].in_security_queue
  BY ONLY <1>10, ps \in [Ids -> PassengerInfo] DEF PassengerInfo
<1>18. /\ passengers'[i].active <=> new[i].active
       /\ passengers'[i].pid = new[i].pid
       /\ passengers'[i].gender = new[i].gender
       /\ passengers'[i].status = new[i].status
       /\ passengers'[i].security_station_id = new[i].security_station_id
       /\ passengers'[i].times_passed = new[i].times_passed
       /\ ~passengers'[i].in_security_queue
  BY ONLY <1>13, <1>14, i \in Ids DEF PassengerInfo
<1>19. \A j \in Ids : passengers'[j].in_security_queue
                        <=> passengers[j].in_security_queue /\ j # i
  BY <1>14, <1>17, <1>18
<1>20. \A j \in Ids : /\ passengers'[j].active <=> ps[j].active
                      /\ passengers'[j].pid = ps[j].pid
                      /\ passengers'[j].gender = ps[j].gender
                      /\ passengers'[j].status = ps[j].status
                      /\ passengers'[j].security_station_id = ps[j].security_station_id
                      /\ passengers'[j].times_passed = ps[j].times_passed
  BY ONLY ZenonT(60), <1>14, <1>17, <1>18
<1>21. ASSUME NEW k \in 0 .. (m - 1)
       PROVE  q[k] \in Ids /\ passengers'[q[k]].queue_position = k
  <2>1. q[k] \in Window(q, n - 1) /\ LastIndex(q, n - 1, q[k]) = k /\ q[k] \in Ids /\ q[k] # i
    BY ONLY <1>1, <1>4, <1>7, <1>21
  <2>2. passengers'[q[k]] = [ps[q[k]] EXCEPT !.queue_position = k]
    BY ONLY <1>10, <1>14, <2>1
  <2>3. ps[q[k]] \in PassengerInfo
    BY <2>1
  <2>4. QED
    BY ONLY <2>1, <2>2, <2>3 DEF PassengerInfo
<1>22. QueueMirrorsPassengers'
  <2>1. \A j \in Ids : passengers'[j].in_security_queue <=> j \in Window(q, n - 1)
    BY ONLY <1>1, <1>4, <1>19
  <2>2. QED
    BY ONLY <1>3, <1>9, <1>11, <1>21, <2>1 DEF QueueMirrorsPassengers, InQueue
<1>23. \E c \in 0 .. (n - 1) :
         /\ security_queue[c] = i
         /\ \A k \in 0 .. (n - 2) : q[k] = IF k < c THEN security_queue[k] ELSE security_queue[k + 1]
  BY ONLY <1>2, WithoutKeepsOrder DEF q
<1>24. QED
  BY <1>5, <1>9, <1>12, <1>16, <1>19, <1>20, <1>22, <1>23

\* A step of a process that keeps its slot and changes its own queue flag,
\* station and status, and anybody's position.
LEMMA SlotStep ==
  ASSUME IInv, NEW p \in Pids,
         pc[p] \in HoldingPcs \cap ListedPcs, pc'[p] \in HoldingPcs \cap ListedPcs,
         pc'[p] \in InsidePcs => pc[p] \in InsidePcs,
         pc'[p] \notin {"assign", "position", "size", "pass"},
         pc' = [pc EXCEPT ![p] = pc'[p]],
         UNCHANGED <<pidVars, captainVars, my_id, stop_boarding_flag, gender>>,
         \A q \in Pids \ {p} : assignment_attempts'[q] = assignment_attempts[q],
         \A j \in Ids : /\ passengers'[j].active <=> passengers[j].active
                        /\ passengers'[j].pid = passengers[j].pid
                        /\ passengers'[j].gender = passengers[j].gender,
         \A j \in Ids : j # my_id[p] =>
           /\ passengers'[j].in_security_queue <=> passengers[j].in_security_queue
           /\ passengers'[j].status = passengers[j].status
           /\ passengers'[j].security_station_id = passengers[j].security_station_id,
         pc'[p] \in WaitingPcs => /\ passengers'[my_id[p]].in_security_queue
                                  /\ passengers'[my_id[p]].security_station_id = -1
                                  /\ passengers'[my_id[p]].status = "IN_QUEUE",
         pc'[p] = "at_station" => /\ ~passengers'[my_id[p]].in_security_queue
                                  /\ passengers'[my_id[p]].security_station_id >= 0
                                  /\ passengers'[my_id[p]].status = "AT_SECURITY",
         pc'[p] \in HoldingPcs \ (WaitingPcs \cup {"at_station"}) =>
                                  /\ ~passengers'[my_id[p]].in_security_queue
                                  /\ passengers'[my_id[p]].security_station_id = -1
  PROVE  SlotsOwned' /\ WaitersAreQueued' /\ PidsListed' /\ SignalReachesAll' /\ RoundsAndSignal'
<1> USE DEF pidVars, captainVars
<1>1. \A q \in Pids \ {p} : pc'[q] = pc[q]
  BY DEF IInv, TypeOK
<1>2. "killed" \notin HoldingPcs /\ WaitingPcs \cup {"at_station"} \subseteq HoldingPcs
  BY DEF HoldingPcs, InsidePcs, WaitingPcs
<1>3. /\ my_id[p] \in Ids /\ passengers[my_id[p]].active
      /\ \A q \in Pids \ {p} : pc[q] \in HoldingPcs => my_id[q] \in Ids /\ my_id[q] # my_id[p]
  BY OwnSlot
<1>4. SlotsOwned'
  BY <1>1, <1>2, <1>3 DEF IInv, SlotsOwned
<1>5. WaitersAreQueued'
  <2>1. ASSUME NEW q \in Pids \ {p}, pc'[q] \in HoldingPcs
        PROVE  /\ pc'[q] = pc[q] /\ my_id'[q] = my_id[q]
               /\ passengers'[my_id[q]].in_security_queue <=> passengers[my_id[q]].in_security_queue
               /\ passengers'[my_id[q]].status = passengers[my_id[q]].status
               /\ passengers'[my_id[q]].security_station_id = passengers[my_id[q]].security_station_id
    BY <1>1, <1>3, <2>1
  <2>2. my_id'[p] = my_id[p]
    OBVIOUS
  <2>3. QED
    BY <1>2, <2>1, <2>2 DEF IInv, WaitersAreQueued
<1>6. PidsListed'
  BY <1>1 DEF IInv, PidsListed, Listed
<1>7. SignalReachesAll' /\ RoundsAndSignal'
  BY <1>1 DEF IInv, SignalReachesAll, RoundsAndSignal
<1>8. QED
  BY <1>4, <1>5, <1>6, <1>7

LEMMA LeaveSecurityQueueInvariant ==
  ASSUME IInv, NEW p \in Pids, LeaveSecurityQueue(p)
  PROVE  IInv' /\ SlotsKept
<1> USE DEF Goto, pidVars, captainVars, localVars
<1> DEFINE i == my_id[p]
<1>1. /\ pc[p] = "leave_queue" /\ pc' = [pc EXCEPT ![p] = "unregister"]
      /\ pc \in [Pids -> Pcs]
      /\ UNCHANGED <<total_passengers, security_stations, pidVars, captainVars, localVars>>
  BY DEF LeaveSecurityQueue, IInv, TypeOK
<1>2. /\ pc[p] \in WaitingPcs \cap HoldingPcs \cap ListedPcs
      /\ "unregister" \in (HoldingPcs \cap ListedPcs) \ (InsidePcs \cup {"at_station"})
      /\ pc'[p] = "unregister" /\ "unregister" \notin WaitingPcs
  BY <1>1 DEF WaitingPcs, HoldingPcs, ListedPcs, InsidePcs
<1>3. /\ i \in Ids /\ passengers[i].in_security_queue /\ passengers[i].security_station_id = -1
      /\ passengers \in [Ids -> PassengerInfo]
  BY <1>2, OwnSlot DEF IInv, WaitersAreQueued, TypeOK
<1>4. InQueue(i) /\ Dequeue(passengers, i)
  BY <1>3 DEF LeaveSecurityQueue, IInv, QueueMirrorsPassengers
<1>5. /\ passengers' \in [Ids -> PassengerInfo]
      /\ security_queue' \in [0 .. (MAX_SECURITY_QUEUE - 1) -> Ids \cup {-1}]
      /\ security_queue_size' \in 0 .. MAX_SECURITY_QUEUE
      /\ security_queue_tail' \in 0 .. (MAX_SECURITY_QUEUE - 1)
      /\ QueueMirrorsPassengers'
  BY <1>3, <1>4, Dequeued
<1>6. \A j \in Ids : passengers'[j].in_security_queue <=> passengers[j].in_security_queue /\ j # i
  BY <1>3, <1>4, Dequeued
<1>7. \A j \in Ids : /\ passengers'[j].active <=> passengers[j].active
                     /\ passengers'[j].pid = passengers[j].pid
                     /\ passengers'[j].gender = passengers[j].gender
                     /\ passengers'[j].status = passengers[j].status
                     /\ passengers'[j].security_station_id = passengers[j].security_station_id
  BY <1>3, <1>4, Dequeued
<1>8. pc' \in [Pids -> Pcs]
  BY <1>1 DEF Pcs, ListedPcs, HoldingPcs
<1>9. TypeOK'
  BY <1>1, <1>5, <1>8 DEF IInv, TypeOK
<1>10. StationsSegregated'
  BY <1>1, <1>7 DEF IInv, StationsSegregated, StationWindow
<1>11. SlotsOwned' /\ WaitersAreQueued' /\ PidsListed' /\ SignalReachesAll' /\ RoundsAndSignal'
  <2>1. /\ pc[p] \in HoldingPcs \cap ListedPcs /\ pc'[p] \in HoldingPcs \cap ListedPcs
        /\ pc'[p] \notin InsidePcs /\ pc'[p] \notin WaitingPcs /\ pc'[p] # "at_station"
        /\ pc'[p] \notin {"assign", "position", "size", "pass"}
        /\ pc' = [pc EXCEPT ![p] = pc'[p]]
    BY <1>1, <1>2
  <2>2. UNCHANGED <<pidVars, captainVars, my_id, stop_boarding_flag, gender>>
    BY <1>1
  <2>3. \A q \in Pids \ {p} : assignment_attempts'[q] = assignment_attempts[q]
    BY <1>1
  <2>4. \A j \in Ids : /\ passengers'[j].active <=> passengers[j].active
                       /\ passengers'[j].pid = passengers[j].pid
                       /\ passengers'[j].gender = passengers[j].gender
    BY <1>7
  <2>5. \A j \in Ids : j # my_id[p] =>
          /\ passengers'[j].in_security_queue <=> passengers[j].in_security_queue
          /\ passengers'[j].status = passengers[j].status
          /\ passengers'[j].security_station_id = passengers[j].security_station_id
    BY <1>6, <1>7
  <2>6. /\ ~passengers'[my_id[p]].in_security_queue
        /\ passengers'[my_id[p]].security_station_id = -1
    BY <1>3, <1>6, <1>7
  <2>7. QED
    BY ONLY IInv, <2>1, <2>2, <2>3, <2>4, <2>5, <2>6, SlotStep
<1>12. SlotsKept
  BY <1>1, <1>7 DEF SlotsKept
<1>13. QED
  BY <1>5, <1>9, <1>10, <1>11, <1>12 DEF IInv

-----------------------------------------------------------------------------
(* The stations. *)

\* ipc_complete_security_check: a passenger leaves the list of its station.
LEMMA StationLeft ==
  ASSUME IInv, NEW i \in Ids, NEW s \in Stations, passengers[i].active,
         passengers[i].security_station_id = s,
         security_stations' = [security_stations EXCEPT ![s] = StationWithout(@, i)],
         passengers'[i].security_station_id = -1,
         \A j \in Ids : /\ passengers'[j].active <=> passengers[j].active
                        /\ passengers'[j].gender = passengers[j].gender,
         \A j \in Ids : j # i => passengers'[j].security_station_id = passengers[j].security_station_id
  PROVE  /\ security_stations' \in [Stations -> SecurityStation]
         /\ StationsSegregated'
<1> DEFINE st == security_stations[s]
           ids == st.passenger_ids
           n == st.num_people
           Cells == 0 .. (MAX_PEOPLE_PER_STATION - 1)
           without == Without(ids, n, i)
           new == [without EXCEPT ![n - 1] = -1]
<1>1. /\ security_stations \in [Stations -> SecurityStation]
      /\ ids \in [Cells -> Ids \cup {-1}]
      /\ n \in 0 .. MAX_PEOPLE_PER_STATION
      /\ st.station_gender \in Genders
  BY DEF IInv, TypeOK, SecurityStation
<1>2. i \in Window(ids, n) /\ Distinct(ids, n)
  BY DEF IInv, StationsSegregated, StationWindow
<1>3. n \in Nat /\ 0 .. (n - 1) \subseteq DOMAIN ids
  BY <1>1
<1>4. CountWithout(ids, n, i) = n - 1 /\ n > 0 /\ Distinct(without, n - 1)
  BY ONLY <1>2, <1>3, WithoutCells
<1>5. \A v : v \in Window(without, n - 1) <=> v \in Window(ids, n) /\ v # i
  BY ONLY <1>2, <1>3, WithoutCells
<1>6. without \in [Cells -> Ids \cup {-1}]
  <2>1. /\ without = CloseGap(ids, n, FirstIndex(ids, n, i))
        /\ FirstIndex(ids, n, i) \in 0 .. (n - 1)
    BY ONLY <1>2, <1>3, WithoutCells
  <2>2. QED
    BY ONLY <1>1, <2>1, SizesAssumption DEF CloseGap
<1> HIDE DEF without
<1>7. new \in [Cells -> Ids \cup {-1}] /\ \A k \in 0 .. ((n - 1) - 1) : new[k] = without[k]
  BY <1>1, <1>4, <1>6
<1>8. Distinct(new, n - 1) /\ Window(new, n - 1) = Window(without, n - 1)
  BY ONLY <1>4, <1>7 DEF Distinct, Window
<1>9. security_stations'[s] =
        [num_people |-> n - 1, passenger_ids |-> new,
         station_gender |-> IF n - 1 = 0 THEN "MALE" ELSE st.station_gender]
  <2>1. StationWithout(st, i) =
          [num_people |-> n - 1, passenger_ids |-> new,
           station_gender |-> IF n - 1 = 0 THEN "MALE" ELSE st.station_gender]
    BY <1>3, <1>4 DEF StationWithout, without
  <2>2. QED
    BY <1>1, <2>1
<1>10. \A t \in Stations : t # s => security_stations'[t] = security_stations[t]
  BY <1>1
<1> HIDE DEF new
<1>11. security_stations' \in [Stations -> SecurityStation]
  <2>1. n - 1 \in 0 .. MAX_PEOPLE_PER_STATION
    BY <1>1, <1>4
  <2>2. security_stations'[s] \in SecurityStation
    BY ONLY <1>1, <1>7, <1>9, <2>1 DEF SecurityStation, Genders
  <2>3. DOMAIN security_stations' = Stations /\ security_stations' = [t \in Stations |-> security_stations'[t]]
    BY <1>1
  <2>4. QED
    BY ONLY <1>1, <1>10, <2>2, <2>3
<1>12. StationsSegregated'
  <2>1. ASSUME NEW t \in Stations, t # s
        PROVE  /\ Distinct(security_stations'[t].passenger_ids, security_stations'[t].num_people)
               /\ \A k \in 0 .. (security_stations'[t].num_people - 1) :
                    /\ security_stations'[t].passenger_ids[k] \in Ids
                    /\ passengers'[security_stations'[t].passenger_ids[k]].gender
                         = security_stations'[t].station_gender
               /\ \A j \in Ids : j \in StationWindow(t)'
                    <=> passengers'[j].active /\ passengers'[j].security_station_id = t
               /\ security_stations'[t].num_people = 0
                    => security_stations'[t].station_gender = "MALE"
    <3>1. security_stations'[t] = security_stations[t] /\ t # -1
      BY <1>10, <2>1 DEF Stations
    <3>2. \A j \in Ids : j \in StationWindow(t)
            <=> passengers'[j].active /\ passengers'[j].security_station_id = t
      BY <2>1, <3>1 DEF IInv, StationsSegregated
    <3>3. QED
      BY <3>1, <3>2 DEF IInv, StationsSegregated, StationWindow
  <2>2. /\ security_stations'[s].num_people = n - 1
        /\ security_stations'[s].passenger_ids = new
        /\ security_stations'[s].station_gender = IF n - 1 = 0 THEN "MALE" ELSE st.station_gender
    BY <1>9
  <2>3. \A k \in 0 .. ((n - 1) - 1) : new[k] \in Ids /\ passengers'[new[k]].gender = st.station_gender
    <3>1. \A v \in Window(ids, n) : v \in Ids /\ passengers[v].gender = st.station_gender
      BY DEF IInv, StationsSegregated, Window
    <3>2. \A k \in 0 .. ((n - 1) - 1) : new[k] \in Window(new, n - 1)
      BY ONLY TRUE DEF Window
    <3>3. QED
      BY <1>5, <1>8, <3>1, <3>2
  <2>4. \A j \in Ids : j \in Window(new, n - 1)
          <=> passengers'[j].active /\ passengers'[j].security_station_id = s
    <3>1. \A j \in Ids : j \in Window(ids, n)
            <=> passengers[j].active /\ passengers[j].security_station_id = s
      BY DEF IInv, StationsSegregated, StationWindow
    <3>2. s # -1
      BY DEF Stations
    <3>3. QED
      BY <1>5, <1>8, <3>1, <3>2
  <2>5. \A k \in 0 .. ((n - 1) - 1) : n - 1 # 0
    BY <1>3
  <2>6. /\ Distinct(security_stations'[s].passenger_ids, security_stations'[s].num_people)
        /\ \A k \in 0 .. (security_stations'[s].num_people - 1) :
             /\ security_stations'[s].passenger_ids[k] \in Ids
             /\ passengers'[security_stations'[s].passenger_ids[k]].gender
                  = security_stations'[s].station_gender
        /\ \A j \in Ids : j \in StationWindow(s)'
             <=> passengers'[j].active /\ passengers'[j].security_station_id = s
        /\ security_stations'[s].num_people = 0
             => security_stations'[s].station_gender = "MALE"
    BY <1>3, <1>8, <2>2, <2>3, <2>4, <2>5 DEF StationWindow
  <2>7. QED
    BY ONLY <2>1, <2>6 DEF StationsSegregated
<1>13. QED
  BY <1>11, <1>12

LEMMA CompleteSecurityCheckInvariant ==
  ASSUME IInv, NEW p \in Pids, CompleteSecurityCheck(p)
  PROVE  IInv' /\ SlotsKept
<1> USE DEF Goto, queueVars, pidVars, captainVars, localVars
<1> DEFINE i == my_id[p]
           s == passengers[i].security_station_id
<1>1. /\ pc[p] = "at_station" /\ pc \in [Pids -> Pcs]
      /\ passengers \in [Ids -> PassengerInfo]
      /\ UNCHANGED <<total_passengers, queueVars, pidVars, captainVars, localVars>>
  BY DEF CompleteSecurityCheck, IInv, TypeOK
<1>2. /\ pc[p] \in HoldingPcs \cap ListedPcs \cap InsidePcs
      /\ "waiting_room" \in (HoldingPcs \cap ListedPcs) \ (WaitingPcs \cup {"at_station"})
  BY <1>1 DEF WaitingPcs, HoldingPcs, ListedPcs, InsidePcs
<1>3. /\ i \in Ids /\ passengers[i] \in PassengerInfo
      /\ passengers[i].active /\ ~passengers[i].in_security_queue
      /\ s >= 0 /\ passengers[i].status = "AT_SECURITY"
  BY <1>1, <1>2, OwnSlot DEF IInv, WaitersAreQueued
<1>4. s \in Stations
  <2>1. s \in Stations \cup {-1}
    BY ONLY <1>3 DEF PassengerInfo
  <2>2. QED
    BY <1>3, <2>1
<1>5. /\ security_stations' = [security_stations EXCEPT ![s] = StationWithout(@, i)]
      /\ passengers' = [passengers EXCEPT ![i].security_station_id = -1,
                                          ![i].status = "SECURITY_PASSED"]
      /\ pc' = [pc EXCEPT ![p] = "waiting_room"]
  BY <1>3 DEF CompleteSecurityCheck
<1>6. pc'[p] = "waiting_room" /\ pc' \in [Pids -> Pcs]
  BY <1>1, <1>5 DEF Pcs, ListedPcs, HoldingPcs, InsidePcs
<1>7. /\ \A j \in Ids : j # i => passengers'[j] = passengers[j]
      /\ passengers'[i] = [passengers[i] EXCEPT !.security_station_id = -1,
                                                !.status = "SECURITY_PASSED"]
  BY ONLY <1>1, <1>3, <1>5
<1>8. /\ passengers'[i] \in PassengerInfo
      /\ passengers'[i].active <=> passengers[i].active
      /\ passengers'[i].pid = passengers[i].pid
      /\ passengers'[i].gender = passengers[i].gender
      /\ passengers'[i].in_security_queue <=> passengers[i].in_security_queue
      /\ passengers'[i].queue_position = passengers[i].queue_position
      /\ passengers'[i].security_station_id = -1
  BY ONLY <1>3, <1>7 DEF PassengerInfo, Statuses
<1>9. passengers' \in [Ids -> PassengerInfo]
  BY ONLY <1>1, <1>3, <1>5, <1>7, <1>8
<1>10. \A j \in Ids : /\ passengers'[j].active <=> passengers[j].active
                      /\ passengers'[j].pid = passengers[j].pid
                      /\ passengers'[j].gender = passengers[j].gender
                      /\ passengers'[j].in_security_queue <=> passengers[j].in_security_queue
                      /\ passengers'[j].queue_position = passengers[j].queue_position
  BY ONLY <1>7, <1>8
<1>11. security_stations' \in [Stations -> SecurityStation] /\ StationsSegregated'
  BY ZenonT(60), <1>3, <1>4, <1>5, <1>7, <1>8, <1>10, StationLeft
<1>12. TypeOK'
  BY <1>1, <1>6, <1>9, <1>11 DEF IInv, TypeOK
<1>13. QueueMirrorsPassengers'
  BY <1>1, <1>10 DEF IInv, QueueMirrorsPassengers, InQueue
<1>14. SlotsOwned' /\ WaitersAreQueued' /\ PidsListed' /\ SignalReachesAll' /\ RoundsAndSignal'
  <2>1. /\ pc'[p] \in (HoldingPcs \cap ListedPcs) \ (WaitingPcs \cup {"at_station"})
        /\ pc'[p] \notin {"assign", "position", "size", "pass"}
        /\ pc' = [pc EXCEPT ![p] = pc'[p]]
    BY <1>2, <1>5, <1>6
  <2>2. UNCHANGED <<pidVars, captainVars, my_id, stop_boarding_flag, gender>>
    BY <1>1
  <2>3. \A q \in Pids \ {p} : assignment_attempts'[q] = assignment_attempts[q]
    BY <1>1
  <2>4. \A j \in Ids : j # my_id[p] =>
          /\ passengers'[j].in_security_queue <=> passengers[j].in_security_queue
          /\ passengers'[j].status = passengers[j].status
          /\ passengers'[j].security_station_id = passengers[j].security_station_id
    BY <1>7
  <2>5. /\ ~passengers'[my_id[p]].in_security_queue
        /\ passengers'[my_id[p]].security_station_id = -1
    BY <1>3, <1>8
  <2>6. QED
    BY ONLY IInv, <1>2, <1>10, <2>1, <2>2, <2>3, <2>4, <2>5, SlotStep
<1>15. SlotsKept
  BY <1>1, <1>10 DEF SlotsKept
<1>16. QED
  BY <1>11, <1>12, <1>13, <1>14, <1>15 DEF IInv

\* The enrolment of ipc_assign_to_security_station.
LEMMA StationEntered ==
  ASSUME IInv, NEW i \in Ids, NEW s \in Stations, passengers[i].active,
         passengers[i].security_station_id = -1,
         Usable(s, passengers[i].gender),
         security_stations' = [security_stations EXCEPT
           ![s] = [num_people |-> security_stations[s].num_people + 1,
                   passenger_ids |-> [security_stations[s].passenger_ids EXCEPT
                                        ![security_stations[s].num_people] = i],
                   station_gender |-> IF security_stations[s].num_people = 0
                                      THEN passengers[i].gender
                                      ELSE security_stations[s].station_gender]],
         passengers'[i].security_station_id = s,
         \A j \in Ids : /\ passengers'[j].active <=> passengers[j].active
                        /\ passengers'[j].gender = passengers[j].gender,
         \A j \in Ids : j # i => passengers'[j].security_station_id = passengers[j].security_station_id
  PROVE  /\ security_stations' \in [Stations -> SecurityStation]
         /\ StationsSegregated'
<1> DEFINE st == security_stations[s]
           ids == st.passenger_ids
           n == st.num_people
           Cells == 0 .. (MAX_PEOPLE_PER_STATION - 1)
           new == [ids EXCEPT ![n] = i]
           g == passengers[i].gender
<1>1. /\ security_stations \in [Stations -> SecurityStation]
      /\ ids \in [Cells -> Ids \cup {-1}]
      /\ n \in 0 .. MAX_PEOPLE_PER_STATION
      /\ st.station_gender \in Genders
      /\ g \in Genders
  BY DEF IInv, TypeOK, SecurityStation, PassengerInfo
<1>2. n \in Nat /\ n < MAX_PEOPLE_PER_STATION /\ (n = 0 \/ st.station_gender = g)
  BY <1>1 DEF Usable
<1>3. i \notin Window(ids, n) /\ Distinct(ids, n)
  BY DEF IInv, StationsSegregated, StationWindow, Stations
<1>4. IsAppended(ids, new, n, i) /\ new \in [Cells -> Ids \cup {-1}]
  BY SMTT(30), <1>1, <1>2 DEF IsAppended
<1>5. Distinct(new, n + 1) /\ Window(new, n + 1) = Window(ids, n) \cup {i}
  <2>1. n \in Nat
    BY <1>2
  <2> HIDE DEF n, ids, new
  <2>2. QED
    BY ONLY <1>3, <1>4, <2>1, Appended
<1>6. security_stations'[s] =
        [num_people |-> n + 1, passenger_ids |-> new,
         station_gender |-> IF n = 0 THEN g ELSE st.station_gender]
  BY <1>1
<1>7. \A t \in Stations : t # s => security_stations'[t] = security_stations[t]
  BY <1>1
<1>8. (IF n = 0 THEN g ELSE st.station_gender) = g
  BY <1>2
<1> HIDE DEF new
<1>9. security_stations' \in [Stations -> SecurityStation]
  <2>1. n + 1 \in 0 .. MAX_PEOPLE_PER_STATION
    BY <1>1, <1>2
  <2>2. security_stations'[s] \in SecurityStation
    BY ONLY <1>1, <1>4, <1>6, <1>8, <2>1 DEF SecurityStation, Genders
  <2>3. DOMAIN security_stations' = Stations /\ security_stations' = [t \in Stations |-> security_stations'[t]]
    BY <1>1
  <2>4. QED
    BY ONLY <1>1, <1>7, <2>2, <2>3
<1>10. StationsSegregated'
  <2>1. ASSUME NEW t \in Stations, t # s
        PROVE  /\ Distinct(security_stations'[t].passenger_ids, security_stations'[t].num_people)
               /\ \A k \in 0 .. (security_stations'[t].num_people - 1) :
                    /\ security_stations'[t].passenger_ids[k] \in Ids
                    /\ passengers'[security_stations'[t].passenger_ids[k]].gender
                         = security_stations'[t].station_gender
               /\ \A j \in Ids : j \in StationWindow(t)'
                    <=> passengers'[j].active /\ passengers'[j].security_station_id = t
               /\ security_stations'[t].num_people = 0
                    => security_stations'[t].station_gender = "MALE"
    <3>1. security_stations'[t] = security_stations[t] /\ t # -1
      BY <1>7, <2>1 DEF Stations
    <3>2. \A j \in Ids : j \in StationWindow(t)
            <=> passengers'[j].active /\ passengers'[j].security_station_id = t
      BY <2>1, <3>1 DEF IInv, StationsSegregated
    <3>3. QED
      BY <3>1, <3>2 DEF IInv, StationsSegregated, StationWindow
  <2>2. /\ security_stations'[s].num_people = n + 1
        /\ security_stations'[s].passenger_ids = new
        /\ security_stations'[s].station_gender = g
    BY <1>6, <1>8
  <2>3. \A k \in 0 .. ((n + 1) - 1) : new[k] \in Ids /\ passengers'[new[k]].gender = g
    <3>1. ASSUME NEW v \in Window(ids, n) PROVE v \in Ids /\ passengers[v].gender = g
      <4>1. n # 0
        BY DEF Window
      <4>2. v \in Ids /\ passengers[v].gender = st.station_gender
        BY DEF IInv, StationsSegregated, Window
      <4>3. QED
        BY <1>2, <4>1, <4>2
    <3>2. \A k \in 0 .. ((n + 1) - 1) : new[k] \in Window(new, n + 1)
      BY ONLY TRUE DEF Window
    <3>3. QED
      BY <1>5, <3>1, <3>2
  <2>4. \A j \in Ids : j \in Window(new, n + 1)
          <=> passengers'[j].active /\ passengers'[j].security_station_id = s
    <3>1. \A j \in Ids : j \in Window(ids, n)
            <=> passengers[j].active /\ passengers[j].security_station_id = s
      BY DEF IInv, StationsSegregated, StationWindow
    <3>2. QED
      BY <1>5, <3>1
  <2>5. n + 1 # 0
    BY <1>2
  <2>6. /\ Distinct(security_stations'[s].passenger_ids, security_stations'[s].num_people)
        /\ \A k \in 0 .. (security_stations'[s].num_people - 1) :
             /\ security_stations'[s].passenger_ids[k] \in Ids
             /\ passengers'[security_stations'[s].passenger_ids[k]].gender
                  = security_stations'[s].station_gender
        /\ \A j \in Ids : j \in StationWindow(s)'
             <=> passengers'[j].active /\ passengers'[j].security_station_id = s
        /\ security_stations'[s].num_people = 0
             => security_stations'[s].station_gender = "MALE"
    BY <1>5, <2>2, <2>3, <2>4, <2>5 DEF StationWindow
  <2>7. QED
    BY ONLY <2>1, <2>6 DEF StationsSegregated
<1>11. QED
  BY <1>9, <1>10

LEMMA AssignToSecurityStationInvariant ==
  ASSUME IInv, NEW p \in Pids, AssignToSecurityStation(p)
  PROVE  IInv' /\ SlotsKept
<1> USE DEF Goto, pidVars, captainVars, localVars
<1> DEFINE i == my_id[p]
<1>1. /\ pc[p] = "assign" /\ pc \in [Pids -> Pcs]
      /\ passengers \in [Ids -> PassengerInfo]
      /\ UNCHANGED <<total_passengers, pidVars, captainVars, localVars>>
  BY DEF AssignToSecurityStation, IInv, TypeOK
<1>2. /\ pc[p] \in HoldingPcs \cap ListedPcs \cap InsidePcs \cap WaitingPcs
      /\ "at_station" \in (HoldingPcs \cap ListedPcs) \ WaitingPcs
      /\ "position" \in WaitingPcs
  BY <1>1 DEF WaitingPcs, HoldingPcs, ListedPcs, InsidePcs
<1>3. /\ i \in Ids /\ passengers[i] \in PassengerInfo /\ passengers[i].active
      /\ passengers[i].in_security_queue /\ passengers[i].security_station_id = -1
  BY <1>2, OwnSlot DEF IInv, WaitersAreQueued
<1>4. CASE UNCHANGED <<passengers, queueVars, security_stations>> /\ pc' = [pc EXCEPT ![p] = "position"]
  <2>1. SameStage(pc[p], pc'[p]) /\ pc'[p] = "position" /\ "position" \in InsidePcs
    BY <1>1, <1>4 DEF SameStage, HoldingPcs, InsidePcs, WaitingPcs
  <2>2. assignment_attempts[p] < MAX_ASSIGNMENT_ATTEMPTS
    BY <1>1 DEF IInv, RoundsAndSignal
  <2>3. LocalMove(p)
    BY <1>1, <1>2, <1>4, <2>1, <2>2 DEF LocalMove, IInv, TypeOK
  <2>4. QED
    BY <1>1, <1>4, <2>3, LocalMoveInvariant DEF SlotsKept
<1>5. ASSUME NEW s \in Stations,
             FirstUsable(s, passengers[i].gender),
             LET n == security_stations[s].num_people IN
               security_stations' = [security_stations EXCEPT
                 ![s] = [num_people |-> n + 1,
                         passenger_ids |-> [@.passenger_ids EXCEPT ![n] = i],
                         station_gender |-> IF n = 0 THEN passengers[i].gender
                                                     ELSE @.station_gender]],
             Dequeue([passengers EXCEPT ![i].security_station_id = s,
                                        ![i].status = "AT_SECURITY"], i),
             pc' = [pc EXCEPT ![p] = "at_station"]
      PROVE  IInv' /\ SlotsKept
  <2> DEFINE ps == [passengers EXCEPT ![i].security_station_id = s, ![i].status = "AT_SECURITY"]
  <2>1. /\ \A j \in Ids : j # i => ps[j] = passengers[j]
        /\ ps[i] = [passengers[i] EXCEPT !.security_station_id = s, !.status = "AT_SECURITY"]
        /\ ps = [j \in Ids |-> ps[j]]
    BY ONLY <1>1, <1>3
  <2> HIDE DEF ps
  <2>2. /\ ps[i] \in PassengerInfo
        /\ ps[i].active <=> passengers[i].active
        /\ ps[i].pid = passengers[i].pid
        /\ ps[i].gender = passengers[i].gender
        /\ ps[i].in_security_queue <=> passengers[i].in_security_queue
        /\ ps[i].security_station_id = s
        /\ ps[i].status = "AT_SECURITY"
    <3>1. s \in Stations \cup {-1} /\ passengers[i] \in PassengerInfo
      BY <1>3
    <3>2. QED
      BY ONLY ZenonT(60), <2>1, <3>1 DEF PassengerInfo, Statuses
  <2>3. ps \in [Ids -> PassengerInfo]
    BY ONLY <1>1, <1>3, <2>1, <2>2
  <2>4. InQueue(i) /\ Dequeue(ps, i)
    <3>1. InQueue(i)
      BY <1>3 DEF IInv, QueueMirrorsPassengers
    <3>2. Dequeue(ps, i)
      BY ONLY <1>5 DEF ps
    <3>3. QED
      BY <3>1, <3>2
  <2>5. \A j \in Ids : ps[j].in_security_queue <=> passengers[j].in_security_queue
    BY <2>1, <2>2
  <2>6. /\ passengers' \in [Ids -> PassengerInfo]
        /\ security_queue' \in [0 .. (MAX_SECURITY_QUEUE - 1) -> Ids \cup {-1}]
        /\ security_queue_size' \in 0 .. MAX_SECURITY_QUEUE
        /\ security_queue_tail' \in 0 .. (MAX_SECURITY_QUEUE - 1)
        /\ QueueMirrorsPassengers'
    BY ONLY IInv, <1>3, <2>3, <2>4, <2>5, Dequeued
  <2>7. \A j \in Ids : passengers'[j].in_security_queue <=> passengers[j].in_security_queue /\ j # i
    BY ONLY IInv, <1>3, <2>3, <2>4, <2>5, Dequeued
  <2>8. \A j \in Ids : /\ passengers'[j].active <=> ps[j].active
                       /\ passengers'[j].pid = ps[j].pid
                       /\ passengers'[j].gender = ps[j].gender
                       /\ passengers'[j].status = ps[j].status
                       /\ passengers'[j].security_station_id = ps[j].security_station_id
    BY ONLY IInv, <1>3, <2>3, <2>4, <2>5, Dequeued
  <2>9. \A j \in Ids : /\ passengers'[j].active <=> passengers[j].active
                       /\ passengers'[j].pid = passengers[j].pid
                       /\ passengers'[j].gender = passengers[j].gender
    BY ONLY ZenonT(60), <2>1, <2>2, <2>8
  <2>10. \A j \in Ids : j # i =>
           /\ passengers'[j].status = passengers[j].status
           /\ passengers'[j].security_station_id = passengers[j].security_station_id
    BY ONLY <2>1, <2>8
  <2>11. /\ passengers'[i].security_station_id = s
         /\ passengers'[i].status = "AT_SECURITY"
         /\ ~passengers'[i].in_security_queue
    BY ONLY <1>3, <2>2, <2>7, <2>8
  <2>12. security_stations' \in [Stations -> SecurityStation] /\ StationsSegregated'
    <3>1. security_stations' = [security_stations EXCEPT
            ![s] = [num_people |-> security_stations[s].num_people + 1,
                    passenger_ids |-> [security_stations[s].passenger_ids EXCEPT
                                         ![security_stations[s].num_people] = i],
                    station_gender |-> IF security_stations[s].num_people = 0
                                       THEN passengers[i].gender
                                       ELSE security_stations[s].station_gender]]
      BY <1>5
    <3>2. Usable(s, passengers[i].gender)
      BY <1>5 DEF FirstUsable
    <3>3. \A j \in Ids : j # i => passengers'[j].security_station_id = passengers[j].security_station_id
      BY <2>10
    <3>4. QED
      BY ONLY IInv, s \in Stations, <1>3, <2>9, <2>11, <3>1, <3>2, <3>3, StationEntered
  <2>13. pc'[p] = "at_station" /\ pc' \in [Pids -> Pcs]
    BY <1>1, <1>5 DEF Pcs, ListedPcs, HoldingPcs, InsidePcs
  <2>14. TypeOK'
    BY <1>1, <2>6, <2>12, <2>13 DEF IInv, TypeOK
  <2>15. SlotsOwned' /\ WaitersAreQueued' /\ PidsListed' /\ SignalReachesAll' /\ RoundsAndSignal'
    <3>1. /\ pc'[p] \in (HoldingPcs \cap ListedPcs) \ WaitingPcs
          /\ pc'[p] = "at_station"
          /\ pc'[p] \notin {"assign", "position", "size", "pass"}
          /\ pc' = [pc EXCEPT ![p] = pc'[p]]
      BY <1>2, <1>5, <2>13
    <3>2. UNCHANGED <<pidVars, captainVars, my_id, stop_boarding_flag, gender>>
      BY <1>1
    <3>3. \A q \in Pids \ {p} : assignment_attempts'[q] = assignment_attempts[q]
      BY <1>1
    <3>4. \A j \in Ids : j # my_id[p] =>
            /\ passengers'[j].in_security_queue <=> passengers[j].in_security_queue
            /\ passengers'[j].status = passengers[j].status
            /\ passengers'[j].security_station_id = passengers[j].security_station_id
      BY <2>7, <2>10
    <3>5. /\ ~passengers'[my_id[p]].in_security_queue
          /\ passengers'[my_id[p]].security_station_id >= 0
          /\ passengers'[my_id[p]].status = "AT_SECURITY"
      BY <2>11 DEF Stations
    <3>6. QED
      BY ONLY IInv, <1>2, <2>9, <3>1, <3>2, <3>3, <3>4, <3>5, SlotStep
  <2>16. SlotsKept
    BY SMTT(30), <1>1, <2>9 DEF SlotsKept
  <2>17. QED
    BY <2>6, <2>12, <2>14, <2>15, <2>16 DEF IInv
<1>6. QED
  BY <1>4, <1>5 DEF AssignToSecurityStation

\* Two neighbours change places, in the array and in their records.
LEMMA PassInQueueInvariant ==
  ASSUME IInv, NEW p \in Pids, PassInQueue(p)
  PROVE  IInv' /\ SlotsKept
<1> USE DEF pidVars, captainVars
<1> DEFINE i == my_id[p]
           n == security_queue_size
           pos == passengers[i].queue_position
           j == security_queue[pos + 1]
<1>1. /\ pc[p] = "pass" /\ pc \in [Pids -> Pcs]
      /\ passengers \in [Ids -> PassengerInfo]
      /\ security_queue \in [0 .. (MAX_SECURITY_QUEUE - 1) -> Ids \cup {-1}]
      /\ n \in 0 .. MAX_SECURITY_QUEUE
      /\ assignment_attempts \in [Pids -> 0 .. MAX_ASSIGNMENT_ATTEMPTS]
      /\ current_queue_pos \in [Pids -> -1 .. (MAX_SECURITY_QUEUE - 1)]
      /\ assignment_attempts[p] < MAX_ASSIGNMENT_ATTEMPTS
      /\ UNCHANGED <<total_passengers, security_stations, pidVars, captainVars,
                     my_id, stop_boarding_flag, gender>>
  BY ZenonT(60) DEF PassInQueue, IInv, TypeOK, RoundsAndSignal
<1>2. /\ pc' = [pc EXCEPT ![p] = "loop"]
      /\ assignment_attempts' = [assignment_attempts EXCEPT ![p] = @ + 1]
      /\ current_queue_pos' = [current_queue_pos EXCEPT ![p] = -1]
  BY ZenonT(60) DEF PassInQueue, NextRound, Goto
<1>3. /\ pc[p] \in HoldingPcs \cap ListedPcs \cap InsidePcs \cap WaitingPcs
      /\ "loop" \in HoldingPcs \cap ListedPcs \cap InsidePcs \cap WaitingPcs
  BY <1>1 DEF WaitingPcs, HoldingPcs, ListedPcs, InsidePcs
<1>4. /\ pc'[p] = "loop" /\ pc' \in [Pids -> Pcs]
      /\ assignment_attempts' \in [Pids -> 0 .. MAX_ASSIGNMENT_ATTEMPTS]
      /\ current_queue_pos' \in [Pids -> -1 .. (MAX_SECURITY_QUEUE - 1)]
      /\ \A q \in Pids \ {p} : assignment_attempts'[q] = assignment_attempts[q]
  <2>1. pc'[p] = "loop" /\ pc' \in [Pids -> Pcs]
    BY <1>1, <1>2, <1>3 DEF Pcs
  <2>2. /\ assignment_attempts' \in [Pids -> 0 .. MAX_ASSIGNMENT_ATTEMPTS]
        /\ \A q \in Pids \ {p} : assignment_attempts'[q] = assignment_attempts[q]
    BY <1>1, <1>2
  <2>3. current_queue_pos' \in [Pids -> -1 .. (MAX_SECURITY_QUEUE - 1)]
    BY <1>1, <1>2
  <2>4. QED
    BY <2>1, <2>2, <2>3
<1>5. /\ i \in Ids /\ passengers[i] \in PassengerInfo
      /\ passengers[i].in_security_queue /\ passengers[i].security_station_id = -1
      /\ passengers[i].status = "IN_QUEUE"
  BY <1>3, OwnSlot DEF IInv, WaitersAreQueued
<1>6. CASE UNCHANGED <<passengers, queueVars>>
  <2>1. LocalMove(p)
    BY <1>1, <1>2, <1>3, <1>4, <1>6 DEF LocalMove, SameStage, localVars, HoldingPcs
  <2>2. QED
    BY <1>1, <1>6, <2>1, LocalMoveInvariant DEF SlotsKept
<1>7. ASSUME passengers[i].times_passed < MAX_QUEUE_PASSES, pos < n - 1,
             passengers' = [passengers EXCEPT ![i].queue_position = passengers[j].queue_position,
                                              ![j].queue_position = pos,
                                              ![i].times_passed = @ + 1],
             security_queue' = [security_queue EXCEPT ![pos] = j, ![pos + 1] = i],
             UNCHANGED <<security_queue_size, security_queue_tail>>
      PROVE  IInv' /\ SlotsKept
  <2>1. /\ Distinct(security_queue, n)
        /\ \A k \in 0 .. (n - 1) : security_queue[k] \in Ids
                                   /\ passengers[security_queue[k]].queue_position = k
        /\ i \in Window(security_queue, n)
    BY <1>5 DEF IInv, QueueMirrorsPassengers, InQueue
  <2>2. pos \in 0 .. (n - 1) /\ security_queue[pos] = i
    BY <2>1 DEF Window
  <2>3. pos \in 0 .. (n - 2) /\ pos + 1 \in 0 .. (n - 1)
    <3>1. n \in Int /\ pos \in 0 .. (n - 1)
      BY <1>1, <2>2
    <3>2. pos < n - 1
      BY ONLY <1>7, Zenon
    <3> HIDE DEF pos, n
    <3>3. QED
      BY ONLY <3>1, <3>2
  <2>4. j \in Ids /\ j # i /\ passengers[j].queue_position = pos + 1
    BY <2>1, <2>3, <2>2
  <2> HIDE DEF i, j, pos
  <2>5. /\ \A k \in 0 .. (n - 1) : k # pos /\ k # pos + 1 => security_queue'[k] = security_queue[k]
        /\ security_queue'[pos] = j /\ security_queue'[pos + 1] = i
        /\ security_queue' \in [0 .. (MAX_SECURITY_QUEUE - 1) -> Ids \cup {-1}]
    <3>1. /\ pos \in 0 .. (MAX_SECURITY_QUEUE - 1) /\ pos + 1 \in 0 .. (MAX_SECURITY_QUEUE - 1)
          /\ pos # pos + 1
          /\ 0 .. (n - 1) \subseteq 0 .. (MAX_SECURITY_QUEUE - 1)
      BY <1>1, <2>3
    <3>2. QED
      BY ONLY <1>1, <1>5, <1>7, <2>4, <3>1
  <2>6. /\ \A k \in Ids : k # i /\ k # j => passengers'[k] = passengers[k]
        /\ passengers'[j] = [passengers[j] EXCEPT !.queue_position = pos]
        /\ passengers'[i] = [passengers[i] EXCEPT !.queue_position = pos + 1,
                                                  !.times_passed = passengers[i].times_passed + 1]
        /\ passengers' = [k \in Ids |-> passengers'[k]]
    BY ONLY <1>1, <1>5, <1>7, <2>4 DEF PassengerInfo
  <2>7. /\ passengers'[j] \in PassengerInfo
        /\ passengers'[j].queue_position = pos
        /\ passengers'[j].active <=> passengers[j].active
        /\ passengers'[j].pid = passengers[j].pid
        /\ passengers'[j].gender = passengers[j].gender
        /\ passengers'[j].status = passengers[j].status
        /\ passengers'[j].in_security_queue <=> passengers[j].in_security_queue
        /\ passengers'[j].security_station_id = passengers[j].security_station_id
    <3>1. passengers[j] \in PassengerInfo /\ pos \in -1 .. (MAX_SECURITY_QUEUE - 1)
      BY <1>1, <2>3, <2>4
    <3>2. QED
      BY ONLY <2>6, <3>1 DEF PassengerInfo
  <2>8. /\ passengers'[i] \in PassengerInfo
        /\ passengers'[i].queue_position = pos + 1
        /\ passengers'[i].active <=> passengers[i].active
        /\ passengers'[i].pid = passengers[i].pid
        /\ passengers'[i].gender = passengers[i].gender
        /\ passengers'[i].status = passengers[i].status
        /\ passengers'[i].in_security_queue <=> passengers[i].in_security_queue
        /\ passengers'[i].security_station_id = passengers[i].security_station_id
    <3>1. passengers[i] \in PassengerInfo /\ pos + 1 \in -1 .. (MAX_SECURITY_QUEUE - 1)
      BY <1>1, <1>5, <2>3
    <3>2. passengers[i].times_passed \in 0 .. MAX_QUEUE_PASSES
      BY ONLY <1>5 DEF PassengerInfo
    <3>3. passengers[i].times_passed + 1 \in 0 .. MAX_QUEUE_PASSES
      BY <1>7, <3>2
    <3>4. QED
      BY ONLY <2>6, <3>1, <3>3 DEF PassengerInfo
  <2>9. passengers' \in [Ids -> PassengerInfo]
    BY ONLY <1>1, <2>6, <2>7, <2>8
  <2>10. \A k \in Ids : /\ passengers'[k].active <=> passengers[k].active
                        /\ passengers'[k].pid = passengers[k].pid
                        /\ passengers'[k].gender = passengers[k].gender
    BY ONLY <2>6, <2>7, <2>8
  <2>11. \A k \in Ids :
           /\ passengers'[k].in_security_queue <=> passengers[k].in_security_queue
           /\ passengers'[k].status = passengers[k].status
           /\ passengers'[k].security_station_id = passengers[k].security_station_id
    BY ONLY <2>6, <2>7, <2>8
  <2>12. QueueMirrorsPassengers'
    <3>1. Distinct(security_queue', n)
      BY ONLY <1>1, <2>1, <2>2, <2>3, <2>4, <2>5, j = security_queue[pos + 1] DEF Distinct, j
    <3>2. \A v : v \in Window(security_queue', n) <=> v \in Window(security_queue, n)
      <4>1. ASSUME NEW v \in Window(security_queue', n) PROVE v \in Window(security_queue, n)
        <5>1. PICK k \in 0 .. (n - 1) : v = security_queue'[k]
          BY DEF Window
        <5>2. QED
          BY ONLY <2>2, <2>3, <2>5, <5>1 DEF Window, j
      <4>2. ASSUME NEW v \in Window(security_queue, n) PROVE v \in Window(security_queue', n)
        <5>1. PICK k \in 0 .. (n - 1) : v = security_queue[k]
          BY DEF Window
        <5>2. QED
          BY ONLY <2>2, <2>3, <2>5, <5>1 DEF Window, j
      <4>3. QED
        BY <4>1, <4>2
    <3>3. ASSUME NEW k \in 0 .. (n - 1)
          PROVE  security_queue'[k] \in Ids /\ passengers'[security_queue'[k]].queue_position = k
      <4>1. CASE k = pos \/ k = pos + 1
        BY <1>5, <2>4, <2>5, <2>7, <2>8, <4>1
      <4>2. CASE k # pos /\ k # pos + 1
        <5>1. security_queue'[k] = security_queue[k] /\ security_queue[k] # i /\ security_queue[k] # j
          BY <2>1, <2>2, <2>4, <2>5, <4>2
        <5>2. QED
          BY <2>1, <2>6, <5>1
      <4>3. QED
        BY <4>1, <4>2
    <3>4. \A k \in Ids : passengers'[k].in_security_queue <=> k \in Window(security_queue', n)
      BY <2>11, <3>2 DEF IInv, QueueMirrorsPassengers, InQueue
    <3>5. security_queue_size' = n /\ security_queue_tail' = n % MAX_SECURITY_QUEUE
      BY <1>7 DEF IInv, QueueMirrorsPassengers
    <3>6. QED
      BY ONLY <3>1, <3>3, <3>4, <3>5 DEF QueueMirrorsPassengers, InQueue
  <2>13. StationsSegregated'
    <3>1. security_stations' = security_stations /\ StationsSegregated
      BY <1>1 DEF IInv
    <3>2. QED
      BY ONLY <2>10, <2>11, <3>1 DEF StationsSegregated, StationWindow
  <2>14. TypeOK'
    BY <1>1, <1>4, <1>7, <2>5, <2>9 DEF IInv, TypeOK
  <2>15. SlotsOwned' /\ WaitersAreQueued' /\ PidsListed' /\ SignalReachesAll' /\ RoundsAndSignal'
    <3>1. /\ pc'[p] \in HoldingPcs \cap ListedPcs \cap WaitingPcs
          /\ pc'[p] # "at_station"
          /\ pc'[p] \notin {"assign", "position", "size", "pass"}
          /\ pc' = [pc EXCEPT ![p] = pc'[p]]
      BY <1>2, <1>3, <1>4
    <3>2. UNCHANGED <<pidVars, captainVars, my_id, stop_boarding_flag, gender>>
      BY <1>1
    <3>3. \A q \in Pids \ {p} : assignment_attempts'[q] = assignment_attempts[q]
      BY <1>4
    <3>4. \A k \in Ids : k # my_id[p] =>
            /\ passengers'[k].in_security_queue <=> passengers[k].in_security_queue
            /\ passengers'[k].status = passengers[k].status
            /\ passengers'[k].security_station_id = passengers[k].security_station_id
      BY <2>11
    <3>5. /\ passengers'[my_id[p]].in_security_queue
          /\ passengers'[my_id[p]].security_station_id = -1
          /\ passengers'[my_id[p]].status = "IN_QUEUE"
      BY <1>5, <2>11 DEF i
    <3>6. QED
      BY ONLY IInv, <1>3, <2>10, <3>1, <3>2, <3>3, <3>4, <3>5, SlotStep
  <2>16. SlotsKept
    BY <1>1, <2>10 DEF SlotsKept
  <2>17. QED
    BY <2>12, <2>13, <2>14, <2>15, <2>16 DEF IInv
<1>8. QED
  BY ZenonT(60), <1>6, <1>7 DEF PassInQueue

-----------------------------------------------------------------------------
(* The invariant and what follows from it. *)

LEMMA PassengerInvariant ==
  ASSUME IInv, NEW p \in Pids, Passenger(p)
  PROVE  IInv'
<1>1. CASE \/ CheckIn(p)      \/ LoopHead(p)  \/ GetQueuePosition(p)
           \/ GetQueueSize(p) \/ LeaveWaitingRoom(p)
  BY <1>1, LocalActions, LocalMoveInvariant
<1>2. CASE RegisterPassengerPid(p)
  BY <1>2, RegisterPassengerPidInvariant
<1>3. CASE RegisterPassenger(p)
  BY <1>3, RegisterPassengerInvariant
<1>4. CASE JoinSecurityQueue(p)
  BY <1>4, JoinSecurityQueueInvariant
<1>5. CASE AssignToSecurityStation(p)
  BY <1>5, AssignToSecurityStationInvariant
<1>6. CASE PassInQueue(p)
  BY <1>6, PassInQueueInvariant
<1>7. CASE LeaveSecurityQueue(p)
  BY <1>7, LeaveSecurityQueueInvariant
<1>8. CASE CompleteSecurityCheck(p)
  BY <1>8, CompleteSecurityCheckInvariant
<1>9. CASE UnregisterPassenger(p)
  BY <1>9, UnregisterPassengerInvariant
<1>10. CASE UnregisterPassengerPid(p)
  BY <1>10, UnregisterPassengerPidInvariant
<1>11. QED
  BY ONLY Passenger(p), <1>1, <1>2, <1>3, <1>4, <1>5, <1>6, <1>7, <1>8, <1>9, <1>10, Zenon
     DEF Passenger

LEMMA StutterInvariant ==
  ASSUME IInv, UNCHANGED vars
  PROVE  IInv'
<1> USE DEF vars, queueVars, pidVars, captainVars, localVars
<1>1. TypeOK'
  BY DEF IInv, TypeOK
<1>2. QueueMirrorsPassengers' /\ StationsSegregated'
  BY DEF IInv, QueueMirrorsPassengers, InQueue, StationsSegregated, StationWindow
<1>3. SlotsOwned' /\ WaitersAreQueued'
  BY DEF IInv, SlotsOwned, WaitersAreQueued
<1>4. PidsListed' /\ SignalReachesAll' /\ RoundsAndSignal'
  BY DEF IInv, PidsListed, Listed, SignalReachesAll, RoundsAndSignal
<1>5. QED
  BY <1>1, <1>2, <1>3, <1>4 DEF IInv

LEMMA NextInvariant == IInv /\ [Next]_vars => IInv'
<1> SUFFICES ASSUME IInv, [Next]_vars PROVE IInv'
  OBVIOUS
<1>1. CASE Captain
  BY <1>1, StopBoardingInvariant, SendSignal2Invariant DEF Captain
<1>2. CASE \E p \in Pids : Passenger(p)
  BY <1>2, PassengerInvariant
<1>3. CASE UNCHANGED vars
  BY <1>3, StutterInvariant
<1>4. QED
  BY <1>1, <1>2, <1>3 DEF Next

\* IInv holds in every reachable state, for any number of processes and any
\* sizes of the arrays.
THEOREM Invariant == Spec => []IInv
<1>1. Init => IInv
  BY InitInvariant
<1>2. IInv /\ [Next]_vars => IInv'
  BY NextInvariant
<1>3. QED
  BY <1>1, <1>2, PTL DEF Spec

\* All shared fields and all locals of the processes keep to their ranges.
THEOREM TypeCorrect == Spec => []TypeOK
<1>1. IInv => TypeOK
  BY DEF IInv
<1>2. QED
  BY <1>1, Invariant, PTL

\* Array, size and tail of security_queue agree with the flags and positions
\* of the passengers through every compaction, swap and reuse of a slot.
THEOREM QueueCorrect == Spec => []QueueMirrorsPassengers
<1>1. IInv => QueueMirrorsPassengers
  BY DEF IInv
<1>2. QED
  BY <1>1, Invariant, PTL

\* No station ever serves both genders, and its list is the set of passengers
\* recorded at it.
THEOREM StationsCorrect == Spec => []StationsSegregated
<1>1. IInv => StationsSegregated
  BY DEF IInv
<1>2. QED
  BY <1>1, Invariant, PTL

\* A slot is handed on only when its process is done with it.
THEOREM SlotsCorrect == Spec => []SlotsOwned
<1>1. IInv => SlotsOwned
  BY DEF IInv
<1>2. QED
  BY <1>1, Invariant, PTL

\* What a process believes about its place is what the shared memory says.
THEOREM WaitersCorrect == Spec => []WaitersAreQueued
<1>1. IInv => WaitersAreQueued
  BY DEF IInv
<1>2. QED
  BY <1>1, Invariant, PTL

\* After the broadcast of SIGUSR2 everybody inside the control knows.
THEOREM SignalCorrect == Spec => []SignalReachesAll
<1>1. IInv => SignalReachesAll
  BY DEF IInv
<1>2. QED
  BY <1>1, Invariant, PTL

\* passenger_pids holds exactly the processes the captain must reach.
THEOREM PidsCorrect == Spec => []PidsListed
<1>1. IInv => PidsListed
  BY DEF IInv
<1>2. QED
  BY <1>1, Invariant, PTL

-----------------------------------------------------------------------------
(* The counter of passengers. *)

ActiveSlots == {i \in Ids : passengers[i].active}

LEMMA CountStep ==
  ASSUME IInv, CountsActive, [Next]_vars
  PROVE  CountsActive'
<1>1. IsFiniteSet(ActiveSlots) /\ total_passengers = Cardinality(ActiveSlots)
  <2>1. IsFiniteSet(Ids) /\ ActiveSlots \subseteq Ids
    BY FS_Interval DEF Ids, ActiveSlots
  <2>2. IsFiniteSet(ActiveSlots)
    BY ONLY <2>1, FS_Subset
  <2>3. QED
    BY <2>2 DEF CountsActive, ActiveSlots
<1>2. CASE SlotsKept
  <2>1. ActiveSlots' = ActiveSlots
    BY <1>2 DEF SlotsKept, ActiveSlots
  <2>2. QED
    BY <1>1, <1>2, <2>1 DEF SlotsKept, CountsActive, ActiveSlots
<1>3. ASSUME NEW p \in Pids, RegisterPassenger(p) PROVE CountsActive'
  <2>1. CASE UNCHANGED <<passengers, total_passengers>>
    BY <1>2, <2>1 DEF SlotsKept
  <2>2. ASSUME NEW i \in Ids, FirstFree(i), total_passengers' = total_passengers + 1,
               passengers' = [passengers EXCEPT ![i] =
                 [active |-> TRUE, pid |-> p, gender |-> gender[p], status |-> "WAITING",
                  security_station_id |-> -1, queue_position |-> -1, times_passed |-> 0,
                  in_security_queue |-> FALSE]]
        PROVE  CountsActive'
    <3>1. i \notin ActiveSlots
      BY <2>2 DEF FirstFree, ActiveSlots
    <3>2. passengers'[i].active /\ \A j \in Ids : j # i => passengers'[j] = passengers[j]
      BY <2>2 DEF IInv, TypeOK
    <3>3. ActiveSlots' = ActiveSlots \cup {i}
      BY <3>2 DEF ActiveSlots
    <3>4. Cardinality(ActiveSlots \cup {i}) = Cardinality(ActiveSlots) + 1
      BY ONLY <1>1, <3>1, FS_AddElement
    <3>5. QED
      BY <1>1, <2>2, <3>3, <3>4 DEF CountsActive, ActiveSlots
  <2>3. QED
    BY <1>3, <2>1, <2>2 DEF RegisterPassenger
<1>4. ASSUME NEW p \in Pids, UnregisterPassenger(p) PROVE CountsActive'
  <2> DEFINE i == my_id[p]
  <2>1. CASE UNCHANGED <<passengers, total_passengers>>
    BY <1>2, <2>1 DEF SlotsKept
  <2>2. CASE /\ passengers[i].active
             /\ passengers' = [passengers EXCEPT ![i].active = FALSE]
             /\ total_passengers' = total_passengers - 1
    <3>1. i \in Ids
      BY <1>4, OwnSlot DEF UnregisterPassenger, HoldingPcs
    <3>2. passengers[i] \in PassengerInfo /\ passengers \in [Ids -> PassengerInfo]
      BY <3>1 DEF IInv, TypeOK
    <3>3. i \in ActiveSlots
      BY <2>2, <3>1 DEF ActiveSlots
    <3>4. ~passengers'[i].active /\ \A j \in Ids : j # i => passengers'[j] = passengers[j]
      BY ONLY <2>2, <3>1, <3>2 DEF PassengerInfo
    <3>5. ActiveSlots' = ActiveSlots \ {i}
      BY <3>4 DEF ActiveSlots
    <3>6. Cardinality(ActiveSlots \ {i}) = Cardinality(ActiveSlots) - 1
      BY ONLY <1>1, <3>3, FS_RemoveElement
    <3>7. QED
      BY <1>1, <2>2, <3>5, <3>6 DEF CountsActive, ActiveSlots
  <2>3. QED
    BY <1>4, <2>1, <2>2 DEF UnregisterPassenger
<1>5. CASE Captain \/ UNCHANGED vars
  BY <1>2, <1>5 DEF Captain, StopBoarding, SendSignal2, vars, SlotsKept
<1>6. ASSUME NEW p \in Pids, Passenger(p) PROVE CountsActive'
  <2>1. CASE \/ CheckIn(p)      \/ LoopHead(p)  \/ GetQueuePosition(p)
             \/ GetQueueSize(p) \/ LeaveWaitingRoom(p)
    BY <1>2, <2>1, LocalActions DEF LocalMove, SlotsKept
  <2>2. CASE RegisterPassengerPid(p) \/ UnregisterPassengerPid(p)
    BY <1>2, <2>2 DEF RegisterPassengerPid, UnregisterPassengerPid, SlotsKept
  <2>3. CASE JoinSecurityQueue(p)
    BY <1>2, <2>3, JoinSecurityQueueInvariant
  <2>4. CASE AssignToSecurityStation(p)
    BY <1>2, <2>4, AssignToSecurityStationInvariant
  <2>5. CASE PassInQueue(p)
    BY <1>2, <2>5, PassInQueueInvariant
  <2>6. CASE LeaveSecurityQueue(p)
    BY <1>2, <2>6, LeaveSecurityQueueInvariant
  <2>7. CASE CompleteSecurityCheck(p)
    BY <1>2, <2>7, CompleteSecurityCheckInvariant
  <2>8. QED
    BY ONLY Passenger(p), p \in Pids, <1>3, <1>4, <2>1, <2>2, <2>3, <2>4, <2>5, <2>6, <2>7, Zenon
       DEF Passenger
<1>7. QED
  BY <1>5, <1>6 DEF Next

\* total_passengers counts the slots in use, for any interleaving of
\* registrations and of the two ways out.
THEOREM CountCorrect == Spec => []CountsActive
<1>1. Init => CountsActive
  <2>1. Init => {i \in Ids : passengers[i].active} = {}
    BY DEF Init
  <2>2. QED
    BY <2>1, FS_EmptySet DEF Init, CountsActive
<1>2. IInv /\ CountsActive /\ [Next]_vars => CountsActive'
  BY CountStep
<1>3. QED
  BY <1>1, <1>2, Invariant, PTL DEF Spec

-----------------------------------------------------------------------------
(* The effect of signal 2. *)

LEMMA AdmissionStep ==
  ASSUME IInv, [Next]_vars, signal2_received, NEW p \in Pids, pc'[p] \in InsidePcs
  PROVE  pc[p] \in InsidePcs
<1> USE DEF InsidePcs, WaitingPcs
<1>1. pc \in [Pids -> Pcs] /\ ~boarding_allowed
  BY DEF IInv, TypeOK, RoundsAndSignal
<1>2. CASE Captain \/ UNCHANGED vars
  BY ZenonT(60), <1>1, <1>2 DEF Captain, StopBoarding, SendSignal2, vars
<1>3. ASSUME NEW q \in Pids, Passenger(q) PROVE pc[p] \in InsidePcs
  <2>1. CASE q # p
    <3>1. pc' = [pc EXCEPT ![q] = pc'[q]]
      BY ZenonT(60), <1>1, <1>3 DEF Passenger, RegisterPassengerPid, RegisterPassenger, CheckIn,
           JoinSecurityQueue, LoopHead, AssignToSecurityStation, GetQueuePosition,
           GetQueueSize, PassInQueue, LeaveSecurityQueue, CompleteSecurityCheck,
           LeaveWaitingRoom, UnregisterPassenger, UnregisterPassengerPid, NextRound, Exit, Goto
    <3>2. QED
      BY <1>1, <2>1, <3>1
  <2>2. CASE CheckIn(p)
    BY <1>1, <2>2 DEF CheckIn, Goto
  <2>3. CASE \/ JoinSecurityQueue(p) \/ LoopHead(p) \/ AssignToSecurityStation(p)
             \/ GetQueuePosition(p) \/ GetQueueSize(p) \/ PassInQueue(p)
             \/ LeaveSecurityQueue(p) \/ CompleteSecurityCheck(p) \/ LeaveWaitingRoom(p)
    BY ZenonT(60), <2>3 DEF JoinSecurityQueue, LoopHead, AssignToSecurityStation, GetQueuePosition,
         GetQueueSize, PassInQueue, LeaveSecurityQueue, CompleteSecurityCheck, LeaveWaitingRoom
  <2>4. CASE \/ RegisterPassengerPid(p) \/ RegisterPassenger(p)
             \/ UnregisterPassenger(p) \/ UnregisterPassengerPid(p)
    BY <1>1, <2>4 DEF RegisterPassengerPid, RegisterPassenger, UnregisterPassenger,
         UnregisterPassengerPid, Goto, Exit
  <2>5. QED
    BY <1>3, <2>1, <2>2, <2>3, <2>4 DEF Passenger
<1>4. QED
  BY <1>2, <1>3 DEF Next

\* Once SIGUSR2 is out, no process gets past the check-in any more.
THEOREM AdmissionCorrect == Spec => NoLateAdmission
<1>1. IInv /\ [Next]_vars =>
        [signal2_received => \A p \in Pids : pc'[p] \in InsidePcs => pc[p] \in InsidePcs]_vars
  BY AdmissionStep
<1>2. QED
  BY <1>1, Invariant, PTL DEF Spec, NoLateAdmission

=============================================================================
