---------------------- MODULE ControlRefinementProofs ----------------------
(***************************************************************************)
(* SecurityControl implements the contract of the waiting room and the     *)
(* checkpoint, for any number of passengers and any sizes.  Both are about *)
(* people, so the proofs first say what a step means for people: whoever   *)
(* does not take the step keeps its slot and what is recorded there, only  *)
(* its position in the queue may change.                                   *)
(***************************************************************************)
EXTENDS SecurityControlProofs, SequenceTheorems

Info(q) == passengers[my_id[q]]
Holds(q) == my_id[q] \in Ids /\ Info(q).active /\ Info(q).pid = q

\* What a slot says beside the owner and the position.
SameRecord(new, old) ==
  /\ new.in_security_queue <=> old.in_security_queue
  /\ new.security_station_id = old.security_station_id
  /\ new.status = old.status
  /\ new.times_passed = old.times_passed

Keeps(q) ==
  /\ Holds(q)' <=> Holds(q)
  /\ Holds(q) => my_id'[q] = my_id[q] /\ SameRecord(Info(q)', Info(q))

\* For everybody but p nothing changes, apart from positions.
OthersKeep(p) ==
  \A q \in Pids \ {p} :
    /\ Keeps(q)
    /\ pc'[q] = pc[q]
    /\ stop_boarding_flag'[q] <=> stop_boarding_flag[q]

\* The holder of a slot is the one the slot names.
LEMMA HoldersAreActive ==
  ASSUME IInv
  PROVE  /\ \A q \in Pids : pc[q] \in HoldingPcs => Holds(q)
         /\ \A q \in Pids : Holds(q) => pc[q] \in HoldingPcs \cup {"killed"}
         /\ \A i \in Ids : passengers[i].active =>
              /\ passengers[i].pid \in Pids
              /\ Holds(passengers[i].pid)
              /\ my_id[passengers[i].pid] = i
BY DEF IInv, SlotsOwned, Holds, Info

\* Slot i is p's, and every other one stays as it is but for the position.
OtherSlotsStay(p, i) ==
  /\ i \in Ids
  /\ passengers[i].active => passengers[i].pid = p
  /\ passengers'[i].active => passengers'[i].pid = p
  /\ \A j \in Ids \ {i} :
       /\ passengers'[j].active <=> passengers[j].active
       /\ passengers'[j].pid = passengers[j].pid
       /\ SameRecord(passengers'[j], passengers[j])

LEMMA OthersKeepTheirs ==
  ASSUME NEW p \in Pids, NEW i \in Ids, OtherSlotsStay(p, i),
         \A q \in Pids \ {p} :
           /\ my_id'[q] = my_id[q] /\ pc'[q] = pc[q]
           /\ stop_boarding_flag'[q] <=> stop_boarding_flag[q]
  PROVE  OthersKeep(p)
<1> SUFFICES ASSUME NEW q \in Pids \ {p} PROVE Keeps(q)
  BY DEF OthersKeep
<1>1. CASE my_id[q] = i
  <2>1. ~Holds(q) /\ ~Holds(q)'
    BY <1>1 DEF Holds, Info, OtherSlotsStay
  <2>2. QED
    BY <2>1 DEF Keeps
<1>2. CASE my_id[q] # i
  <2>1. CASE my_id[q] \in Ids
    BY <1>2, <2>1 DEF Keeps, Holds, Info, OtherSlotsStay
  <2>2. CASE my_id[q] \notin Ids
    BY <2>2 DEF Keeps, Holds, Info
  <2>3. QED
    BY <2>1, <2>2
<1>3. QED
  BY <1>1, <1>2

\* A step that writes no slot.
LEMMA OthersKeepAll ==
  ASSUME NEW p \in Pids, passengers' = passengers,
         \A q \in Pids \ {p} :
           /\ my_id'[q] = my_id[q] /\ pc'[q] = pc[q]
           /\ stop_boarding_flag'[q] <=> stop_boarding_flag[q]
  PROVE  OthersKeep(p)
BY DEF OthersKeep, Keeps, Holds, Info, SameRecord

-----------------------------------------------------------------------------
(* What each step of a passenger changes. *)

OwnLocals(p) ==
  /\ pc' = [pc EXCEPT ![p] = pc'[p]]
  /\ \A q \in Pids \ {p} :
       /\ my_id'[q] = my_id[q] /\ pc'[q] = pc[q]
       /\ stop_boarding_flag'[q] <=> stop_boarding_flag[q]
  /\ stop_boarding_flag'[p] => stop_boarding_flag[p]
  /\ UNCHANGED <<captainVars, gender>>

\* No passenger touches the locals of another one or the flags of the captain.
LEMMA LocalsAreOwn ==
  ASSUME IInv, NEW p \in Pids, Passenger(p)
  PROVE  OwnLocals(p)
<1> USE DEF OwnLocals, Goto, localVars
<1>0. /\ pc \in [Pids -> Pcs] /\ my_id \in [Pids -> Ids \cup {-1}]
      /\ stop_boarding_flag \in [Pids -> BOOLEAN]
  BY DEF IInv, TypeOK
<1>1. CASE \/ CheckIn(p) \/ LoopHead(p) \/ GetQueuePosition(p) \/ GetQueueSize(p)
           \/ LeaveWaitingRoom(p)
  BY <1>0, <1>1, LocalActions DEF LocalMove
<1>2. CASE RegisterPassengerPid(p)
  BY <1>0, <1>2 DEF RegisterPassengerPid
<1>3. CASE RegisterPassenger(p)
  <2>1. pc' = [pc EXCEPT ![p] = pc'[p]]
    BY <1>0, <1>3 DEF RegisterPassenger
  <2>2. my_id' = my_id \/ \E i \in Ids : my_id' = [my_id EXCEPT ![p] = i]
    BY <1>3 DEF RegisterPassenger
  <2>3. UNCHANGED <<captainVars, gender, stop_boarding_flag>>
    BY <1>3 DEF RegisterPassenger
  <2>4. QED
    BY ONLY <1>0, <2>1, <2>2, <2>3 DEF OwnLocals
<1>4. CASE JoinSecurityQueue(p)
  BY <1>0, <1>4 DEF JoinSecurityQueue
<1>5. CASE AssignToSecurityStation(p)
  <2>1. pc' = [pc EXCEPT ![p] = pc'[p]]
    BY <1>0, <1>5, ZenonT(60) DEF AssignToSecurityStation
  <2>2. UNCHANGED <<captainVars, localVars>>
    BY <1>5, ZenonT(60) DEF AssignToSecurityStation
  <2>3. QED
    BY ONLY <1>0, <2>1, <2>2 DEF OwnLocals, localVars
<1>6. CASE PassInQueue(p)
  <2>1. pc' = [pc EXCEPT ![p] = "loop"]
    BY <1>6, ZenonT(60) DEF PassInQueue, NextRound
  <2>2. UNCHANGED <<captainVars, my_id, stop_boarding_flag, gender>>
    BY <1>6, ZenonT(60) DEF PassInQueue
  <2>3. QED
    BY ONLY <1>0, <2>1, <2>2 DEF OwnLocals
<1>7. CASE LeaveSecurityQueue(p)
  BY <1>0, <1>7 DEF LeaveSecurityQueue
<1>8. CASE CompleteSecurityCheck(p)
  <2>1. pc' = [pc EXCEPT ![p] = pc'[p]]
    BY <1>0, <1>8 DEF CompleteSecurityCheck
  <2>2. UNCHANGED <<captainVars, localVars>>
    BY <1>8 DEF CompleteSecurityCheck
  <2>3. QED
    BY ONLY <1>0, <2>1, <2>2 DEF OwnLocals, localVars
<1>9. CASE UnregisterPassenger(p) \/ UnregisterPassengerPid(p)
  <2>1. pc' = [pc EXCEPT ![p] = pc'[p]] /\ UNCHANGED <<captainVars, gender>>
    BY <1>0, <1>9 DEF UnregisterPassenger, UnregisterPassengerPid, Exit
  <2>2. \/ UNCHANGED <<my_id, stop_boarding_flag>>
        \/ /\ my_id' = [my_id EXCEPT ![p] = -1]
           /\ stop_boarding_flag' = [stop_boarding_flag EXCEPT ![p] = FALSE]
    BY <1>9 DEF UnregisterPassenger, UnregisterPassengerPid, Exit
  <2>3. QED
    BY ONLY <1>0, <2>1, <2>2 DEF OwnLocals
<1>10. QED
  BY ONLY Passenger(p), <1>1, <1>2, <1>3, <1>4, <1>5, <1>6, <1>7, <1>8, <1>9, Zenon
     DEF Passenger

\* ipc_register_passenger: a slot that was nobody's, cleared.
Registers(p) ==
  /\ pc[p] = "register" /\ pc'[p] = "check"
  /\ ~Holds(p) /\ Holds(p)'
  /\ Info(p)'.status = "WAITING"
  /\ Info(p)'.times_passed = 0
  /\ UNCHANGED <<queueVars, security_stations>>

LEMMA RegisterEffect ==
  ASSUME IInv, IInv', NEW p \in Pids, RegisterPassenger(p), pc'[p] # "unregister_pid"
  PROVE  OthersKeep(p) /\ Registers(p)
<1>1. PICK i \in Ids :
        /\ FirstFree(i)
        /\ passengers' = [passengers EXCEPT ![i] =
             [active |-> TRUE, pid |-> p, gender |-> gender[p], status |-> "WAITING",
              security_station_id |-> -1, queue_position |-> -1, times_passed |-> 0,
              in_security_queue |-> FALSE]]
        /\ my_id' = [my_id EXCEPT ![p] = i]
        /\ pc' = [pc EXCEPT ![p] = "check"]
  <2>1. pc' # [pc EXCEPT ![p] = "unregister_pid"]
    BY DEF IInv, TypeOK
  <2>2. QED
    BY <2>1 DEF RegisterPassenger, Goto
<1>2. /\ pc[p] = "register" /\ pc \in [Pids -> Pcs] /\ my_id \in [Pids -> Ids \cup {-1}]
      /\ passengers \in [Ids -> PassengerInfo]
      /\ UNCHANGED <<queueVars, security_stations>>
  BY DEF RegisterPassenger, IInv, TypeOK
<1>3. /\ \A j \in Ids \ {i} : passengers'[j] = passengers[j]
      /\ passengers'[i].status = "WAITING" /\ passengers'[i].times_passed = 0
      /\ passengers'[i].pid = p
  BY <1>1, <1>2
<1>4. pc'[p] = "check" /\ my_id'[p] = i /\ ~passengers[i].active
  BY <1>1, <1>2 DEF FirstFree
<1>5. OtherSlotsStay(p, i)
  BY <1>3, <1>4 DEF OtherSlotsStay, SameRecord
<1>6. OthersKeep(p)
  <2>1. OwnLocals(p)
    BY LocalsAreOwn DEF Passenger
  <2>2. QED
    BY <1>5, <2>1, OthersKeepTheirs DEF OwnLocals
<1>7. ~Holds(p)
  BY <1>2, HoldersAreActive DEF HoldingPcs, InsidePcs, WaitingPcs
<1>8. Holds(p)'
  <2>1. (IInv => (\A q \in Pids : pc[q] \in HoldingPcs => Holds(q)))'
    BY HoldersAreActive, PTL
  <2>2. QED
    BY <1>4, <2>1 DEF HoldingPcs
<1>9. QED
  BY <1>2, <1>3, <1>4, <1>6, <1>7, <1>8 DEF Registers, Info

\* A step of p that writes, beside positions, only in the slot of p.
LEMMA OthersKeepInOwn ==
  ASSUME IInv, NEW p \in Pids, Passenger(p), pc[p] \in HoldingPcs,
         passengers'[my_id[p]].pid = p,
         \A j \in Ids \ {my_id[p]} :
           /\ passengers'[j].active <=> passengers[j].active
           /\ passengers'[j].pid = passengers[j].pid
           /\ SameRecord(passengers'[j], passengers[j])
  PROVE  OthersKeep(p)
<1>1. PICK i \in Ids : i = my_id[p]
  BY OwnSlot
<1>2. OtherSlotsStay(p, i)
  BY <1>1, OwnSlot DEF OtherSlotsStay
<1>3. OwnLocals(p)
  BY LocalsAreOwn
<1>4. QED
  BY <1>2, <1>3, OthersKeepTheirs DEF OwnLocals

\* ipc_join_security_queue: behind the last.
Joins(p) ==
  /\ pc[p] = "join" /\ pc'[p] = "loop"
  /\ ~Info(p).in_security_queue /\ Info(p)'.in_security_queue
  /\ Info(p).security_station_id = -1 /\ Info(p)'.security_station_id = -1
  /\ Info(p)'.times_passed = Info(p).times_passed
  /\ Info(p)'.status = "IN_QUEUE"
  /\ security_queue_size' = security_queue_size + 1
  /\ IsAppended(security_queue, security_queue', security_queue_size, my_id[p])

LEMMA JoinEffect ==
  ASSUME IInv, NEW p \in Pids, JoinSecurityQueue(p), pc'[p] # "unregister"
  PROVE  OthersKeep(p) /\ Joins(p) /\ my_id'[p] = my_id[p]
<1> DEFINE i == my_id[p]
           n == security_queue_size
<1>1. /\ pc[p] = "join" /\ pc \in [Pids -> Pcs] /\ n \in 0 .. MAX_SECURITY_QUEUE
      /\ security_queue \in [0 .. (MAX_SECURITY_QUEUE - 1) -> Ids \cup {-1}]
      /\ passengers \in [Ids -> PassengerInfo]
      /\ my_id' = my_id
  BY DEF JoinSecurityQueue, IInv, TypeOK, localVars
<1>2. pc[p] \in HoldingPcs \ (WaitingPcs \cup {"at_station"})
  BY <1>1 DEF HoldingPcs, InsidePcs, WaitingPcs
<1>3. /\ i \in Ids /\ passengers[i] \in PassengerInfo /\ passengers[i].pid = p
      /\ ~passengers[i].in_security_queue /\ passengers[i].security_station_id = -1
  BY <1>2, OwnSlot DEF IInv, WaitersAreQueued
<1>4. /\ n < MAX_SECURITY_QUEUE
      /\ security_queue' = [security_queue EXCEPT ![security_queue_tail] = i]
      /\ security_queue_size' = n + 1
      /\ passengers' = [passengers EXCEPT ![i].in_security_queue = TRUE,
                                          ![i].queue_position = n,
                                          ![i].status = "IN_QUEUE"]
      /\ pc' = [pc EXCEPT ![p] = "loop"]
  BY <1>1 DEF JoinSecurityQueue, Goto
<1>5. pc'[p] = "loop"
  BY <1>1, <1>4
<1>6. /\ \A j \in Ids \ {i} : passengers'[j] = passengers[j]
      /\ passengers'[i] = [passengers[i] EXCEPT !.in_security_queue = TRUE,
                                                !.queue_position = n, !.status = "IN_QUEUE"]
  BY ONLY <1>1, <1>3, <1>4
<1>7. /\ passengers'[i].pid = p
      /\ passengers'[i].in_security_queue
      /\ passengers'[i].status = "IN_QUEUE"
      /\ passengers'[i].security_station_id = -1
      /\ passengers'[i].times_passed = passengers[i].times_passed
  BY ONLY <1>3, <1>6 DEF PassengerInfo
<1>8. security_queue_tail = n /\ n \in 0 .. (MAX_SECURITY_QUEUE - 1)
  <2>1. security_queue_tail = n % MAX_SECURITY_QUEUE
    BY DEF IInv, QueueMirrorsPassengers
  <2>2. n \in Nat /\ n < MAX_SECURITY_QUEUE
    BY <1>1, <1>4
  <2> HIDE DEF n
  <2>3. QED
    BY ONLY <2>1, <2>2, SizesAssumption
<1>9. IsAppended(security_queue, security_queue', n, i)
  BY ONLY <1>1, <1>4, <1>8 DEF IsAppended
<1>10. OthersKeep(p)
  <2>1. \A j \in Ids \ {i} :
          /\ passengers'[j].active <=> passengers[j].active
          /\ passengers'[j].pid = passengers[j].pid
          /\ SameRecord(passengers'[j], passengers[j])
    BY ONLY <1>6 DEF SameRecord
  <2>2. QED
    BY <1>2, <1>7, <2>1, OthersKeepInOwn DEF Passenger
<1>11. QED
  BY <1>1, <1>3, <1>4, <1>5, <1>7, <1>9, <1>10 DEF Joins, Info

\* The queue without slot i, the others in their order.
TakenOut(i) ==
  /\ security_queue_size' = security_queue_size - 1
  /\ \E c \in 0 .. (security_queue_size - 1) :
       /\ security_queue[c] = i
       /\ \A k \in 0 .. (security_queue_size - 2) :
            security_queue'[k] = IF k < c THEN security_queue[k] ELSE security_queue[k + 1]

\* What the slot of p says after p left the queue, for the station s or for none.
LeavesLine(p, s) ==
  /\ Info(p).in_security_queue /\ ~Info(p)'.in_security_queue
  /\ Info(p).security_station_id = -1 /\ Info(p)'.security_station_id = s
  /\ Info(p).status = "IN_QUEUE" /\ Info(p)'.status # "SECURITY_PASSED"
  /\ TakenOut(my_id[p])

\* ipc_leave_security_queue.
LEMMA LeaveQueueEffect ==
  ASSUME IInv, NEW p \in Pids, LeaveSecurityQueue(p)
  PROVE  /\ OthersKeep(p) /\ LeavesLine(p, -1) /\ my_id'[p] = my_id[p]
         /\ pc[p] = "leave_queue" /\ pc'[p] = "unregister"
<1> DEFINE i == my_id[p]
<1>1. /\ pc[p] = "leave_queue" /\ pc'[p] = "unregister"
      /\ passengers \in [Ids -> PassengerInfo]
      /\ my_id' = my_id
  BY DEF LeaveSecurityQueue, IInv, TypeOK, localVars, Goto
<1>2. pc[p] \in WaitingPcs \cap HoldingPcs
  BY <1>1 DEF HoldingPcs, InsidePcs, WaitingPcs
<1>3. /\ i \in Ids /\ passengers[i].pid = p /\ passengers[i].status = "IN_QUEUE"
      /\ passengers[i].in_security_queue /\ passengers[i].security_station_id = -1
  BY <1>2, OwnSlot DEF IInv, WaitersAreQueued
<1>4. InQueue(i) /\ Dequeue(passengers, i)
  BY <1>3 DEF LeaveSecurityQueue, IInv, QueueMirrorsPassengers
<1>5. \A j \in Ids : passengers'[j].in_security_queue <=> passengers[j].in_security_queue /\ j # i
  BY <1>1, <1>3, <1>4, Dequeued
<1>6. \A j \in Ids : /\ passengers'[j].active <=> passengers[j].active
                     /\ passengers'[j].pid = passengers[j].pid
                     /\ passengers'[j].status = passengers[j].status
                     /\ passengers'[j].security_station_id = passengers[j].security_station_id
                     /\ passengers'[j].times_passed = passengers[j].times_passed
  BY <1>1, <1>3, <1>4, Dequeued
<1>7. TakenOut(i)
  BY <1>1, <1>3, <1>4, Dequeued DEF TakenOut
<1>8. OthersKeep(p)
  <2>1. \A j \in Ids \ {i} :
          /\ passengers'[j].active <=> passengers[j].active
          /\ passengers'[j].pid = passengers[j].pid
          /\ SameRecord(passengers'[j], passengers[j])
    BY ONLY <1>5, <1>6 DEF SameRecord
  <2>2. QED
    BY <1>2, <1>3, <1>6, <2>1, OthersKeepInOwn DEF Passenger
<1>9. QED
  BY <1>1, <1>3, <1>5, <1>6, <1>7, <1>8 DEF LeavesLine, Info

\* ipc_assign_to_security_station, when it finds a station.
LEMMA AssignEffect ==
  ASSUME IInv, NEW p \in Pids, AssignToSecurityStation(p), pc'[p] # "position"
  PROVE  /\ OthersKeep(p) /\ my_id'[p] = my_id[p]
         /\ pc[p] = "assign" /\ pc'[p] = "at_station"
         /\ \E s \in Stations : Usable(s, gender[p]) /\ LeavesLine(p, s)
<1> DEFINE i == my_id[p]
<1>1. /\ pc[p] = "assign" /\ pc \in [Pids -> Pcs]
      /\ passengers \in [Ids -> PassengerInfo]
      /\ my_id' = my_id
  BY ZenonT(60) DEF AssignToSecurityStation, IInv, TypeOK, localVars
<1>2. pc[p] \in WaitingPcs \cap HoldingPcs
  BY <1>1 DEF HoldingPcs, InsidePcs, WaitingPcs
<1>3. /\ i \in Ids /\ passengers[i] \in PassengerInfo /\ passengers[i].pid = p
      /\ passengers[i].gender = gender[p] /\ passengers[i].status = "IN_QUEUE"
      /\ passengers[i].in_security_queue /\ passengers[i].security_station_id = -1
  BY <1>2, OwnSlot DEF IInv, WaitersAreQueued, SlotsOwned
<1>4. PICK s \in Stations :
        /\ FirstUsable(s, passengers[i].gender)
        /\ Dequeue([passengers EXCEPT ![i].security_station_id = s,
                                      ![i].status = "AT_SECURITY"], i)
        /\ pc' = [pc EXCEPT ![p] = "at_station"]
  <2>1. pc' # [pc EXCEPT ![p] = "position"]
    BY <1>1
  <2>2. QED
    BY <2>1, ZenonT(60) DEF AssignToSecurityStation, Goto
<1> DEFINE ps == [passengers EXCEPT ![i].security_station_id = s, ![i].status = "AT_SECURITY"]
<1>5. /\ \A j \in Ids : j # i => ps[j] = passengers[j]
      /\ ps[i] = [passengers[i] EXCEPT !.security_station_id = s, !.status = "AT_SECURITY"]
      /\ ps = [j \in Ids |-> ps[j]]
  BY ONLY <1>1, <1>3
<1>6. Dequeue(ps, i)
  BY <1>4
<1> HIDE DEF ps
<1>7. /\ ps[i] \in PassengerInfo
      /\ ps[i].active <=> passengers[i].active
      /\ ps[i].pid = passengers[i].pid
      /\ ps[i].in_security_queue <=> passengers[i].in_security_queue
      /\ ps[i].security_station_id = s
      /\ ps[i].status = "AT_SECURITY"
  <2>1. s \in Stations \cup {-1} /\ passengers[i] \in PassengerInfo
    BY <1>3
  <2>2. QED
    BY ONLY ZenonT(60), <1>5, <2>1 DEF PassengerInfo, Statuses
<1>8. ps \in [Ids -> PassengerInfo]
  BY ONLY <1>1, <1>3, <1>5, <1>7
<1>9. InQueue(i)
  BY <1>3 DEF IInv, QueueMirrorsPassengers
<1>10. \A j \in Ids : ps[j].in_security_queue <=> passengers[j].in_security_queue
  BY <1>5, <1>7
<1>11. /\ \A j \in Ids : passengers'[j].in_security_queue
                           <=> passengers[j].in_security_queue /\ j # i
       /\ \A j \in Ids : /\ passengers'[j].active <=> ps[j].active
                         /\ passengers'[j].pid = ps[j].pid
                         /\ passengers'[j].status = ps[j].status
                         /\ passengers'[j].security_station_id = ps[j].security_station_id
                         /\ passengers'[j].times_passed = ps[j].times_passed
  BY ONLY IInv, <1>3, <1>6, <1>8, <1>9, <1>10, Dequeued
<1>12. TakenOut(i)
  BY ONLY IInv, <1>3, <1>6, <1>8, <1>9, <1>10, Dequeued DEF TakenOut
<1>13. OthersKeep(p)
  <2>1. \A j \in Ids \ {i} :
          /\ passengers'[j].active <=> passengers[j].active
          /\ passengers'[j].pid = passengers[j].pid
          /\ SameRecord(passengers'[j], passengers[j])
    BY ONLY <1>5, <1>11 DEF SameRecord
  <2>2. passengers'[i].pid = p
    BY ONLY <1>3, <1>7, <1>11
  <2>3. QED
    BY <1>2, <2>1, <2>2, OthersKeepInOwn DEF Passenger
<1>14. LeavesLine(p, s)
  <2>1. /\ ~passengers'[i].in_security_queue
        /\ passengers'[i].security_station_id = s
        /\ passengers'[i].status = "AT_SECURITY"
    BY ONLY <1>3, <1>7, <1>11
  <2>2. QED
    BY <1>1, <1>3, <1>12, <2>1 DEF LeavesLine, Info
<1>15. QED
  BY <1>1, <1>3, <1>4, <1>13, <1>14 DEF FirstUsable

\* ipc_pass_in_queue: p and the one behind it change places.
LetsPass(p) ==
  /\ Info(p).in_security_queue /\ Info(p)'.in_security_queue
  /\ Info(p)'.security_station_id = Info(p).security_station_id
  /\ Info(p)'.status = Info(p).status
  /\ Info(p).times_passed < MAX_QUEUE_PASSES
  /\ Info(p)'.times_passed = Info(p).times_passed + 1
  /\ security_queue_size' = security_queue_size
  /\ \E c \in 0 .. (security_queue_size - 2) :
       /\ security_queue[c] = my_id[p]
       /\ security_queue'[c] = security_queue[c + 1]
       /\ security_queue'[c + 1] = my_id[p]
       /\ \A k \in 0 .. (security_queue_size - 1) :
            k # c /\ k # c + 1 => security_queue'[k] = security_queue[k]

LEMMA PassEffect ==
  ASSUME IInv, NEW p \in Pids, PassInQueue(p), ~UNCHANGED <<passengers, queueVars>>
  PROVE  /\ OthersKeep(p) /\ LetsPass(p) /\ my_id'[p] = my_id[p]
         /\ pc[p] = "pass" /\ pc'[p] = "loop"
<1> DEFINE i == my_id[p]
           n == security_queue_size
           pos == passengers[i].queue_position
           j == security_queue[pos + 1]
<1>1. /\ pc[p] = "pass" /\ pc \in [Pids -> Pcs]
      /\ passengers \in [Ids -> PassengerInfo]
      /\ security_queue \in [0 .. (MAX_SECURITY_QUEUE - 1) -> Ids \cup {-1}]
      /\ n \in 0 .. MAX_SECURITY_QUEUE
      /\ my_id' = my_id
      /\ pc' = [pc EXCEPT ![p] = "loop"]
  BY ZenonT(60) DEF PassInQueue, IInv, TypeOK, NextRound, Goto
<1>2. pc[p] \in WaitingPcs \cap HoldingPcs
  BY <1>1 DEF HoldingPcs, InsidePcs, WaitingPcs
<1>3. /\ i \in Ids /\ passengers[i] \in PassengerInfo /\ passengers[i].pid = p
      /\ passengers[i].in_security_queue
  BY <1>2, OwnSlot DEF IInv, WaitersAreQueued
<1>4. /\ passengers[i].times_passed < MAX_QUEUE_PASSES
      /\ pos < n - 1
      /\ passengers' = [passengers EXCEPT ![i].queue_position = passengers[j].queue_position,
                                          ![j].queue_position = pos,
                                          ![i].times_passed = @ + 1]
      /\ security_queue' = [security_queue EXCEPT ![pos] = j, ![pos + 1] = i]
      /\ security_queue_size' = n
  BY ZenonT(60) DEF PassInQueue
<1>5. /\ \A k \in 0 .. (n - 1) : security_queue[k] \in Ids
                                 /\ passengers[security_queue[k]].queue_position = k
      /\ i \in Window(security_queue, n)
  BY <1>3 DEF IInv, QueueMirrorsPassengers, InQueue
<1>6. pos \in 0 .. (n - 1) /\ security_queue[pos] = i
  BY <1>5 DEF Window
<1>7. pos \in 0 .. (n - 2) /\ pos + 1 \in 0 .. (n - 1)
  <2>1. n \in Int /\ pos \in 0 .. (n - 1)
    BY <1>1, <1>6
  <2>2. pos < n - 1
    BY ONLY <1>4, Zenon
  <2> HIDE DEF pos, n
  <2>3. QED
    BY ONLY <2>1, <2>2
<1>8. j \in Ids /\ j # i
  BY <1>5, <1>6, <1>7
<1> HIDE DEF i, j, pos
<1>9. /\ \A k \in 0 .. (n - 1) : k # pos /\ k # pos + 1 => security_queue'[k] = security_queue[k]
      /\ security_queue'[pos] = j /\ security_queue'[pos + 1] = i
  <2>1. /\ pos \in 0 .. (MAX_SECURITY_QUEUE - 1) /\ pos + 1 \in 0 .. (MAX_SECURITY_QUEUE - 1)
        /\ pos # pos + 1
        /\ 0 .. (n - 1) \subseteq 0 .. (MAX_SECURITY_QUEUE - 1)
    BY ONLY <1>1, <1>7, SizesAssumption
  <2>2. QED
    BY ONLY <1>1, <1>4, <2>1
<1>10. /\ \A k \in Ids \ {i, j} : passengers'[k] = passengers[k]
       /\ passengers'[j] = [passengers[j] EXCEPT !.queue_position = pos]
       /\ passengers'[i] = [passengers[i] EXCEPT !.queue_position = passengers[j].queue_position,
                                                 !.times_passed = passengers[i].times_passed + 1]
  BY ONLY <1>1, <1>3, <1>4, <1>8 DEF PassengerInfo
<1>11. /\ passengers'[j].active <=> passengers[j].active
       /\ passengers'[j].pid = passengers[j].pid
       /\ SameRecord(passengers'[j], passengers[j])
  <2>1. passengers[j] \in PassengerInfo
    BY <1>1, <1>8
  <2>2. QED
    BY ONLY <1>10, <2>1 DEF PassengerInfo, SameRecord
<1>12. /\ passengers'[i].pid = p
       /\ passengers'[i].in_security_queue
       /\ passengers'[i].status = passengers[i].status
       /\ passengers'[i].security_station_id = passengers[i].security_station_id
       /\ passengers'[i].times_passed = passengers[i].times_passed + 1
  BY ONLY <1>3, <1>10 DEF PassengerInfo
<1>13. OthersKeep(p)
  <2>1. \A k \in Ids \ {i} :
          /\ passengers'[k].active <=> passengers[k].active
          /\ passengers'[k].pid = passengers[k].pid
          /\ SameRecord(passengers'[k], passengers[k])
    BY ONLY <1>10, <1>11 DEF SameRecord
  <2>2. QED
    BY <1>2, <1>12, <2>1, OthersKeepInOwn DEF Passenger, i
<1>14. \E c \in 0 .. (n - 2) :
         /\ security_queue[c] = i
         /\ security_queue'[c] = security_queue[c + 1]
         /\ security_queue'[c + 1] = i
         /\ \A k \in 0 .. (n - 1) : k # c /\ k # c + 1 => security_queue'[k] = security_queue[k]
  BY ONLY <1>6, <1>7, <1>9 DEF j
<1>15. QED
  BY <1>1, <1>3, <1>4, <1>12, <1>13, <1>14 DEF LetsPass, Info, i

\* ipc_complete_security_check.
Completes(p) ==
  /\ ~Info(p).in_security_queue /\ ~Info(p)'.in_security_queue
  /\ Info(p).security_station_id \in Stations /\ Info(p)'.security_station_id = -1
  /\ Info(p).status = "AT_SECURITY" /\ Info(p)'.status = "SECURITY_PASSED"

LEMMA CompleteEffect ==
  ASSUME IInv, NEW p \in Pids, CompleteSecurityCheck(p)
  PROVE  /\ OthersKeep(p) /\ Completes(p) /\ my_id'[p] = my_id[p]
         /\ pc[p] = "at_station" /\ pc'[p] = "waiting_room"
         /\ UNCHANGED queueVars
<1> DEFINE i == my_id[p]
           s == passengers[i].security_station_id
<1>1. /\ pc[p] = "at_station" /\ pc \in [Pids -> Pcs]
      /\ passengers \in [Ids -> PassengerInfo]
      /\ my_id' = my_id /\ UNCHANGED queueVars
  BY DEF CompleteSecurityCheck, IInv, TypeOK, localVars
<1>2. pc[p] \in HoldingPcs
  BY <1>1 DEF HoldingPcs, InsidePcs
<1>3. /\ i \in Ids /\ passengers[i] \in PassengerInfo /\ passengers[i].pid = p
      /\ ~passengers[i].in_security_queue
      /\ s >= 0 /\ passengers[i].status = "AT_SECURITY"
  BY <1>1, <1>2, OwnSlot DEF IInv, WaitersAreQueued
<1>4. s \in Stations
  <2>1. s \in Stations \cup {-1}
    BY ONLY <1>3 DEF PassengerInfo
  <2>2. QED
    BY <1>3, <2>1
<1>5. /\ passengers' = [passengers EXCEPT ![i].security_station_id = -1,
                                          ![i].status = "SECURITY_PASSED"]
      /\ pc' = [pc EXCEPT ![p] = "waiting_room"]
  BY <1>3 DEF CompleteSecurityCheck, Goto
<1>6. /\ \A j \in Ids \ {i} : passengers'[j] = passengers[j]
      /\ passengers'[i] = [passengers[i] EXCEPT !.security_station_id = -1,
                                                !.status = "SECURITY_PASSED"]
  BY ONLY <1>1, <1>3, <1>5
<1>7. /\ passengers'[i].pid = p
      /\ ~passengers'[i].in_security_queue
      /\ passengers'[i].security_station_id = -1
      /\ passengers'[i].status = "SECURITY_PASSED"
  BY ONLY <1>3, <1>6 DEF PassengerInfo
<1>8. OthersKeep(p)
  <2>1. \A j \in Ids \ {i} :
          /\ passengers'[j].active <=> passengers[j].active
          /\ passengers'[j].pid = passengers[j].pid
          /\ SameRecord(passengers'[j], passengers[j])
    BY ONLY <1>6 DEF SameRecord
  <2>2. QED
    BY <1>2, <1>7, <2>1, OthersKeepInOwn DEF Passenger
<1>9. QED
  BY <1>1, <1>3, <1>4, <1>5, <1>7, <1>8 DEF Completes, Info

\* ipc_unregister_passenger: the slot is free, and says otherwise what it said.
LEMMA UnregisterEffect ==
  ASSUME IInv, NEW p \in Pids, UnregisterPassenger(p)
  PROVE  /\ OthersKeep(p) /\ Holds(p) /\ ~Holds(p)'
         /\ ~Info(p).in_security_queue /\ Info(p).security_station_id = -1
         /\ pc[p] \in {"unregister", "unregister_last"}
         /\ pc'[p] \in {"unregister_pid", "exited"}
         /\ UNCHANGED queueVars
<1> DEFINE i == my_id[p]
<1>1. /\ pc[p] \in {"unregister", "unregister_last"} /\ pc \in [Pids -> Pcs]
      /\ passengers \in [Ids -> PassengerInfo]
      /\ my_id \in [Pids -> Ids \cup {-1}]
      /\ UNCHANGED queueVars
  BY DEF UnregisterPassenger, IInv, TypeOK
<1>2. pc[p] \in HoldingPcs \ (WaitingPcs \cup {"at_station"})
  BY <1>1 DEF HoldingPcs, InsidePcs, WaitingPcs
<1>3. /\ i \in Ids /\ passengers[i].active /\ passengers[i].pid = p
      /\ ~passengers[i].in_security_queue /\ passengers[i].security_station_id = -1
  BY <1>2, OwnSlot DEF IInv, WaitersAreQueued
<1>4. passengers' = [passengers EXCEPT ![i].active = FALSE]
  BY <1>3 DEF UnregisterPassenger
<1>5. /\ \A j \in Ids \ {i} : passengers'[j] = passengers[j]
      /\ passengers'[i] = [passengers[i] EXCEPT !.active = FALSE]
  BY ONLY <1>1, <1>3, <1>4
<1>6. ~passengers'[i].active /\ passengers'[i].pid = p
  <2>1. passengers[i] \in PassengerInfo
    BY <1>1, <1>3
  <2>2. QED
    BY ONLY <1>3, <1>5, <2>1 DEF PassengerInfo
<1>7. OthersKeep(p)
  <2>1. \A j \in Ids \ {i} :
          /\ passengers'[j].active <=> passengers[j].active
          /\ passengers'[j].pid = passengers[j].pid
          /\ SameRecord(passengers'[j], passengers[j])
    BY ONLY <1>5 DEF SameRecord
  <2>2. QED
    BY <1>2, <1>6, <2>1, OthersKeepInOwn DEF Passenger
<1>8. (my_id'[p] = i \/ my_id'[p] = -1) /\ pc'[p] \in {"unregister_pid", "exited"}
  <2>1. my_id' = my_id \/ my_id' = [my_id EXCEPT ![p] = -1]
    BY DEF UnregisterPassenger, Exit
  <2>2. pc' = [pc EXCEPT ![p] = "unregister_pid"] \/ pc' = [pc EXCEPT ![p] = "exited"]
    BY DEF UnregisterPassenger, Goto, Exit
  <2>3. my_id'[p] = i \/ my_id'[p] = -1
    BY ONLY <1>1, <2>1, p \in Pids
  <2>4. pc'[p] \in {"unregister_pid", "exited"}
    BY ONLY <1>1, <2>2, p \in Pids
  <2>5. QED
    BY <2>3, <2>4
<1>9. Holds(p) /\ ~Holds(p)'
  <2>1. Holds(p)
    BY <1>3 DEF Holds, Info
  <2>2. CASE my_id'[p] = -1
    BY <2>1, <2>2 DEF Holds, Ids
  <2>3. CASE my_id'[p] = i
    <3>1. ~passengers'[my_id'[p]].active
      BY <1>6, <2>3
    <3>2. QED
      BY <2>1, <3>1 DEF Holds, Info
  <2>4. QED
    BY <1>8, <2>2, <2>3
<1>10. QED
  BY <1>1, <1>3, <1>7, <1>8, <1>9 DEF Info

\* Any other step of p: only p may notice.
Unseen == UNCHANGED <<passengers, queueVars>>
LEMMA UnseenEffect ==
  ASSUME IInv, NEW p \in Pids, Passenger(p), Unseen
  PROVE  OthersKeep(p)
<1>1. OwnLocals(p) /\ passengers' = passengers
  BY LocalsAreOwn DEF Unseen
<1>2. QED
  BY <1>1, OthersKeepAll DEF OwnLocals

LEMMA FailedEffect ==
  ASSUME IInv, NEW p \in Pids,
         \/ RegisterPassenger(p) /\ pc'[p] = "unregister_pid"
         \/ JoinSecurityQueue(p) /\ pc'[p] = "unregister"
         \/ AssignToSecurityStation(p) /\ pc'[p] = "position"
  PROVE  OthersKeep(p) /\ Unseen /\ my_id' = my_id
<1>0. pc \in [Pids -> Pcs]
  BY DEF IInv, TypeOK
<1>1. CASE RegisterPassenger(p) /\ pc'[p] = "unregister_pid"
  <2>1. pc' # [pc EXCEPT ![p] = "check"]
    BY <1>0, <1>1
  <2>2. Unseen /\ my_id' = my_id
    BY <1>1, <2>1 DEF RegisterPassenger, Goto, Unseen
  <2>3. QED
    BY <1>1, <2>2, UnseenEffect DEF Passenger
<1>2. CASE JoinSecurityQueue(p) /\ pc'[p] = "unregister"
  <2>1. pc' # [pc EXCEPT ![p] = "loop"]
    BY <1>0, <1>2
  <2>2. Unseen /\ my_id' = my_id
    BY <1>2, <2>1 DEF JoinSecurityQueue, Goto, Unseen, localVars
  <2>3. QED
    BY <1>2, <2>2, UnseenEffect DEF Passenger
<1>3. CASE AssignToSecurityStation(p) /\ pc'[p] = "position"
  <2>1. pc' # [pc EXCEPT ![p] = "at_station"]
    BY <1>0, <1>3
  <2>2. Unseen /\ my_id' = my_id
    BY <1>3, <2>1, ZenonT(60) DEF AssignToSecurityStation, Goto, Unseen, localVars
  <2>3. QED
    BY <1>3, <2>2, UnseenEffect DEF Passenger
<1>4. QED
  BY <1>1, <1>2, <1>3

LEMMA PassengerKeepsOthers ==
  ASSUME IInv, IInv', NEW p \in Pids, Passenger(p)
  PROVE  OthersKeep(p)
<1>1. CASE \/ RegisterPassengerPid(p) \/ CheckIn(p)          \/ LoopHead(p)
           \/ GetQueuePosition(p)     \/ GetQueueSize(p)     \/ LeaveWaitingRoom(p)
           \/ UnregisterPassengerPid(p)
  <2>1. Unseen
    BY <1>1 DEF RegisterPassengerPid, CheckIn, LoopHead, GetQueuePosition, GetQueueSize,
         LeaveWaitingRoom, UnregisterPassengerPid, Unseen
  <2>2. QED
    BY <2>1, UnseenEffect
<1>2. CASE RegisterPassenger(p)
  BY <1>2, RegisterEffect, FailedEffect
<1>3. CASE JoinSecurityQueue(p)
  BY <1>3, JoinEffect, FailedEffect
<1>4. CASE AssignToSecurityStation(p)
  BY <1>4, AssignEffect, FailedEffect
<1>5. CASE PassInQueue(p)
  BY <1>5, PassEffect, UnseenEffect DEF Unseen
<1>6. CASE LeaveSecurityQueue(p)
  BY <1>6, LeaveQueueEffect
<1>7. CASE CompleteSecurityCheck(p)
  BY <1>7, CompleteEffect
<1>8. CASE UnregisterPassenger(p)
  BY <1>8, UnregisterEffect
<1>9. QED
  BY ONLY Passenger(p), <1>1, <1>2, <1>3, <1>4, <1>5, <1>6, <1>7, <1>8, Zenon DEF Passenger

-----------------------------------------------------------------------------
(* Nothing is left of the former owner of a slot. *)

LEMMA WayToQueue ==
  ASSUME IInv, NEW p \in Pids, Passenger(p), pc'[p] \in {"check", "join"}
  PROVE  RegisterPassenger(p) \/ CheckIn(p)
<1>1. pc \in [Pids -> Pcs]
  BY DEF IInv, TypeOK
<1>2. CASE \/ RegisterPassengerPid(p) \/ LoopHead(p) \/ GetQueuePosition(p) \/ GetQueueSize(p)
           \/ JoinSecurityQueue(p) \/ LeaveSecurityQueue(p) \/ LeaveWaitingRoom(p)
           \/ UnregisterPassenger(p) \/ UnregisterPassengerPid(p)
  BY <1>1, <1>2 DEF RegisterPassengerPid, LoopHead, GetQueuePosition, GetQueueSize,
       JoinSecurityQueue, LeaveSecurityQueue, LeaveWaitingRoom, UnregisterPassenger,
       UnregisterPassengerPid, NextRound, Exit, Goto
<1>3. CASE AssignToSecurityStation(p) \/ PassInQueue(p) \/ CompleteSecurityCheck(p)
  <2>1. \/ pc' = [pc EXCEPT ![p] = "at_station"]
        \/ pc' = [pc EXCEPT ![p] = "position"]
        \/ pc' = [pc EXCEPT ![p] = "loop"]
        \/ pc' = [pc EXCEPT ![p] = "waiting_room"]
        \/ pc' = [pc EXCEPT ![p] = "unregister"]
    BY <1>3, ZenonT(60) DEF AssignToSecurityStation, PassInQueue, CompleteSecurityCheck,
         NextRound, Goto
  <2>2. QED
    BY <1>1, <2>1
<1>4. QED
  BY <1>2, <1>3 DEF Passenger

LEMMA CleanStartStep == IInv /\ IInv' /\ CleanStart /\ [Next]_vars => CleanStart'
<1> SUFFICES ASSUME IInv, IInv', CleanStart, [Next]_vars PROVE CleanStart'
  OBVIOUS
<1> DEFINE Clean(q) == Info(q).status = "WAITING" /\ Info(q).times_passed = 0
<1>0. \A q \in Pids : pc[q] \in {"check", "join"} => Holds(q) /\ Clean(q)
  BY HoldersAreActive DEF CleanStart, Info, HoldingPcs, InsidePcs
<1>1. CASE UNCHANGED vars
  BY <1>1 DEF CleanStart, vars, localVars, captainVars
<1>2. CASE Captain
  <2>1. UNCHANGED <<passengers, my_id>>
    BY <1>2 DEF Captain, StopBoarding, SendSignal2, localVars
  <2>2. \A q \in Pids : pc'[q] \in {"check", "join"} => pc'[q] = pc[q]
    BY <1>2 DEF Captain, StopBoarding, SendSignal2, IInv, TypeOK
  <2>3. \A q \in Pids : stop_boarding_flag'[q] => signal2_received'
    BY <1>2 DEF CleanStart, Captain, StopBoarding, SendSignal2, localVars
  <2>4. QED
    BY <2>1, <2>2, <2>3 DEF CleanStart
<1>3. ASSUME NEW p \in Pids, Passenger(p) PROVE CleanStart'
  <2>1. OwnLocals(p)
    BY <1>3, LocalsAreOwn
  <2>2. \A q \in Pids : stop_boarding_flag'[q] => signal2_received'
    BY <2>1 DEF OwnLocals, CleanStart, captainVars
  <2>3. OthersKeep(p) => \A q \in Pids \ {p} : pc'[q] \in {"check", "join"} => Clean(q)'
    BY <1>0 DEF OthersKeep, Keeps, SameRecord
  <2>4. CASE pc'[p] \notin {"check", "join"}
    <3>1. OthersKeep(p)
      BY <1>3, PassengerKeepsOthers
    <3>2. QED
      BY <2>2, <2>3, <2>4, <3>1 DEF CleanStart, Info
  <2>5. CASE CheckIn(p)
    <3>1. pc[p] = "check" /\ Unseen /\ my_id' = my_id
      BY <2>5 DEF CheckIn, Unseen, localVars
    <3>2. OthersKeep(p) /\ Clean(p)'
      BY <1>0, <1>3, <3>1, UnseenEffect DEF Unseen, Info
    <3>3. QED
      BY <2>2, <2>3, <3>2 DEF CleanStart, Info
  <2>6. CASE RegisterPassenger(p) /\ pc'[p] \in {"check", "join"}
    <3>1. OthersKeep(p) /\ Clean(p)'
      BY <2>6, RegisterEffect DEF Registers
    <3>2. QED
      BY <2>2, <2>3, <3>1 DEF CleanStart, Info
  <2>7. QED
    BY <1>3, <2>4, <2>5, <2>6, WayToQueue
<1>4. QED
  BY <1>1, <1>2, <1>3 DEF Next

\* A passenger never starts with the status or the spent passes of the former owner
\* of its slot, and its stop flag is set only by signal 2.
THEOREM CleanStartCorrect == Spec => []CleanStart
<1>1. Init => CleanStart
  BY DEF Init, CleanStart
<1>2. IInv /\ IInv' /\ CleanStart /\ [Next]_vars => CleanStart'
  BY CleanStartStep
<1>3. QED
  BY <1>1, <1>2, Invariant, PTL DEF Spec

-----------------------------------------------------------------------------
(* SecurityControl implements WaitingRoom: what each kind of step looks like *)
(* in the room.                                                            *)

HoldsPassed(q) == Holds(q) /\ Info(q).status = "SECURITY_PASSED"
Held == {<<q, my_id[q]>> : q \in {r \in Pids : HoldsPassed(r)}}
Staying == {q \in Pids : pc[q] = "waiting_room"}
Flagged == {q \in Pids : pc[q] = "waiting_room" /\ stop_boarding_flag[q]}

\* The mapping of Room, seen from the people.
RoomIsMapped ==
  {<<passengers[i].pid, i>> :
     i \in {j \in Ids : passengers[j].active /\ passengers[j].status = "SECURITY_PASSED"}} = Held
LEMMA RoomState == IInv => RoomIsMapped
<1> SUFFICES ASSUME IInv PROVE RoomIsMapped
  OBVIOUS
<1> DEFINE Passed == {j \in Ids : passengers[j].active /\ passengers[j].status = "SECURITY_PASSED"}
<1>1. ASSUME NEW i \in Passed PROVE <<passengers[i].pid, i>> \in Held
  <2>1. /\ passengers[i].pid \in Pids /\ my_id[passengers[i].pid] = i
        /\ HoldsPassed(passengers[i].pid)
    BY HoldersAreActive DEF HoldsPassed, Info
  <2>2. QED
    BY <2>1 DEF Held
<1>2. ASSUME NEW q \in Pids, HoldsPassed(q)
      PROVE  my_id[q] \in Passed /\ passengers[my_id[q]].pid = q
  BY <1>2 DEF HoldsPassed, Holds, Info
<1>3. QED
  BY <1>1, <1>2 DEF Held, RoomIsMapped

LEMMA RoomStates ==
  ASSUME IInv, IInv'
  PROVE  RoomIsMapped /\ RoomIsMapped'
<1>1. (IInv => RoomIsMapped)'
  BY RoomState, PTL
<1>2. QED
  BY <1>1, RoomState

\* For everybody but p the room stays as it is.
LEMMA OthersStay ==
  ASSUME IInv, NEW p \in Pids, Passenger(p), OthersKeep(p)
  PROVE  /\ \A q \in Pids \ {p} :
              /\ HoldsPassed(q)' <=> HoldsPassed(q)
              /\ HoldsPassed(q) => my_id'[q] = my_id[q]
              /\ pc'[q] = pc[q]
              /\ stop_boarding_flag'[q] <=> stop_boarding_flag[q]
         /\ signal2_received' = signal2_received
<1>1. signal2_received' = signal2_received
  BY LocalsAreOwn DEF OwnLocals, captainVars
<1>2. QED
  BY <1>1 DEF OthersKeep, Keeps, HoldsPassed, SameRecord

LEMMA RoomStutter ==
  ASSUME IInv, IInv', NEW p \in Pids, Passenger(p), OthersKeep(p),
         HoldsPassed(p)' <=> HoldsPassed(p),
         HoldsPassed(p) => my_id'[p] = my_id[p],
         pc[p] # "waiting_room", pc'[p] # "waiting_room"
  PROVE  UNCHANGED Room!roomVars
<1>1. Staying' = Staying /\ Flagged' = Flagged
  BY OthersStay DEF Staying, Flagged
<1>2. Held' = Held
  <2>1. \A q \in Pids : /\ HoldsPassed(q)' <=> HoldsPassed(q)
                        /\ HoldsPassed(q) => my_id'[q] = my_id[q]
    BY OthersStay
  <2>2. QED
    BY <2>1 DEF Held
<1>3. signal2_received' = signal2_received
  BY OthersStay
<1>4. QED
  BY <1>1, <1>2, <1>3, RoomStates DEF Room!roomVars, RoomIsMapped, Staying, Flagged

LEMMA RoomLeave ==
  ASSUME IInv, IInv', NEW p \in Pids, LeaveWaitingRoom(p)
  PROVE  Room!Leave(p)
<1>1. /\ Unseen /\ my_id' = my_id /\ pc[p] = "waiting_room" /\ pc'[p] # "waiting_room"
      /\ Passenger(p)
  BY DEF LeaveWaitingRoom, Goto, Unseen, localVars, IInv, TypeOK, Passenger
<1>2. OthersKeep(p)
  BY <1>1, UnseenEffect
<1>3. Staying' = Staying \ {p} /\ Flagged' = Flagged \ {p} /\ p \in Staying
  BY <1>1, <1>2, OthersStay DEF Staying, Flagged
<1>4. Held' = Held
  <2>1. passengers' = passengers
    BY <1>1 DEF Unseen
  <2>2. QED
    BY <1>1, <2>1 DEF Held, HoldsPassed, Holds, Info
<1>5. signal2_received' = signal2_received
  BY <1>1, <1>2, OthersStay
<1>6. QED
  BY <1>3, <1>4, <1>5, RoomStates DEF Room!Leave, RoomIsMapped, Staying, Flagged

\* The slot is not that of another passenger in the room, dead or alive, and
\* whoever comes after signal 2 knows of it.
LEMMA RoomArrive ==
  ASSUME IInv, IInv', CleanStart, NEW p \in Pids, CompleteSecurityCheck(p)
  PROVE  \E i \in Ids : Room!Arrive(p, i)
<1>1. /\ OthersKeep(p) /\ Completes(p) /\ my_id'[p] = my_id[p] /\ Passenger(p)
      /\ pc[p] = "at_station" /\ pc'[p] = "waiting_room"
  BY CompleteEffect DEF Passenger
<1>2. stop_boarding_flag'[p] <=> signal2_received
  <2>1. stop_boarding_flag[p] <=> signal2_received
    BY <1>1 DEF CleanStart, IInv, SignalReachesAll, InsidePcs
  <2>2. stop_boarding_flag' = stop_boarding_flag
    BY DEF CompleteSecurityCheck, localVars
  <2>3. QED
    BY <2>1, <2>2
<1>3. /\ Staying' = Staying \cup {p}
      /\ Flagged' = IF signal2_received THEN Flagged \cup {p} ELSE Flagged
  BY <1>1, <1>2, OthersStay DEF Staying, Flagged
<1>4. PICK i \in Ids : i = my_id[p]
  BY <1>1, OwnSlot DEF HoldingPcs, InsidePcs
<1>5. /\ ~HoldsPassed(p) /\ HoldsPassed(p)' /\ my_id'[p] = i
      /\ \A q \in Pids : Holds(q) /\ q # p => my_id[q] # i
  <2>1. Holds(p) /\ Holds(p)'
    <3>1. (IInv => \A q \in Pids : pc[q] \in HoldingPcs => Holds(q))'
      BY HoldersAreActive, PTL
    <3>2. QED
      BY <1>1, <3>1, HoldersAreActive DEF HoldingPcs, InsidePcs
  <2>2. QED
    BY <1>1, <1>4, <2>1 DEF Completes, HoldsPassed, Holds, Info
<1>6. Held' = Held \cup {<<p, i>>}
  BY <1>1, <1>5, OthersStay DEF Held
<1>7. \A h \in Held : p # h[1] /\ i # h[2]
  BY <1>5 DEF Held, HoldsPassed
<1>8. signal2_received' = signal2_received
  BY <1>1, OthersStay
<1>9. Room!Arrive(p, i)
  BY <1>3, <1>6, <1>7, <1>8, RoomStates DEF Room!Arrive, RoomIsMapped, Staying, Flagged
<1>10. QED
  BY <1>9

\* Also of those who never came into the room.
LEMMA RoomGiveBack ==
  ASSUME IInv, IInv', NEW p \in Pids, UnregisterPassenger(p)
  PROVE  \E i \in Ids : Room!GiveBack(p, i)
<1>1. /\ OthersKeep(p) /\ Holds(p) /\ ~Holds(p)' /\ Passenger(p)
      /\ pc[p] # "waiting_room" /\ pc'[p] # "waiting_room"
  BY UnregisterEffect DEF Passenger
<1>2. Staying' = Staying /\ Flagged' = Flagged /\ p \notin Staying
  BY <1>1, OthersStay DEF Staying, Flagged
<1>3. PICK i \in Ids : i = my_id[p]
  BY <1>1 DEF Holds
<1>4. Held' = Held \ {<<p, i>>}
  <2>1. ~HoldsPassed(p)'
    BY <1>1 DEF HoldsPassed
  <2>2. QED
    BY <1>1, <1>3, <2>1, OthersStay DEF Held
<1>5. signal2_received' = signal2_received
  BY <1>1, OthersStay
<1>6. Room!GiveBack(p, i)
  BY <1>2, <1>4, <1>5, RoomStates DEF Room!GiveBack, RoomIsMapped, Staying, Flagged
<1>7. QED
  BY <1>6

\* Those who were interrupted keep their slots; the others know.
LEMMA RoomTell ==
  ASSUME IInv, IInv', SendSignal2
  PROVE  Room!Tell
<1>1. ~signal2_received /\ signal2_received' = TRUE /\ UNCHANGED <<passengers, my_id>>
  BY DEF SendSignal2, IInv, RoundsAndSignal
<1>2. \A q \in Pids : pc'[q] = "waiting_room" => pc[q] = "waiting_room" /\ stop_boarding_flag'[q]
  BY DEF SendSignal2, IInv, SignalReachesAll, InsidePcs
<1>3. Staying' \subseteq Staying /\ Flagged' = Staying'
  BY <1>2 DEF Staying, Flagged
<1>4. Held' = Held
  BY <1>1 DEF Held, HoldsPassed, Holds, Info
<1>5. QED
  BY <1>1, <1>3, <1>4, RoomStates DEF Room!Tell, RoomIsMapped, Staying, Flagged

LEMMA RoomUnseen ==
  ASSUME IInv, IInv', NEW p \in Pids, Passenger(p), Unseen,
         my_id' = my_id \/ (~Holds(p) /\ ~Holds(p)'),
         pc[p] # "waiting_room", pc'[p] # "waiting_room"
  PROVE  UNCHANGED Room!roomVars
<1>1. /\ HoldsPassed(p)' <=> HoldsPassed(p)
      /\ HoldsPassed(p) => my_id'[p] = my_id[p]
  BY DEF Unseen, HoldsPassed, Holds, Info
<1>2. OthersKeep(p)
  BY UnseenEffect
<1>3. QED
  BY <1>1, <1>2, RoomStutter

LEMMA PassengerInRoom ==
  ASSUME IInv, IInv', CleanStart, NEW p \in Pids, Passenger(p)
  PROVE  [Room!Next]_Room!roomVars
<1>0. pc \in [Pids -> Pcs] /\ my_id \in [Pids -> Ids \cup {-1}]
  BY DEF IInv, TypeOK
<1>1. CASE \/ CheckIn(p) \/ LoopHead(p) \/ GetQueuePosition(p) \/ GetQueueSize(p)
           \/ RegisterPassengerPid(p)
  <2>1. /\ Unseen /\ my_id' = my_id
        /\ pc[p] # "waiting_room" /\ pc'[p] # "waiting_room"
    BY <1>0, <1>1 DEF CheckIn, LoopHead, GetQueuePosition, GetQueueSize, RegisterPassengerPid,
         Unseen, localVars, NextRound, Goto
  <2>2. QED
    BY <2>1, RoomUnseen
<1>2. CASE UnregisterPassengerPid(p)
  <2>1. /\ Unseen /\ pc[p] \in {"unregister_pid", "journey_end"} /\ pc'[p] # "waiting_room"
        /\ pc[p] = "journey_end" => my_id' = my_id
    BY <1>0, <1>2 DEF UnregisterPassengerPid, Unseen, Goto, Exit
  <2>2. CASE pc[p] = "journey_end"
    BY <2>1, <2>2, RoomUnseen
  <2>3. CASE pc[p] = "unregister_pid"
    <3>1. ~Holds(p)
      BY <2>3, HoldersAreActive DEF HoldingPcs, InsidePcs, WaitingPcs
    <3>2. ~Holds(p)'
      <4>1. my_id'[p] = -1
        BY <1>0, <1>2, <2>3 DEF UnregisterPassengerPid, Exit
      <4>2. QED
        BY <4>1 DEF Holds, Ids
    <3>3. QED
      BY <2>1, <3>1, <3>2, RoomUnseen
  <2>4. QED
    BY <2>1, <2>2, <2>3
<1>3. CASE \/ RegisterPassenger(p) /\ pc'[p] = "unregister_pid"
           \/ JoinSecurityQueue(p) /\ pc'[p] = "unregister"
           \/ AssignToSecurityStation(p) /\ pc'[p] = "position"
           \/ PassInQueue(p) /\ UNCHANGED <<passengers, queueVars>>
  <2>1. Unseen /\ my_id' = my_id
    BY <1>3, FailedEffect, ZenonT(60) DEF PassInQueue, Unseen
  <2>2. pc[p] # "waiting_room"
    BY <1>3, ZenonT(60) DEF RegisterPassenger, JoinSecurityQueue, AssignToSecurityStation, PassInQueue
  <2>3. pc'[p] # "waiting_room"
    BY <1>0, <1>3, ZenonT(60) DEF PassInQueue, NextRound, Goto
  <2>4. QED
    BY <2>1, <2>2, <2>3, RoomUnseen
<1>4. CASE RegisterPassenger(p) /\ pc'[p] # "unregister_pid"
  BY <1>4, RegisterEffect, RoomStutter DEF Registers, HoldsPassed
<1>5. CASE JoinSecurityQueue(p) /\ pc'[p] # "unregister"
  <2>1. OthersKeep(p) /\ Joins(p)
    BY <1>5, JoinEffect
  <2>2. Info(p).status = "WAITING"
    BY <2>1 DEF CleanStart, Joins, Info
  <2>3. ~HoldsPassed(p) /\ ~HoldsPassed(p)'
    BY <2>1, <2>2 DEF Joins, HoldsPassed
  <2>4. QED
    BY <2>1, <2>3, RoomStutter DEF Joins
<1>6. CASE AssignToSecurityStation(p) /\ pc'[p] # "position"
  BY <1>6, AssignEffect, RoomStutter DEF LeavesLine, HoldsPassed
<1>7. CASE PassInQueue(p) /\ ~UNCHANGED <<passengers, queueVars>>
  <2>1. /\ OthersKeep(p) /\ LetsPass(p) /\ pc[p] = "pass" /\ pc'[p] = "loop"
    BY <1>7, PassEffect
  <2>2. Info(p).status = "IN_QUEUE"
    BY <2>1 DEF IInv, WaitersAreQueued, WaitingPcs, Info
  <2>3. ~HoldsPassed(p) /\ ~HoldsPassed(p)'
    BY <2>1, <2>2 DEF LetsPass, HoldsPassed
  <2>4. QED
    BY <2>1, <2>3, RoomStutter
<1>8. CASE LeaveSecurityQueue(p)
  BY <1>8, LeaveQueueEffect, RoomStutter DEF LeavesLine, HoldsPassed
<1>9. CASE CompleteSecurityCheck(p)
  BY <1>9, RoomArrive DEF Room!Next
<1>10. CASE LeaveWaitingRoom(p)
  BY <1>10, RoomLeave DEF Room!Next
<1>11. CASE UnregisterPassenger(p)
  BY <1>11, RoomGiveBack DEF Room!Next
<1>12. QED
  BY ONLY Passenger(p), <1>1, <1>2, <1>3, <1>4, <1>5, <1>6, <1>7, <1>8, <1>9, <1>10, <1>11, Zenon
     DEF Passenger

\* Whoever comes into the waiting room has a slot of its own there, all who stay
\* when signal 2 is sent hear it, and later comers have heard it before.
THEOREM FillsRoom == Spec => FillsWaitingRoom
<1>1. Init => Room!Init
  BY DEF Init, Room!Init
<1>2. IInv /\ IInv' /\ CleanStart /\ [Next]_vars => [Room!Next]_Room!roomVars
  <2> SUFFICES ASSUME IInv, IInv', CleanStart, [Next]_vars
               PROVE  [Room!Next]_Room!roomVars
    OBVIOUS
  <2>1. CASE UNCHANGED vars
    BY <2>1 DEF vars, localVars, captainVars, Room!roomVars
  <2>2. CASE StopBoarding
    BY <2>2 DEF StopBoarding, localVars, Room!roomVars
  <2>3. CASE SendSignal2
    BY <2>3, RoomTell DEF Room!Next
  <2>4. ASSUME NEW p \in Pids, Passenger(p) PROVE [Room!Next]_Room!roomVars
    BY <2>4, PassengerInRoom
  <2>5. QED
    BY <2>1, <2>2, <2>3, <2>4 DEF Next, Captain
<1>3. QED
  BY <1>1, <1>2, Invariant, CleanStartCorrect, PTL DEF Spec, FillsWaitingRoom, Room!Spec

-----------------------------------------------------------------------------
(* Order in the queue. *)

\* The position of a slot in the queue is its cell, and the other way round.
Place(i) == passengers[i].queue_position
PlacesAreCells ==
  \A i \in Ids :
    /\ passengers[i].in_security_queue =>
         Place(i) \in 0 .. (security_queue_size - 1) /\ security_queue[Place(i)] = i
    /\ \A k \in 0 .. (security_queue_size - 1) :
         security_queue[k] = i => Place(i) = k /\ passengers[i].in_security_queue
LEMMA Places == IInv => PlacesAreCells
<1> SUFFICES ASSUME IInv, NEW i \in Ids
             PROVE  /\ passengers[i].in_security_queue =>
                         /\ Place(i) \in 0 .. (security_queue_size - 1)
                         /\ security_queue[Place(i)] = i
                    /\ \A k \in 0 .. (security_queue_size - 1) :
                         security_queue[k] = i => Place(i) = k /\ passengers[i].in_security_queue
  BY DEF PlacesAreCells
<1>1. passengers[i].in_security_queue <=> i \in Window(security_queue, security_queue_size)
  BY DEF IInv, QueueMirrorsPassengers, InQueue
<1>2. \A k \in 0 .. (security_queue_size - 1) : passengers[security_queue[k]].queue_position = k
  BY DEF IInv, QueueMirrorsPassengers
<1>3. QED
  BY <1>1, <1>2 DEF Window, Place

LEMMA PlacesInBoth ==
  ASSUME IInv, IInv'
  PROVE  /\ PlacesAreCells /\ PlacesAreCells'
         /\ security_queue_size \in Nat /\ security_queue_size' \in Nat
<1>1. (IInv => PlacesAreCells)'
  BY Places, PTL
<1>2. security_queue_size \in Nat /\ security_queue_size' \in Nat
  BY DEF IInv, TypeOK
<1>3. QED
  BY <1>1, <1>2, Places

\* A queue that keeps its cells, or has one more behind them, keeps everybody's place.
LEMMA SameCellsNobodyOvertaken ==
  ASSUME IInv, IInv', security_queue_size' >= security_queue_size,
         \A k \in 0 .. (security_queue_size - 1) : security_queue'[k] = security_queue[k]
  PROVE  OvertakenByConsent
<1> SUFFICES ASSUME NEW i \in Ids, NEW j \in Ids, Overtaken(i, j) PROVE FALSE
  BY DEF OvertakenByConsent
<1>1. Place(i)' = Place(i) /\ Place(j)' = Place(j)
  BY PlacesInBoth DEF PlacesAreCells, Overtaken
<1>2. Place(i) \in Int /\ Place(j) \in Int
  BY PlacesInBoth DEF PlacesAreCells, Overtaken
<1>3. QED
  BY <1>1, <1>2 DEF Overtaken, Place

LEMMA TakenOutNobodyOvertaken ==
  ASSUME IInv, IInv', NEW i0 \in Ids, TakenOut(i0), ~passengers'[i0].in_security_queue
  PROVE  OvertakenByConsent
<1> SUFFICES ASSUME NEW i \in Ids, NEW j \in Ids, Overtaken(i, j) PROVE FALSE
  BY DEF OvertakenByConsent
<1> DEFINE n == security_queue_size
<1>1. PICK c \in 0 .. (n - 1) :
        /\ security_queue[c] = i0
        /\ \A k \in 0 .. (n - 2) :
             security_queue'[k] = IF k < c THEN security_queue[k] ELSE security_queue[k + 1]
  BY DEF TakenOut
<1>2. security_queue_size' = n - 1 /\ n \in Nat
  BY PlacesInBoth DEF TakenOut
<1>3. ASSUME NEW l \in Ids, passengers[l].in_security_queue, passengers'[l].in_security_queue
      PROVE  /\ Place(l) \in 0 .. (n - 1) /\ Place(l) # c
             /\ Place(l)' = IF Place(l) < c THEN Place(l) ELSE Place(l) - 1
  <2>1. Place(l) \in 0 .. (n - 1) /\ security_queue[Place(l)] = l /\ l # i0
    BY <1>3, PlacesInBoth DEF PlacesAreCells
  <2>2. Place(l) # c
    BY <1>1, <2>1
  <2>3. CASE Place(l) < c
    <3>1. Place(l) \in 0 .. (n - 2)
      BY <1>2, <2>1, <2>3
    <3>2. security_queue'[Place(l)] = l
      BY <1>1, <2>1, <2>3, <3>1
    <3>3. Place(l)' = Place(l)
      BY <1>2, <3>1, <3>2, PlacesInBoth DEF PlacesAreCells
    <3>4. QED
      BY <2>1, <2>2, <2>3, <3>3
  <2>4. CASE Place(l) > c
    <3>1. Place(l) - 1 \in 0 .. (n - 2) /\ ~(Place(l) - 1 < c) /\ (Place(l) - 1) + 1 = Place(l)
      BY <1>1, <1>2, <2>1, <2>4
    <3>2. security_queue'[Place(l) - 1] = l
      BY <1>1, <2>1, <3>1
    <3>3. Place(l)' = Place(l) - 1
      BY <1>2, <3>1, <3>2, PlacesInBoth DEF PlacesAreCells
    <3>4. QED
      BY <2>1, <2>2, <2>4, <3>1, <3>3
  <2>5. QED
    BY <1>1, <1>2, <2>1, <2>2, <2>3, <2>4
<1>4. /\ Place(i) \in Int /\ Place(i) # c /\ Place(j) \in Int /\ Place(j) # c
      /\ Place(i)' = IF Place(i) < c THEN Place(i) ELSE Place(i) - 1
      /\ Place(j)' = IF Place(j) < c THEN Place(j) ELSE Place(j) - 1
      /\ Place(i) < Place(j) /\ Place(i)' > Place(j)'
  BY <1>3 DEF Overtaken, Place
<1>5. QED
  BY <1>1, <1>4

LEMMA LetsPassByConsent ==
  ASSUME IInv, IInv', NEW p \in Pids, LetsPass(p), my_id'[p] = my_id[p]
  PROVE  OvertakenByConsent
<1> DEFINE n == security_queue_size
<1> SUFFICES ASSUME NEW i \in Ids, NEW j \in Ids, Overtaken(i, j)
             PROVE  /\ passengers[i].times_passed < MAX_QUEUE_PASSES
                    /\ passengers'[i].times_passed = passengers[i].times_passed + 1
                    /\ Place(j) = Place(i) + 1
  BY DEF OvertakenByConsent, Place
<1>1. PICK c \in 0 .. (n - 2) :
        /\ security_queue[c] = my_id[p]
        /\ security_queue'[c] = security_queue[c + 1]
        /\ security_queue'[c + 1] = my_id[p]
        /\ \A k \in 0 .. (n - 1) : k # c /\ k # c + 1 => security_queue'[k] = security_queue[k]
  BY DEF LetsPass
<1>2. security_queue_size' = n /\ n \in Nat
  BY PlacesInBoth DEF LetsPass
<1>3. ASSUME NEW l \in Ids, passengers[l].in_security_queue
      PROVE  /\ Place(l) \in 0 .. (n - 1) /\ security_queue[Place(l)] = l
             /\ Place(l)' = IF Place(l) = c THEN c + 1
                            ELSE IF Place(l) = c + 1 THEN c ELSE Place(l)
  <2>1. Place(l) \in 0 .. (n - 1) /\ security_queue[Place(l)] = l
    BY <1>3, PlacesInBoth DEF PlacesAreCells
  <2>2. \A k \in 0 .. (n - 1) : security_queue'[k] = l => Place(l)' = k
    BY <1>2, PlacesInBoth DEF PlacesAreCells
  <2>3. c \in 0 .. (n - 1) /\ c + 1 \in 0 .. (n - 1)
    BY <1>1, <1>2
  <2>4. QED
    BY <1>1, <2>1, <2>2, <2>3
<1>4. Place(i) = c /\ Place(j) = c + 1
  <2>1. /\ Place(i) \in Int /\ Place(j) \in Int
        /\ Place(i)' = IF Place(i) = c THEN c + 1
                       ELSE IF Place(i) = c + 1 THEN c ELSE Place(i)
        /\ Place(j)' = IF Place(j) = c THEN c + 1
                       ELSE IF Place(j) = c + 1 THEN c ELSE Place(j)
        /\ Place(i) < Place(j) /\ Place(i)' > Place(j)'
    BY <1>3 DEF Overtaken, Place
  <2>2. QED
    BY <1>1, <2>1
<1>5. i = my_id[p]
  BY <1>1, <1>3, <1>4 DEF Overtaken
<1>6. QED
  BY <1>1, <1>4, <1>5 DEF LetsPass, Info

LEMMA PassengerOvertakes ==
  ASSUME IInv, IInv', NEW p \in Pids, Passenger(p)
  PROVE  OvertakenByConsent
<1>0. security_queue_size \in Nat
  BY PlacesInBoth
<1>1. CASE UNCHANGED queueVars
  BY <1>0, <1>1, SameCellsNobodyOvertaken DEF queueVars
<1>2. CASE \/ RegisterPassengerPid(p) \/ CheckIn(p)          \/ LoopHead(p)
           \/ GetQueuePosition(p)     \/ GetQueueSize(p)     \/ LeaveWaitingRoom(p)
           \/ UnregisterPassengerPid(p) \/ RegisterPassenger(p)
           \/ UnregisterPassenger(p)  \/ CompleteSecurityCheck(p)
  <2>1. UNCHANGED queueVars
    BY <1>2 DEF RegisterPassengerPid, CheckIn, LoopHead, GetQueuePosition, GetQueueSize,
         LeaveWaitingRoom, UnregisterPassengerPid, RegisterPassenger, UnregisterPassenger,
         CompleteSecurityCheck
  <2>2. QED
    BY <1>1, <2>1
<1>3. CASE JoinSecurityQueue(p)
  <2>1. CASE pc'[p] = "unregister"
    BY <1>1, <1>3, <2>1, FailedEffect DEF Unseen
  <2>2. CASE pc'[p] # "unregister"
    <3>1. Joins(p)
      BY <1>3, <2>2, JoinEffect
    <3>2. QED
      BY <1>0, <3>1, SameCellsNobodyOvertaken DEF Joins, IsAppended
  <2>3. QED
    BY <2>1, <2>2
<1>4. CASE AssignToSecurityStation(p)
  <2>1. CASE pc'[p] = "position"
    BY <1>1, <1>4, <2>1, FailedEffect DEF Unseen
  <2>2. CASE pc'[p] # "position"
    <3>1. PICK s \in Stations : LeavesLine(p, s)
      BY <1>4, <2>2, AssignEffect
    <3>2. my_id'[p] = my_id[p] /\ pc[p] \in HoldingPcs
      BY <1>4, <2>2, AssignEffect DEF HoldingPcs, InsidePcs, WaitingPcs
    <3>3. QED
      BY <3>1, <3>2, OwnSlot, TakenOutNobodyOvertaken DEF LeavesLine, Info
  <2>3. QED
    BY <2>1, <2>2
<1>5. CASE PassInQueue(p)
  BY <1>1, <1>5, PassEffect, LetsPassByConsent
<1>6. CASE LeaveSecurityQueue(p)
  <2>1. LeavesLine(p, -1) /\ my_id'[p] = my_id[p] /\ pc[p] \in HoldingPcs
    BY <1>6, LeaveQueueEffect DEF HoldingPcs, InsidePcs, WaitingPcs
  <2>2. QED
    BY <2>1, OwnSlot, TakenOutNobodyOvertaken DEF LeavesLine, Info
<1>7. QED
  BY ONLY Passenger(p), <1>2, <1>3, <1>4, <1>5, <1>6, Zenon DEF Passenger

\* Whatever the others do, a passenger loses its place only to the one directly
\* behind it, and pays one of its passes for it.
THEOREM OvertakingCorrect == Spec => OvertakenOnlyByConsent
<1>1. IInv /\ IInv' /\ [Next]_vars => [OvertakenByConsent]_vars
  <2> SUFFICES ASSUME IInv, IInv', Next PROVE OvertakenByConsent
    OBVIOUS
  <2>1. CASE Captain
    <3>1. UNCHANGED queueVars
      BY <2>1 DEF Captain, StopBoarding, SendSignal2
    <3>2. security_queue_size \in Nat
      BY PlacesInBoth
    <3>3. QED
      BY <3>1, <3>2, SameCellsNobodyOvertaken DEF queueVars
  <2>2. QED
    BY <2>1, PassengerOvertakes DEF Next
<1>2. QED
  BY <1>1, Invariant, PTL DEF Spec, OvertakenOnlyByConsent

-----------------------------------------------------------------------------
(* SecurityControl implements Checkpoint: the line, the passes and the groups *)
(* at the stations as the people in them see it.                           *)

Line == [k \in 1 .. security_queue_size |-> passengers[security_queue[k - 1]].pid]
Queues(q) == Holds(q) /\ Info(q).in_security_queue
Passes == [q \in Pids |-> IF Queues(q) THEN Info(q).times_passed ELSE 0]
AtOf(s) == {q \in Pids : Holds(q) /\ Info(q).security_station_id = s}
At == [s \in Stations |-> AtOf(s)]
Inside == {q \in Pids : pc[q] \in InsidePcs}

\* The mapping of Control, seen from the people.
ControlIsMapped ==
  /\ [p \in Pids |-> IF QueuesAs(p, my_id[p]) THEN passengers[my_id[p]].times_passed ELSE 0] = Passes
  /\ [s \in Stations |-> {passengers[i].pid : i \in StationWindow(s)}] = At
LEMMA ControlState == IInv => ControlIsMapped
<1> SUFFICES ASSUME IInv PROVE ControlIsMapped
  OBVIOUS
<1>1. ASSUME NEW p \in Pids PROVE QueuesAs(p, my_id[p]) <=> Queues(p)
  <2>1. my_id[p] \in Ids \cup {-1} /\ -1 \notin Ids
    BY DEF IInv, TypeOK, Ids
  <2>2. my_id[p] \in Ids => (Info(p).in_security_queue => Info(p).active)
    BY DEF IInv, SlotsOwned, Info
  <2>3. QED
    BY <2>1, <2>2 DEF QueuesAs, Queues, Holds, Info
<1>2. ASSUME NEW s \in Stations PROVE {passengers[i].pid : i \in StationWindow(s)} = AtOf(s)
  <2>1. \A i \in StationWindow(s) :
          /\ i \in Ids /\ passengers[i].active /\ passengers[i].security_station_id = s
    BY DEF IInv, StationsSegregated, StationWindow, Window
  <2>2. \A i \in Ids : passengers[i].active /\ passengers[i].security_station_id = s
                         => i \in StationWindow(s)
    BY DEF IInv, StationsSegregated
  <2>3. ASSUME NEW i \in StationWindow(s) PROVE passengers[i].pid \in AtOf(s)
    BY <2>1, HoldersAreActive DEF AtOf, Info
  <2>4. ASSUME NEW q \in AtOf(s)
        PROVE  my_id[q] \in StationWindow(s) /\ passengers[my_id[q]].pid = q
    BY <2>2 DEF AtOf, Holds, Info
  <2>5. QED
    BY <2>3, <2>4
<1>3. QED
  BY <1>1, <1>2 DEF ControlIsMapped, Passes, At, Info

\* Who stands in the line.
LineIsQueue ==
  /\ security_queue_size \in Nat
  /\ Line \in Seq(Pids) /\ Len(Line) = security_queue_size
  /\ \A k \in 0 .. (security_queue_size - 1) :
       LET q == Line[k + 1] IN Queues(q) /\ my_id[q] = security_queue[k]
  /\ \A q \in Pids : Queues(q) =>
       \E k \in 0 .. (security_queue_size - 1) : security_queue[k] = my_id[q] /\ Line[k + 1] = q
LEMMA LineState == IInv => LineIsQueue
<1> SUFFICES ASSUME IInv PROVE LineIsQueue
  OBVIOUS
<1> DEFINE n == security_queue_size
<1>1. n \in Nat
  BY DEF IInv, TypeOK
<1>2. ASSUME NEW k \in 0 .. (n - 1)
      PROVE  /\ security_queue[k] \in Ids
             /\ passengers[security_queue[k]].pid \in Pids
             /\ my_id[passengers[security_queue[k]].pid] = security_queue[k]
             /\ Queues(passengers[security_queue[k]].pid)
  <2>1. security_queue[k] \in Ids /\ passengers[security_queue[k]].in_security_queue
    BY Places DEF PlacesAreCells, IInv, QueueMirrorsPassengers
  <2>2. passengers[security_queue[k]].active
    BY <2>1 DEF IInv, SlotsOwned
  <2>3. QED
    BY <2>1, <2>2, HoldersAreActive DEF Queues, Info
<1>3. \A k \in 0 .. (n - 1) : k + 1 \in 1 .. n /\ Line[k + 1] = passengers[security_queue[k]].pid
  BY <1>1 DEF Line
<1>4. Line \in [1 .. n -> Pids]
  <2>1. \A k \in 1 .. n : k - 1 \in 0 .. (n - 1)
    BY <1>1
  <2>2. QED
    BY <1>2, <2>1 DEF Line
<1>5. Line \in Seq(Pids) /\ Len(Line) = n
  <2>1. Line \in Seq(Pids)
    BY <1>1, <1>4, SeqDef
  <2>2. DOMAIN Line = 1 .. n
    BY <1>4
  <2>3. QED
    BY <1>1, <2>1, <2>2, LenProperties
<1>6. ASSUME NEW q \in Pids, Queues(q)
      PROVE  \E k \in 0 .. (n - 1) : security_queue[k] = my_id[q] /\ Line[k + 1] = q
  <2>1. PICK k \in 0 .. (n - 1) : security_queue[k] = my_id[q]
    BY <1>6, Places DEF PlacesAreCells, Queues, Holds, Info
  <2>2. passengers[security_queue[k]].pid = q
    BY <1>6, <2>1 DEF Queues, Holds, Info
  <2>3. QED
    BY <1>3, <2>1, <2>2
<1>7. QED
  BY <1>1, <1>2, <1>3, <1>5, <1>6 DEF LineIsQueue

LEMMA ControlStates ==
  ASSUME IInv, IInv'
  PROVE  ControlIsMapped /\ ControlIsMapped' /\ LineIsQueue /\ LineIsQueue'
<1>1. (IInv => ControlIsMapped)' /\ (IInv => LineIsQueue)'
  BY ControlState, LineState, PTL
<1>2. QED
  BY <1>1, ControlState, LineState

\* The sequence t is s without its k-th element.
LEMMA Removed ==
  ASSUME NEW S, NEW s \in Seq(S), NEW k \in 1 .. Len(s), NEW t \in Seq(S),
         Len(t) = Len(s) - 1,
         \A i \in 1 .. Len(t) : t[i] = IF i < k THEN s[i] ELSE s[i + 1]
  PROVE  t = SubSeq(s, 1, k - 1) \o SubSeq(s, k + 1, Len(s))
<1> DEFINE front == SubSeq(s, 1, k - 1)
           back == SubSeq(s, k + 1, Len(s))
<1>0. Len(s) \in Nat /\ \A i \in 1 .. Len(s) : s[i] \in S
  BY LenProperties
<1>1. /\ front \in Seq(S) /\ Len(front) = k - 1
      /\ \A i \in 1 .. (k - 1) : front[i] = s[i]
  <2>1. 1 \in Int /\ k - 1 \in Int /\ \A i \in 1 .. (k - 1) : s[i] \in S
    BY <1>0
  <2>2. /\ front \in Seq(S) /\ Len(front) = IF 1 <= k - 1 THEN (k - 1) - 1 + 1 ELSE 0
        /\ \A i \in 1 .. ((k - 1) - 1 + 1) : front[i] = s[1 + i - 1]
    BY <2>1, SubSeqProperties
  <2> HIDE DEF front
  <2>3. QED
    BY <1>0, <2>2
<1>2. /\ back \in Seq(S) /\ Len(back) = Len(s) - k
      /\ \A i \in 1 .. (Len(s) - k) : back[i] = s[k + i]
  <2>1. k + 1 \in Int /\ Len(s) \in Int /\ \A i \in (k + 1) .. Len(s) : s[i] \in S
    BY <1>0
  <2>2. /\ back \in Seq(S) /\ Len(back) = IF k + 1 <= Len(s) THEN Len(s) - (k + 1) + 1 ELSE 0
        /\ \A i \in 1 .. (Len(s) - (k + 1) + 1) : back[i] = s[k + 1 + i - 1]
    BY <2>1, SubSeqProperties
  <2> HIDE DEF back
  <2>3. \A i \in 1 .. (Len(s) - k) : i \in 1 .. (Len(s) - (k + 1) + 1) /\ k + 1 + i - 1 = k + i
    BY <1>0
  <2>4. QED
    BY <1>0, <2>2, <2>3
<1> HIDE DEF front, back
<1>3. /\ front \o back \in Seq(S)
      /\ Len(front \o back) = Len(s) - 1
      /\ \A i \in 1 .. (Len(s) - 1) :
           (front \o back)[i] = IF i <= k - 1 THEN front[i] ELSE back[i - (k - 1)]
  <2>1. Len(front) + Len(back) = Len(s) - 1
    BY <1>0, <1>1, <1>2
  <2>2. front \in Seq(S) /\ back \in Seq(S)
    BY <1>1, <1>2
  <2>3. /\ front \o back \in Seq(S)
        /\ Len(front \o back) = Len(front) + Len(back)
        /\ \A i \in 1 .. (Len(front) + Len(back)) :
             (front \o back)[i] = IF i <= Len(front) THEN front[i] ELSE back[i - Len(front)]
    BY ONLY <2>2, ConcatProperties
  <2>4. Len(front) = k - 1
    BY <1>1
  <2>5. QED
    BY ONLY <2>1, <2>3, <2>4, Zenon
<1>4. \A i \in 1 .. (Len(s) - 1) : (front \o back)[i] = IF i < k THEN s[i] ELSE s[i + 1]
  <2>1. SUFFICES ASSUME NEW i \in 1 .. (Len(s) - 1)
                 PROVE  (front \o back)[i] = IF i < k THEN s[i] ELSE s[i + 1]
    OBVIOUS
  <2>2. CASE i < k
    <3>1. i \in 1 .. (k - 1)
      BY <1>0, <2>2
    <3>2. QED
      BY <1>1, <1>3, <2>2, <3>1
  <2>3. CASE ~(i < k)
    <3>1. i - (k - 1) \in 1 .. (Len(s) - k) /\ k + (i - (k - 1)) = i + 1 /\ ~(i <= k - 1)
      BY <1>0, <2>3
    <3>2. QED
      BY <1>2, <1>3, <2>3, <3>1
  <2>4. QED
    BY <2>2, <2>3
<1>5. t = front \o back
  BY <1>0, <1>3, <1>4, SeqEqual
<1>6. QED
  BY <1>5 DEF front, back

\* What a step of p means for the line, the passes and the stations.
AtStation(q, s) == Holds(q) /\ Info(q).security_station_id = s
LEMMA OthersKeepPlaces ==
  ASSUME IInv, NEW p \in Pids, Passenger(p), OthersKeep(p)
  PROVE  /\ \A q \in Pids \ {p} :
              /\ Queues(q)' <=> Queues(q)
              /\ Queues(q) => /\ my_id'[q] = my_id[q]
                              /\ Info(q)'.times_passed = Info(q).times_passed
              /\ \A s \in Stations : AtStation(q, s)' <=> AtStation(q, s)
              /\ pc'[q] = pc[q]
         /\ UNCHANGED <<signal2_received, gender>>
<1>1. UNCHANGED <<signal2_received, gender>>
  BY LocalsAreOwn DEF OwnLocals, captainVars
<1>2. \A q \in Pids \ {p} :
        /\ Queues(q)' <=> Queues(q)
        /\ Queues(q) => /\ my_id'[q] = my_id[q]
                        /\ Info(q)'.times_passed = Info(q).times_passed
  BY DEF OthersKeep, Keeps, Queues, SameRecord
<1>3. \A q \in Pids \ {p} : \A s \in Stations : AtStation(q, s)' <=> AtStation(q, s)
  BY DEF OthersKeep, Keeps, AtStation, SameRecord
<1>4. QED
  BY <1>1, <1>2, <1>3 DEF OthersKeep

LEMMA PassesStep ==
  ASSUME IInv, NEW p \in Pids, Passenger(p), OthersKeep(p)
  PROVE  Passes' = [Passes EXCEPT ![p] = IF Queues(p)' THEN Info(p)'.times_passed ELSE 0]
<1>1. \A q \in Pids \ {p} : Passes'[q] = Passes[q]
  BY OthersKeepPlaces DEF Passes
<1>2. QED
  BY <1>1 DEF Passes

\* The slot of everybody in the line still belongs to them.
LEMMA LineKept ==
  ASSUME IInv, IInv', NEW p \in Pids, Passenger(p), OthersKeep(p),
         NEW k \in 0 .. (security_queue_size - 1),
         Line[k + 1] # p \/ (Queues(p)' /\ my_id'[p] = my_id[p])
  PROVE  passengers'[security_queue[k]].pid = Line[k + 1]
<1>1. PICK q \in Pids : q = Line[k + 1]
  <2>1. k + 1 \in 1 .. Len(Line) /\ Line \in Seq(Pids)
    BY ControlStates DEF LineIsQueue
  <2>2. QED
    BY <2>1, ElementOfSeq
<1>2. Queues(q) /\ my_id[q] = security_queue[k]
  BY <1>1, ControlStates DEF LineIsQueue
<1>3. Queues(q)' /\ my_id'[q] = my_id[q]
  BY <1>1, <1>2, OthersKeepPlaces
<1>4. QED
  BY <1>1, <1>2, <1>3 DEF Queues, Holds, Info

LEMMA SameLine ==
  ASSUME IInv, IInv', NEW p \in Pids, Passenger(p), OthersKeep(p), UNCHANGED queueVars,
         Queues(p) => Queues(p)' /\ my_id'[p] = my_id[p]
  PROVE  Line' = Line
<1>1. \A k \in 0 .. (security_queue_size - 1) :
        /\ Line[k + 1] = passengers[security_queue[k]].pid
        /\ Line[k + 1] = p => Queues(p)
  BY ControlStates DEF Line, LineIsQueue
<1>2. \A k \in 0 .. (security_queue_size - 1) :
        passengers'[security_queue[k]].pid = passengers[security_queue[k]].pid
  BY <1>1, LineKept
<1>3. \A k \in 1 .. security_queue_size : k - 1 \in 0 .. (security_queue_size - 1)
  BY ControlStates DEF LineIsQueue
<1>4. security_queue' = security_queue /\ security_queue_size' = security_queue_size
  BY DEF queueVars
<1>5. QED
  BY ONLY <1>2, <1>3, <1>4 DEF Line

\* A step that moves nobody.
LEMMA KeepsPlaces ==
  ASSUME IInv, IInv', NEW p \in Pids, Passenger(p), OthersKeep(p), UNCHANGED queueVars,
         Queues(p)' <=> Queues(p),
         Queues(p) => my_id'[p] = my_id[p] /\ Info(p)'.times_passed = Info(p).times_passed,
         \A s \in Stations : AtStation(p, s)' <=> AtStation(p, s)
  PROVE  Line' = Line /\ Passes' = Passes /\ At' = At
<1>1. Line' = Line
  BY SameLine
<1>2. Passes' = Passes
  BY PassesStep DEF Passes
<1>3. At' = At
  <2>1. \A s \in Stations : AtOf(s)' = AtOf(s)
    BY OthersKeepPlaces DEF AtOf, AtStation
  <2>2. QED
    BY <2>1 DEF At
<1>4. QED
  BY <1>1, <1>2, <1>3

LEMMA ControlStutter ==
  ASSUME IInv, IInv', NEW p \in Pids, Passenger(p), OthersKeep(p), UNCHANGED queueVars,
         Queues(p)' <=> Queues(p),
         Queues(p) => my_id'[p] = my_id[p] /\ Info(p)'.times_passed = Info(p).times_passed,
         \A s \in Stations : AtStation(p, s)' <=> AtStation(p, s),
         pc'[p] \in InsidePcs <=> pc[p] \in InsidePcs
  PROVE  UNCHANGED Control!checkpointVars
<1>1. Line' = Line /\ Passes' = Passes /\ At' = At
  BY KeepsPlaces
<1>2. Inside' = Inside /\ UNCHANGED <<signal2_received, gender>>
  BY OthersKeepPlaces DEF Inside
<1>3. QED
  BY <1>1, <1>2, ControlStates DEF Control!checkpointVars, ControlIsMapped, Line, Inside

\* Steps that only p sees, and that leave p where it is.
LEMMA ControlUnseen ==
  ASSUME IInv, IInv', NEW p \in Pids, Passenger(p), Unseen,
         my_id' = my_id \/ (~Holds(p) /\ ~Holds(p)')
  PROVE  /\ OthersKeep(p) /\ Line' = Line /\ Passes' = Passes /\ At' = At
         /\ (pc'[p] \in InsidePcs <=> pc[p] \in InsidePcs)
              => UNCHANGED Control!checkpointVars
<1>1. OthersKeep(p) /\ UNCHANGED queueVars
  BY UnseenEffect DEF Unseen
<1>2. /\ Queues(p)' <=> Queues(p)
      /\ Queues(p) => my_id'[p] = my_id[p] /\ Info(p)'.times_passed = Info(p).times_passed
  BY DEF Unseen, Queues, Holds, Info
<1>3. \A s \in Stations : AtStation(p, s)' <=> AtStation(p, s)
  BY DEF Unseen, AtStation, Holds, Info
<1>4. QED
  BY <1>1, <1>2, <1>3, KeepsPlaces, ControlStutter

LEMMA WhereAbouts ==
  ASSUME IInv, NEW p \in Pids
  PROVE  /\ Control!InLine(p) <=> Queues(p)
         /\ Control!AtStation(p) <=> \E s \in Stations : AtStation(p, s)
<1>1. Control!InLine(p) <=> \E k \in DOMAIN Line : Line[k] = p
  BY DEF Control!InLine, Line
<1>2. DOMAIN Line = 1 .. security_queue_size /\ security_queue_size \in Nat
  BY LineState DEF LineIsQueue, Line
<1>3. ASSUME NEW k \in 1 .. security_queue_size, Line[k] = p PROVE Queues(p)
  <2>1. k - 1 \in 0 .. (security_queue_size - 1) /\ (k - 1) + 1 = k
    BY <1>2
  <2>2. QED
    BY <1>3, <2>1, LineState DEF LineIsQueue
<1>4. ASSUME Queues(p) PROVE \E k \in 1 .. security_queue_size : Line[k] = p
  <2>1. PICK k \in 0 .. (security_queue_size - 1) : Line[k + 1] = p
    BY <1>4, LineState DEF LineIsQueue
  <2>2. k + 1 \in 1 .. security_queue_size
    BY <1>2
  <2>3. QED
    BY <2>1, <2>2
<1>5. Control!AtStation(p) <=> \E s \in Stations : AtStation(p, s)
  <2>1. Control!AtStation(p) <=> \E s \in Stations : p \in At[s]
    BY ControlState DEF Control!AtStation, ControlIsMapped
  <2>2. QED
    BY <2>1 DEF At, AtOf, AtStation
<1>6. QED
  BY <1>1, <1>2, <1>3, <1>4, <1>5

LEMMA ControlAdmit ==
  ASSUME IInv, IInv', NEW p \in Pids, CheckIn(p), pc'[p] = "join"
  PROVE  Control!Admit(p)
<1>1. /\ pc[p] = "check" /\ Unseen /\ my_id' = my_id /\ Passenger(p)
  BY DEF CheckIn, Unseen, localVars, Passenger
<1>2. ~signal2_received
  <2>1. boarding_allowed
    BY DEF CheckIn, Goto, IInv, TypeOK
  <2>2. QED
    BY <2>1 DEF IInv, RoundsAndSignal
<1>3. OthersKeep(p) /\ Line' = Line /\ Passes' = Passes /\ At' = At
  BY <1>1, ControlUnseen
<1>4. Inside' = Inside \cup {p} /\ UNCHANGED <<signal2_received, gender>>
  BY <1>1, <1>3, OthersKeepPlaces DEF Inside, InsidePcs
<1>5. QED
  BY <1>2, <1>3, <1>4, ControlStates DEF Control!Admit, ControlIsMapped, Line, Inside

\* A passenger that is not in the queue goes: there was no room in the queue, or it
\* has passed the control.
LEMMA ControlGo ==
  ASSUME IInv, IInv', NEW p \in Pids, Passenger(p), Unseen, my_id' = my_id,
         pc[p] \in {"join", "waiting_room"}, pc'[p] \notin InsidePcs
  PROVE  Control!Leave(p)
<1>1. OthersKeep(p) /\ Line' = Line /\ Passes' = Passes /\ At' = At
  BY ControlUnseen
<1>2. /\ Inside' = Inside \ {p} /\ p \in Inside
      /\ UNCHANGED <<signal2_received, gender>>
  BY <1>1, OthersKeepPlaces DEF Inside, InsidePcs
<1>3. ~Control!InLine(p) /\ ~Control!AtStation(p)
  <2>1. pc[p] \in HoldingPcs \ (WaitingPcs \cup {"at_station"})
    BY DEF HoldingPcs, InsidePcs, WaitingPcs
  <2>2. ~Info(p).in_security_queue /\ Info(p).security_station_id = -1
    BY <2>1 DEF IInv, WaitersAreQueued, Info
  <2>3. QED
    BY <2>2, WhereAbouts DEF Queues, AtStation, Stations
<1>4. QED
  BY <1>1, <1>2, <1>3, ControlStates DEF Control!Leave, ControlIsMapped, Line, Inside

LEMMA ControlJoin ==
  ASSUME IInv, IInv', CleanStart, NEW p \in Pids, JoinSecurityQueue(p), pc'[p] # "unregister"
  PROVE  Control!Join(p)
<1> DEFINE n == security_queue_size
<1>1. OthersKeep(p) /\ Joins(p) /\ my_id'[p] = my_id[p] /\ Passenger(p)
  BY JoinEffect DEF Passenger
<1>2. Info(p)'.times_passed = 0 /\ ~Queues(p)
  BY <1>1 DEF Joins, CleanStart, Info, Queues
<1>3. Queues(p)'
  <2>1. (IInv => \A q \in Pids : pc[q] \in HoldingPcs => Holds(q))'
    BY HoldersAreActive, PTL
  <2>2. QED
    BY <1>1, <2>1 DEF Joins, Queues, HoldingPcs, InsidePcs, WaitingPcs
<1>4. ~Control!InLine(p) /\ ~Control!AtStation(p)
  BY <1>1, <1>2, WhereAbouts DEF Joins, AtStation, Stations
<1>5. Line' = Append(Line, p)
  <2>1. /\ n \in Nat /\ security_queue_size' = n + 1
        /\ Line \in Seq(Pids) /\ Len(Line) = n /\ Line' \in Seq(Pids) /\ Len(Line') = n + 1
    BY <1>1, ControlStates DEF Joins, LineIsQueue
  <2>2. \A k \in 1 .. n : Line'[k] = Line[k]
    <3> SUFFICES ASSUME NEW k \in 1 .. n PROVE Line'[k] = Line[k]
      OBVIOUS
    <3>1. k - 1 \in 0 .. (n - 1) /\ (k - 1) + 1 = k /\ k \in 1 .. (n + 1)
      BY <2>1
    <3>2. passengers'[security_queue[k - 1]].pid = Line[(k - 1) + 1]
      BY <1>1, <1>3, <3>1, LineKept
    <3>3. security_queue'[k - 1] = security_queue[k - 1]
      BY <1>1, <3>1 DEF Joins, IsAppended
    <3>4. QED
      BY <2>1, <3>1, <3>2, <3>3 DEF Line
  <2>3. Line'[n + 1] = p
    <3>1. security_queue'[n] = my_id[p] /\ n + 1 \in 1 .. (n + 1) /\ (n + 1) - 1 = n
      BY <1>1, <2>1 DEF Joins, IsAppended
    <3>2. QED
      BY <1>1, <1>3, <2>1, <3>1 DEF Line, Queues, Holds, Info
  <2>4. /\ Append(Line, p) \in Seq(Pids) /\ Len(Append(Line, p)) = n + 1
        /\ \A k \in 1 .. n : Append(Line, p)[k] = Line[k]
        /\ Append(Line, p)[n + 1] = p
    BY <2>1, AppendProperties
  <2>5. \A k \in 1 .. Len(Line') : Line'[k] = Append(Line, p)[k]
    BY <2>1, <2>2, <2>3, <2>4
  <2>6. QED
    BY <2>1, <2>4, <2>5, SeqEqual
<1>6. Passes' = Passes
  <2>1. Passes' = [Passes EXCEPT ![p] = 0]
    BY <1>1, <1>2, PassesStep
  <2>2. QED
    BY <1>2, <2>1 DEF Passes
<1>7. At' = At
  <2>1. \A s \in Stations : AtStation(p, s)' <=> AtStation(p, s)
    BY <1>1 DEF Joins, AtStation, Stations
  <2>2. \A s \in Stations : AtOf(s)' = AtOf(s)
    BY <1>1, <2>1, OthersKeepPlaces DEF AtOf, AtStation
  <2>3. QED
    BY <2>2 DEF At
<1>8. /\ Inside' = Inside /\ p \in Inside
      /\ UNCHANGED <<signal2_received, gender>>
  BY <1>1, OthersKeepPlaces DEF Inside, InsidePcs, WaitingPcs, Joins
<1>9. QED
  BY <1>4, <1>5, <1>6, <1>7, <1>8, ControlStates DEF Control!Join, ControlIsMapped, Line, Inside

LEMMA ControlStepOut ==
  ASSUME IInv, IInv', NEW p \in Pids, Passenger(p), OthersKeep(p),
         Holds(p), NEW s, LeavesLine(p, s)
  PROVE  Control!StepOut(p)
<1> DEFINE n == security_queue_size
<1>1. PICK c \in 0 .. (n - 1) :
        /\ security_queue[c] = my_id[p]
        /\ \A k \in 0 .. (n - 2) :
             security_queue'[k] = IF k < c THEN security_queue[k] ELSE security_queue[k + 1]
  BY DEF LeavesLine, TakenOut
<1>2. /\ n \in Nat /\ security_queue_size' = n - 1
      /\ Line \in Seq(Pids) /\ Len(Line) = n /\ Line' \in Seq(Pids) /\ Len(Line') = n - 1
  BY ControlStates DEF LineIsQueue, LeavesLine, TakenOut
<1>3. c + 1 \in 1 .. n /\ Line[c + 1] = p
  <2>1. c + 1 \in 1 .. n /\ (c + 1) - 1 = c
    BY <1>2
  <2>2. QED
    BY <1>1, <2>1 DEF Line, Holds, Info
<1>4. ASSUME NEW k \in 0 .. (n - 1), k # c
      PROVE  passengers'[security_queue[k]].pid = Line[k + 1]
  <2>1. security_queue[k] # my_id[p]
    BY <1>1, <1>4 DEF IInv, QueueMirrorsPassengers, Distinct
  <2>2. Line[k + 1] # p
    BY <2>1, ControlStates DEF LineIsQueue
  <2>3. QED
    BY <2>2, LineKept
<1>5. \A k \in 1 .. (n - 1) : Line'[k] = IF k < c + 1 THEN Line[k] ELSE Line[k + 1]
  <2> SUFFICES ASSUME NEW k \in 1 .. (n - 1)
               PROVE  Line'[k] = IF k < c + 1 THEN Line[k] ELSE Line[k + 1]
    OBVIOUS
  <2>1. Line'[k] = passengers'[security_queue'[k - 1]].pid /\ k - 1 \in 0 .. (n - 2)
    BY <1>2 DEF Line
  <2>2. CASE k < c + 1
    <3>1. k - 1 < c /\ k - 1 \in 0 .. (n - 1) /\ k - 1 # c /\ (k - 1) + 1 = k
      BY <1>2, <2>2
    <3>2. security_queue'[k - 1] = security_queue[k - 1]
      BY <1>1, <2>1, <3>1
    <3>3. passengers'[security_queue[k - 1]].pid = Line[(k - 1) + 1]
      BY <1>4, <3>1
    <3>4. QED
      BY <2>1, <2>2, <3>1, <3>2, <3>3
  <2>3. CASE ~(k < c + 1)
    <3>1. ~(k - 1 < c) /\ k \in 0 .. (n - 1) /\ k # c /\ (k - 1) + 1 = k
      BY <1>2, <2>3
    <3>2. security_queue'[k - 1] = security_queue[k]
      BY <1>1, <2>1, <3>1
    <3>3. passengers'[security_queue[k]].pid = Line[k + 1]
      BY <1>4, <3>1
    <3>4. QED
      BY <2>1, <2>3, <3>2, <3>3
  <2>4. QED
    BY <2>2, <2>3
<1>6. Line' = Control!RemoveAt(Line, c + 1)
  <2>1. \A k \in 1 .. Len(Line') : Line'[k] = IF k < c + 1 THEN Line[k] ELSE Line[k + 1]
    BY <1>2, <1>5
  <2>2. c + 1 \in 1 .. Len(Line) /\ Len(Line') = Len(Line) - 1
    BY <1>2, <1>3
  <2>3. Line' = SubSeq(Line, 1, (c + 1) - 1) \o SubSeq(Line, (c + 1) + 1, Len(Line))
    BY ONLY <1>2, <2>1, <2>2, Removed
  <2>4. QED
    BY <2>3 DEF Control!RemoveAt
<1>7. \E k \in DOMAIN Line : Line[k] = p /\ Line' = Control!RemoveAt(Line, k)
  <2>1. c + 1 \in DOMAIN Line
    BY <1>3 DEF Line
  <2>2. QED
    BY <1>3, <1>6, <2>1
<1>8. Passes' = [Passes EXCEPT ![p] = 0]
  <2>1. ~Queues(p)'
    BY DEF LeavesLine, Queues
  <2>2. QED
    BY <2>1, PassesStep
<1>9. QED
  BY <1>7, <1>8, ControlStates DEF Control!StepOut, ControlIsMapped, Line

LEMMA ControlLeaveQueue ==
  ASSUME IInv, IInv', NEW p \in Pids, LeaveSecurityQueue(p)
  PROVE  Control!Leave(p)
<1>1. /\ OthersKeep(p) /\ LeavesLine(p, -1) /\ Passenger(p)
      /\ pc[p] = "leave_queue" /\ pc'[p] = "unregister"
  BY LeaveQueueEffect DEF Passenger
<1>2. Holds(p)
  BY <1>1, HoldersAreActive DEF HoldingPcs, InsidePcs, WaitingPcs
<1>3. Control!StepOut(p)
  BY <1>1, <1>2, ControlStepOut
<1>4. \A s \in Stations : ~AtStation(p, s) /\ ~AtStation(p, s)'
  BY <1>1 DEF LeavesLine, AtStation, Stations
<1>5. At' = At
  <2>1. \A s \in Stations : AtOf(s)' = AtOf(s)
    BY <1>1, <1>4, OthersKeepPlaces DEF AtOf, AtStation
  <2>2. QED
    BY <2>1 DEF At
<1>6. /\ Inside' = Inside \ {p} /\ p \in Inside
      /\ UNCHANGED <<signal2_received, gender>>
  BY <1>1, OthersKeepPlaces DEF Inside, InsidePcs, WaitingPcs
<1>7. ~Control!AtStation(p)
  BY <1>4, WhereAbouts
<1>8. QED
  BY <1>3, <1>5, <1>6, <1>7, ControlStates DEF Control!Leave, ControlIsMapped, Inside

\* A usable station has room, and nobody of the other gender.
LEMMA StationHasRoom ==
  ASSUME IInv, NEW s \in Stations, NEW g, Usable(s, g)
  PROVE  /\ Cardinality(AtOf(s)) < MAX_PEOPLE_PER_STATION
         /\ \A q \in AtOf(s) : gender[q] = g
<1> DEFINE st == security_stations[s]
<1>0. \/ st.num_people = 0
      \/ st.station_gender = g /\ st.num_people < MAX_PEOPLE_PER_STATION
  BY Zenon DEF Usable
<1>1. /\ st.num_people \in 0 .. MAX_PEOPLE_PER_STATION
      /\ st.num_people < MAX_PEOPLE_PER_STATION
  <2>1. st \in SecurityStation
    BY DEF IInv, TypeOK
  <2>2. st.num_people \in 0 .. MAX_PEOPLE_PER_STATION
    BY <2>1 DEF SecurityStation
  <2> HIDE DEF st
  <2>3. QED
    BY ONLY <1>0, <2>2, SizesAssumption
<1>2. \A q \in AtOf(s) : my_id[q] \in Window(st.passenger_ids, st.num_people)
  BY DEF AtOf, Holds, Info, IInv, StationsSegregated, StationWindow
<1>3. \A q, r \in AtOf(s) : q # r => my_id[q] # my_id[r]
  BY DEF AtOf, Holds, Info
<1>4. Cardinality(AtOf(s)) <= st.num_people
  BY <1>1, <1>2, <1>3, NoMoreThanCells
<1>5. Cardinality(AtOf(s)) \in Nat
  <2>1. AtOf(s) \subseteq Pids
    BY DEF AtOf
  <2>2. QED
    BY <2>1, PidsAssumption, FS_Subset, FS_CardinalityType
<1>6. ASSUME NEW q \in AtOf(s) PROVE gender[q] = g
  <2>1. PICK k \in 0 .. (st.num_people - 1) : st.passenger_ids[k] = my_id[q]
    BY <1>2 DEF Window
  <2>2. passengers[my_id[q]].gender = st.station_gender
    BY <2>1 DEF IInv, StationsSegregated
  <2>3. passengers[my_id[q]].gender = gender[q]
    BY DEF AtOf, Holds, Info, IInv, SlotsOwned
  <2>4. st.num_people # 0
    BY <2>1
  <2>5. st.station_gender = g
    BY ONLY <1>0, <2>4, Zenon
  <2>6. QED
    BY <2>2, <2>3, <2>5
<1> HIDE DEF st
<1>7. Cardinality(AtOf(s)) < MAX_PEOPLE_PER_STATION
  BY ONLY <1>1, <1>4, <1>5, SizesAssumption
<1>8. QED
  BY <1>6, <1>7

LEMMA ControlCall ==
  ASSUME IInv, IInv', NEW p \in Pids, AssignToSecurityStation(p), pc'[p] # "position"
  PROVE  \E s \in Stations : Control!Call(p, s)
<1>1. /\ OthersKeep(p) /\ my_id'[p] = my_id[p] /\ Passenger(p)
      /\ pc[p] = "assign" /\ pc'[p] = "at_station"
  BY AssignEffect DEF Passenger
<1>2. PICK s \in Stations : Usable(s, gender[p]) /\ LeavesLine(p, s)
  BY AssignEffect
<1>3. Holds(p) /\ Holds(p)'
  <2>1. (IInv => \A q \in Pids : pc[q] \in HoldingPcs => Holds(q))'
    BY HoldersAreActive, PTL
  <2>2. QED
    BY <1>1, <2>1, HoldersAreActive DEF HoldingPcs, InsidePcs, WaitingPcs
<1>4. Control!StepOut(p)
  BY <1>1, <1>2, <1>3, ControlStepOut
<1>5. At' = [At EXCEPT ![s] = @ \cup {p}]
  <2>1. \A t \in Stations : ~AtStation(p, t) /\ (AtStation(p, t)' <=> t = s)
    BY <1>2, <1>3 DEF LeavesLine, AtStation, Stations
  <2>2. \A t \in Stations : AtOf(t)' = IF t = s THEN AtOf(t) \cup {p} ELSE AtOf(t)
    BY <1>1, <2>1, OthersKeepPlaces DEF AtOf, AtStation
  <2>3. QED
    BY <2>2 DEF At
<1>6. /\ Inside' = Inside /\ p \in Inside
      /\ UNCHANGED <<signal2_received, gender>>
  BY <1>1, OthersKeepPlaces DEF Inside, InsidePcs, WaitingPcs
<1>7. /\ Control!Cardinality(At[s]) < MAX_PEOPLE_PER_STATION
      /\ \A q \in At[s] : gender[q] = gender[p]
  <2>1. At[s] = AtOf(s)
    BY DEF At
  <2>2. Control!Cardinality(AtOf(s)) = Cardinality(AtOf(s))
    BY DEF Cardinality, Control!Cardinality
  <2>3. QED
    BY <1>2, <2>1, <2>2, StationHasRoom
<1>8. Control!Call(p, s)
  BY <1>4, <1>5, <1>6, <1>7, ControlStates DEF Control!Call, ControlIsMapped, Inside
<1>9. QED
  BY <1>8

LEMMA ControlLetPass ==
  ASSUME IInv, IInv', NEW p \in Pids, PassInQueue(p), ~UNCHANGED <<passengers, queueVars>>
  PROVE  \E k \in 1 .. (Len(Line) - 1) : Control!LetPass(k)
<1> DEFINE n == security_queue_size
<1>1. /\ OthersKeep(p) /\ LetsPass(p) /\ my_id'[p] = my_id[p] /\ Passenger(p)
      /\ pc[p] = "pass" /\ pc'[p] = "loop"
  BY PassEffect DEF Passenger
<1>2. Holds(p) /\ Holds(p)'
  <2>1. (IInv => \A q \in Pids : pc[q] \in HoldingPcs => Holds(q))'
    BY HoldersAreActive, PTL
  <2>2. QED
    BY <1>1, <2>1, HoldersAreActive DEF HoldingPcs, InsidePcs, WaitingPcs
<1>3. Queues(p) /\ Queues(p)'
  BY <1>1, <1>2 DEF LetsPass, Queues
<1>4. PICK c \in 0 .. (n - 2) :
        /\ security_queue[c] = my_id[p]
        /\ security_queue'[c] = security_queue[c + 1]
        /\ security_queue'[c + 1] = my_id[p]
        /\ \A k \in 0 .. (n - 1) : k # c /\ k # c + 1 => security_queue'[k] = security_queue[k]
  BY <1>1 DEF LetsPass
<1>5. /\ n \in Nat /\ security_queue_size' = n
      /\ Line \in Seq(Pids) /\ Len(Line) = n
      /\ Line = [k \in 1 .. n |-> Line[k]] /\ Line' = [k \in 1 .. n |-> Line'[k]]
  BY <1>1, ControlStates DEF LineIsQueue, LetsPass, Line
<1>6. \A k \in 0 .. (n - 1) :
        /\ k + 1 \in 1 .. n
        /\ Line'[k + 1] = passengers'[security_queue'[k]].pid
        /\ passengers'[security_queue[k]].pid = Line[k + 1]
        /\ security_queue[k] = my_id[p] => Line[k + 1] = p
  <2> SUFFICES ASSUME NEW k \in 0 .. (n - 1)
               PROVE  /\ k + 1 \in 1 .. n
                      /\ Line'[k + 1] = passengers'[security_queue'[k]].pid
                      /\ passengers'[security_queue[k]].pid = Line[k + 1]
                      /\ security_queue[k] = my_id[p] => Line[k + 1] = p
    OBVIOUS
  <2>1. k + 1 \in 1 .. n /\ (k + 1) - 1 = k
    BY <1>5
  <2>2. /\ Line'[k + 1] = passengers'[security_queue'[k]].pid
        /\ Line[k + 1] = passengers[security_queue[k]].pid
    BY <1>5, <2>1 DEF Line
  <2>3. passengers'[security_queue[k]].pid = Line[k + 1]
    BY <1>1, <1>3, LineKept
  <2>4. QED
    BY <1>2, <2>1, <2>2, <2>3 DEF Holds, Info
<1> DEFINE m == c + 1
<1>7. /\ m \in 1 .. (n - 1) /\ m + 1 \in 1 .. n /\ m \in 1 .. n
      /\ c \in 0 .. (n - 1) /\ c + 1 \in 0 .. (n - 1)
  BY <1>4, <1>5
<1>8. /\ Line[m] = p /\ Line'[m] = Line[m + 1] /\ Line'[m + 1] = p
      /\ \A k \in 1 .. n : k # m /\ k # m + 1 => Line'[k] = Line[k]
  <2>1. Line[m] = p /\ Line'[m] = Line[m + 1]
    BY <1>4, <1>6, <1>7
  <2>2. Line'[m + 1] = p
    BY <1>2, <1>4, <1>6, <1>7, <1>1 DEF Holds, Info
  <2>3. ASSUME NEW k \in 1 .. n, k # m, k # m + 1 PROVE Line'[k] = Line[k]
    <3>1. k - 1 \in 0 .. (n - 1) /\ k - 1 # c /\ k - 1 # c + 1 /\ (k - 1) + 1 = k
      BY <1>5, <1>7, <2>3
    <3>2. QED
      BY <1>4, <1>6, <3>1
  <2>4. QED
    BY <2>1, <2>2, <2>3
<1> HIDE DEF m
<1>9. Line' = [Line EXCEPT ![m] = Line[m + 1], ![m + 1] = p]
  BY ONLY <1>5, <1>7, <1>8
<1>10. /\ Passes[p] < MAX_QUEUE_PASSES
       /\ Passes' = [Passes EXCEPT ![p] = @ + 1]
  <2>1. Passes[p] = Info(p).times_passed
    BY <1>3 DEF Passes
  <2>2. Passes' = [Passes EXCEPT ![p] = Info(p)'.times_passed]
    BY <1>1, <1>3, PassesStep
  <2>3. QED
    BY <1>1, <2>1, <2>2 DEF LetsPass
<1>11. At' = At
  <2>1. \A s \in Stations : AtStation(p, s)' <=> AtStation(p, s)
    BY <1>1, <1>2 DEF LetsPass, AtStation
  <2>2. \A s \in Stations : AtOf(s)' = AtOf(s)
    BY <1>1, <2>1, OthersKeepPlaces DEF AtOf, AtStation
  <2>3. QED
    BY <2>2 DEF At
<1>12. /\ Inside' = Inside /\ p \in Inside
       /\ UNCHANGED <<signal2_received, gender>>
  BY <1>1, OthersKeepPlaces DEF Inside, InsidePcs, WaitingPcs
<1>13. Control!LetPass(m)
  BY <1>8, <1>9, <1>10, <1>11, <1>12, ControlStates DEF Control!LetPass, ControlIsMapped, Line, Inside
<1>14. QED
  BY <1>5, <1>7, <1>13

LEMMA ControlFinish ==
  ASSUME IInv, IInv', NEW p \in Pids, CompleteSecurityCheck(p)
  PROVE  \E s \in Stations : Control!Finish(p, s)
<1>1. /\ OthersKeep(p) /\ Completes(p) /\ my_id'[p] = my_id[p] /\ Passenger(p)
      /\ pc[p] = "at_station" /\ pc'[p] = "waiting_room" /\ UNCHANGED queueVars
  BY CompleteEffect DEF Passenger
<1>2. PICK s \in Stations : s = Info(p).security_station_id
  BY <1>1 DEF Completes
<1>3. Holds(p)
  BY <1>1, HoldersAreActive DEF HoldingPcs, InsidePcs
<1>4. Line' = Line
  BY <1>1, SameLine DEF Completes, Queues
<1>5. Passes' = Passes
  BY <1>1, PassesStep DEF Passes, Completes, Queues
<1>6. At' = [At EXCEPT ![s] = @ \ {p}] /\ p \in At[s]
  <2>1. /\ \A t \in Stations : AtStation(p, t) <=> t = s
        /\ \A t \in Stations : ~AtStation(p, t)'
    BY <1>1, <1>2, <1>3 DEF Completes, AtStation, Stations
  <2>2. \A t \in Stations : AtOf(t)' = IF t = s THEN AtOf(t) \ {p} ELSE AtOf(t)
    BY <1>1, <2>1, OthersKeepPlaces DEF AtOf, AtStation
  <2>3. p \in AtOf(s)
    BY <2>1 DEF AtOf, AtStation
  <2>4. QED
    BY <2>2, <2>3 DEF At
<1>7. /\ Inside' = Inside /\ p \in Inside
      /\ UNCHANGED <<signal2_received, gender>>
  BY <1>1, OthersKeepPlaces DEF Inside, InsidePcs
<1>8. Control!Finish(p, s)
  BY <1>4, <1>5, <1>6, <1>7, ControlStates DEF Control!Finish, ControlIsMapped, Line, Inside
<1>9. QED
  BY <1>8

LEMMA ControlClose ==
  ASSUME IInv, IInv', SendSignal2
  PROVE  Control!Close
<1>1. /\ ~signal2_received /\ signal2_received' = TRUE
      /\ UNCHANGED <<passengers, queueVars, my_id, gender>>
  BY DEF SendSignal2, IInv, RoundsAndSignal
<1>2. Inside' \subseteq Inside
  BY DEF SendSignal2, Inside, InsidePcs, WaitingPcs
<1>3. Line' = Line /\ Passes' = Passes /\ At' = At
  BY <1>1 DEF Line, Passes, At, AtOf, Queues, Holds, Info, queueVars
<1>4. QED
  BY <1>1, <1>2, <1>3, ControlStates DEF Control!Close, ControlIsMapped, Line, Inside

\* Every step of a passenger is one of these, or none.
LEMMA PassengerInControl ==
  ASSUME IInv, IInv', CleanStart, NEW p \in Pids, Passenger(p)
  PROVE  [Control!Next]_Control!checkpointVars
<1>0. pc \in [Pids -> Pcs] /\ my_id \in [Pids -> Ids \cup {-1}]
  BY DEF IInv, TypeOK
<1>1. CASE \/ LoopHead(p) \/ GetQueuePosition(p) \/ GetQueueSize(p) \/ RegisterPassengerPid(p)
           \/ CheckIn(p) /\ pc'[p] # "join"
  <2>1. /\ Unseen /\ my_id' = my_id
        /\ pc'[p] \in InsidePcs <=> pc[p] \in InsidePcs
    BY <1>0, <1>1 DEF CheckIn, LoopHead, GetQueuePosition, GetQueueSize, RegisterPassengerPid,
         Unseen, localVars, NextRound, Goto, InsidePcs, WaitingPcs
  <2>2. QED
    BY <2>1, ControlUnseen
<1>2. CASE UnregisterPassengerPid(p)
  <2>1. /\ Unseen /\ pc[p] \in {"unregister_pid", "journey_end"}
        /\ pc[p] \notin InsidePcs /\ pc'[p] \notin InsidePcs
        /\ pc[p] = "journey_end" => my_id' = my_id
    BY <1>0, <1>2 DEF UnregisterPassengerPid, Unseen, Goto, Exit, InsidePcs, WaitingPcs
  <2>2. CASE pc[p] = "journey_end"
    BY <2>1, <2>2, ControlUnseen
  <2>3. CASE pc[p] = "unregister_pid"
    <3>1. ~Holds(p)
      BY <2>3, HoldersAreActive DEF HoldingPcs, InsidePcs, WaitingPcs
    <3>2. ~Holds(p)'
      <4>1. my_id'[p] = -1
        BY <1>0, <1>2, <2>3 DEF UnregisterPassengerPid, Exit
      <4>2. QED
        BY <4>1 DEF Holds, Ids
    <3>3. QED
      BY <2>1, <3>1, <3>2, ControlUnseen
  <2>4. QED
    BY <2>1, <2>2, <2>3
<1>3. CASE \/ RegisterPassenger(p) /\ pc'[p] = "unregister_pid"
           \/ AssignToSecurityStation(p) /\ pc'[p] = "position"
           \/ PassInQueue(p) /\ UNCHANGED <<passengers, queueVars>>
  <2>1. Unseen /\ my_id' = my_id
    BY <1>3, FailedEffect, ZenonT(60) DEF PassInQueue, Unseen
  <2>2. pc[p] \in InsidePcs <=> pc'[p] \in InsidePcs
    <3>1. CASE RegisterPassenger(p) /\ pc'[p] = "unregister_pid"
      BY <3>1 DEF RegisterPassenger, InsidePcs, WaitingPcs
    <3>2. CASE AssignToSecurityStation(p) /\ pc'[p] = "position"
      <4>1. pc[p] = "assign"
        BY <3>2, ZenonT(60) DEF AssignToSecurityStation
      <4>2. QED
        BY <3>2, <4>1 DEF InsidePcs, WaitingPcs
    <3>3. CASE PassInQueue(p)
      <4>1. pc[p] = "pass" /\ pc' = [pc EXCEPT ![p] = "loop"]
        BY <3>3, ZenonT(60) DEF PassInQueue, NextRound, Goto
      <4>2. QED
        BY <1>0, <4>1 DEF InsidePcs, WaitingPcs
    <3>4. QED
      BY <1>3, <3>1, <3>2, <3>3
  <2>3. QED
    BY <2>1, <2>2, ControlUnseen
<1>4. CASE CheckIn(p) /\ pc'[p] = "join"
  BY <1>4, ControlAdmit DEF Control!Next
<1>5. CASE RegisterPassenger(p) /\ pc'[p] # "unregister_pid"
  <2>1. OthersKeep(p) /\ Registers(p)
    BY <1>5, RegisterEffect
  <2>2. ~Info(p)'.in_security_queue /\ Info(p)'.security_station_id = -1
    <3>1. pc'[p] \in HoldingPcs \ (WaitingPcs \cup {"at_station"})
      BY <2>1 DEF Registers, HoldingPcs, InsidePcs, WaitingPcs
    <3>2. QED
      BY <3>1 DEF IInv, WaitersAreQueued, Info
  <2>3. /\ ~Queues(p) /\ ~Queues(p)'
        /\ \A s \in Stations : AtStation(p, s)' <=> AtStation(p, s)
    BY <2>1, <2>2 DEF Registers, Queues, AtStation, Stations
  <2>4. UNCHANGED queueVars /\ (pc'[p] \in InsidePcs <=> pc[p] \in InsidePcs)
    BY <2>1 DEF Registers, InsidePcs, WaitingPcs
  <2>5. QED
    BY <2>1, <2>3, <2>4, ControlStutter
<1>6. CASE JoinSecurityQueue(p) /\ pc'[p] # "unregister"
  BY <1>6, ControlJoin DEF Control!Next
<1>7. CASE JoinSecurityQueue(p) /\ pc'[p] = "unregister"
  <2>1. Unseen /\ my_id' = my_id /\ pc[p] = "join" /\ pc'[p] \notin InsidePcs
    BY <1>7, FailedEffect DEF JoinSecurityQueue, InsidePcs, WaitingPcs
  <2>2. QED
    BY <2>1, ControlGo DEF Control!Next
<1>8. CASE AssignToSecurityStation(p) /\ pc'[p] # "position"
  BY <1>8, ControlCall DEF Control!Next
<1>9. CASE PassInQueue(p) /\ ~UNCHANGED <<passengers, queueVars>>
  BY <1>9, ControlLetPass DEF Control!Next, Line
<1>10. CASE LeaveSecurityQueue(p)
  BY <1>10, ControlLeaveQueue DEF Control!Next
<1>11. CASE CompleteSecurityCheck(p)
  BY <1>11, ControlFinish DEF Control!Next
<1>12. CASE LeaveWaitingRoom(p)
  <2>1. /\ Unseen /\ my_id' = my_id
        /\ pc[p] = "waiting_room" /\ pc'[p] \notin InsidePcs
    BY <1>0, <1>12 DEF LeaveWaitingRoom, Goto, Unseen, localVars, InsidePcs, WaitingPcs
  <2>2. QED
    BY <2>1, ControlGo DEF Control!Next
<1>13. CASE UnregisterPassenger(p)
  <2>1. /\ OthersKeep(p) /\ Holds(p) /\ ~Holds(p)' /\ UNCHANGED queueVars
        /\ ~Info(p).in_security_queue /\ Info(p).security_station_id = -1
        /\ pc[p] \notin InsidePcs /\ pc'[p] \notin InsidePcs
    BY <1>13, UnregisterEffect DEF InsidePcs, WaitingPcs
  <2>2. /\ ~Queues(p) /\ ~Queues(p)'
        /\ \A s \in Stations : AtStation(p, s)' <=> AtStation(p, s)
    BY <2>1 DEF Queues, AtStation, Stations
  <2>3. QED
    BY <2>1, <2>2, ControlStutter
<1>14. QED
  BY ONLY Passenger(p), <1>1, <1>2, <1>3, <1>4, <1>5, <1>6, <1>7, <1>8, <1>9, <1>10, <1>11,
     <1>12, <1>13, Zenon DEF Passenger

\* The security control, with its arrays, positions, slots and flags, behaves like a
\* line of people and groups at the stations, for any number of passengers.
THEOREM ImplementsCheckpoint == Spec => IsCheckpoint
<1>1. Init => Control!Init
  <2> SUFFICES ASSUME Init PROVE Control!Init
    OBVIOUS
  <2>1. IInv
    BY InitInvariant
  <2>2. ~ \E q \in Pids : Holds(q)
    BY DEF Init, Holds, Info
  <2>3. Passes = [q \in Pids |-> 0] /\ At = [s \in Stations |-> {}]
    BY <2>2 DEF Passes, Queues, At, AtOf
  <2>4. Line = <<>>
    BY DEF Init, Line
  <2>5. Inside = {}
    BY DEF Init, Inside, InsidePcs, WaitingPcs
  <2>6. gender \in [Pids -> {"MALE", "FEMALE"}] /\ signal2_received = FALSE
    BY DEF Init, Genders
  <2>7. QED
    BY <2>1, <2>3, <2>4, <2>5, <2>6, ControlState DEF Control!Init, ControlIsMapped, Line, Inside
<1>2. IInv /\ IInv' /\ CleanStart /\ [Next]_vars => [Control!Next]_Control!checkpointVars
  <2> SUFFICES ASSUME IInv, IInv', CleanStart, [Next]_vars
               PROVE  [Control!Next]_Control!checkpointVars
    OBVIOUS
  <2>1. CASE UNCHANGED vars \/ StopBoarding
    <3>1. UNCHANGED <<passengers, queueVars, security_stations, signal2_received, pc, my_id, gender>>
      BY <2>1 DEF vars, localVars, captainVars, StopBoarding
    <3>2. QED
      BY <3>1 DEF Control!checkpointVars, queueVars, QueuesAs, StationWindow
  <2>2. CASE SendSignal2
    BY <2>2, ControlClose DEF Control!Next
  <2>3. ASSUME NEW p \in Pids, Passenger(p) PROVE [Control!Next]_Control!checkpointVars
    BY <2>3, PassengerInControl
  <2>4. QED
    BY <2>1, <2>2, <2>3 DEF Next, Captain
<1>3. QED
  BY <1>1, <1>2, Invariant, CleanStartCorrect, PTL DEF Spec, IsCheckpoint, Control!Spec

=============================================================================
