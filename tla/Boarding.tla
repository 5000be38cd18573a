------------------------------ MODULE Boarding ------------------------------
(***************************************************************************)
(* Ferries, the gangway and the last part of a passenger's way: ferry.c,   *)
(* passenger.c from the waiting room on, and the processes that bring the  *)
(* port to its end, captain.c and main.c.                                  *)
(*                                                                         *)
(* A critical section under SEM_SHM_MUTEX is one step (Semaphores.tla); a  *)
(* section that only reads what is printed is none.  A passenger appears   *)
(* here with the slot it registered, past the control (SecurityControl.tla *)
(* says what happens in between).  A process that sleeps in semop when its *)
(* signal comes exits there and leaves everything behind: "killed".        *)
(*                                                                         *)
(* There is no clock.  Every sleep may last as long as it likes, and the   *)
(* two limits of ferry.c, which it measures in rounds of sleep(1), are     *)
(* numbers of rounds.                                                      *)
(***************************************************************************)
EXTENDS Arrays, FiniteSets

CONSTANTS
  FerryPids, PassengerPids,  \* the processes main.c forks
  MAX_PASSENGERS,            \* slots of passengers[]
  MAX_FERRIES,               \* slots of ferries[]
  FERRY_CAPACITY,
  GANGWAY_CAPACITY,
  Vips,                      \* what is_vip may be drawn as
  Weights,                   \* luggage that passed the scales
  LuggageLimits,             \* limits a ferry may draw
  BOARDING_TIME_LIMIT,       \* rounds of the boarding loop
  MAX_GANGWAY_WAIT,          \* rounds a ferry waits for the gangway
  MAX_ATTEMPTS,              \* rounds of a passenger's search for a ferry
  MAX_GANGWAY_ATTEMPTS

ASSUME PortAssumption ==
  /\ IsFiniteSet(FerryPids) /\ IsFiniteSet(PassengerPids)
  /\ MAX_PASSENGERS \in Nat /\ MAX_FERRIES \in Nat
  /\ FERRY_CAPACITY \in Nat \ {0} /\ GANGWAY_CAPACITY \in Nat \ {0}
  /\ Vips \subseteq BOOLEAN
  /\ Weights \subseteq Nat /\ LuggageLimits \subseteq Nat /\ LuggageLimits # {}
  /\ BOARDING_TIME_LIMIT \in Nat /\ MAX_GANGWAY_WAIT \in Nat
  /\ MAX_ATTEMPTS \in Nat /\ MAX_GANGWAY_ATTEMPTS \in Nat \ {0}

Ids == 0 .. (MAX_PASSENGERS - 1)
FerryIds == 0 .. (MAX_FERRIES - 1)

VARIABLES
  active,                    \* passengers[i].active, of those past the control
  ferries,                   \* slot -> FerryInfo
  gangway,
  ferry_pids,                \* as a set: an array compacted like passenger_pids
  passenger_pids,            \* those past the control, as a set: PidsListed of SecurityControl
  signal1_received, all_passengers_finished,
  fpc, my_ferry, force_departure_flag, should_exit, waited,
  ppc, my_id, ferry_id, vip, luggage, stop_boarding_flag, attempts,
  captain_pc, launcher_pc,
  sailed,                    \* history: the ferry sailed since p found or boarded it
  late_departures            \* history: departures since signal1_received

flags == <<signal1_received, all_passengers_finished>>
ferryLocals == <<my_ferry, force_departure_flag, should_exit, waited>>
passengerLocals == <<my_id, ferry_id, vip, luggage, stop_boarding_flag, attempts>>
history == <<sailed, late_departures>>
vars == <<active, ferries, gangway, ferry_pids, passenger_pids, flags, fpc, ferryLocals, ppc,
          passengerLocals, captain_pc, launcher_pc, history>>

-----------------------------------------------------------------------------
\* The ferry is open to passengers: its status says BOARDING.
OpenPcs == {"boarding", "finished", "full", "limit", "gangway", "sail"}
FerrySlotPcs == {"reset", "open"} \cup OpenPcs \cup {"sailing", "returned", "new_limit"}
FerryPcs == {"start", "register", "unregister_pid", "unregister", "ended", "killed"}
            \cup FerrySlotPcs
ListedFerryPcs == {"register", "unregister_pid"} \cup FerrySlotPcs

GangwayPcs == {"board", "leave_gangway", "back"}
AboardPcs == {"leave_gangway", "on_ferry"}
\* The points at which a passenger waits for the mutex.
PassengerLockPcs ==
  {"find", "enter", "on_ferry", "unregister", "unregister_pid"} \cup GangwayPcs
\* Neither giving up nor through with the journey.
StayingPcs == {"search", "find", "enter", "on_ferry"} \cup GangwayPcs
PassengerPcs ==
  {"away", "search", "unregister_last", "ended", "killed", "killed_on_gangway"}
  \cup PassengerLockPcs

FerryInfo ==
  [active : BOOLEAN, status : {"IDLE", "BOARDING", "SAILING", "RETURNING"},
   num_passengers : 0 .. FERRY_CAPACITY,
   passenger_ids : [0 .. (FERRY_CAPACITY - 1) -> Ids \cup {-1}],
   max_luggage_weight : LuggageLimits \cup {0}]

TypeOK ==
  /\ active \in [Ids -> BOOLEAN]
  /\ ferries \in [FerryIds -> FerryInfo]
  /\ gangway \in [num_people : 0 .. GANGWAY_CAPACITY,
                  passenger_ids : [0 .. (GANGWAY_CAPACITY - 1) -> Ids \cup {-1}]]
  /\ ferry_pids \subseteq FerryPids /\ passenger_pids \subseteq PassengerPids
  /\ signal1_received \in BOOLEAN
  /\ all_passengers_finished \in BOOLEAN
  /\ fpc \in [FerryPids -> FerryPcs]
  /\ my_ferry \in [FerryPids -> FerryIds \cup {-1}]
  /\ force_departure_flag \in [FerryPids -> BOOLEAN]
  /\ should_exit \in [FerryPids -> BOOLEAN]
  /\ waited \in [FerryPids -> Nat]
  /\ ppc \in [PassengerPids -> PassengerPcs]
  /\ my_id \in [PassengerPids -> Ids \cup {-1}]
  /\ ferry_id \in [PassengerPids -> FerryIds \cup {-1}]
  /\ vip \in [PassengerPids -> BOOLEAN]
  /\ luggage \in [PassengerPids -> Weights \cup {0}]
  /\ stop_boarding_flag \in [PassengerPids -> BOOLEAN]
  /\ attempts \in [PassengerPids -> Nat]
  /\ captain_pc \in {"absent", "working", "send2", "working_on", "force", "send1", "done"}
  /\ launcher_pc \in {"wait_passengers", "wait_ferries", "finished"}
  /\ sailed \in [PassengerPids -> BOOLEAN]
  /\ late_departures \in [FerryPids -> Nat]

NoPassengers == [k \in 0 .. (FERRY_CAPACITY - 1) |-> -1]

\* ipc_init, and a captain that was executed and attached, or was not.
Init ==
  /\ active = [i \in Ids |-> FALSE]
  /\ ferries = [k \in FerryIds |->
       [active |-> FALSE, status |-> "IDLE", num_passengers |-> 0,
        passenger_ids |-> NoPassengers, max_luggage_weight |-> 0]]
  /\ gangway = [num_people |-> 0,
                passenger_ids |-> [k \in 0 .. (GANGWAY_CAPACITY - 1) |-> -1]]
  /\ ferry_pids = {} /\ passenger_pids = {}
  /\ signal1_received = FALSE
  /\ all_passengers_finished = FALSE
  /\ fpc = [f \in FerryPids |-> "start"]
  /\ my_ferry = [f \in FerryPids |-> -1]
  /\ force_departure_flag = [f \in FerryPids |-> FALSE]
  /\ should_exit = [f \in FerryPids |-> FALSE]
  /\ waited = [f \in FerryPids |-> 0]
  /\ ppc = [p \in PassengerPids |-> "away"]
  /\ my_id = [p \in PassengerPids |-> -1]
  /\ ferry_id = [p \in PassengerPids |-> -1]
  /\ vip = [p \in PassengerPids |-> FALSE]
  /\ luggage = [p \in PassengerPids |-> 0]
  /\ stop_boarding_flag = [p \in PassengerPids |-> FALSE]
  /\ attempts = [p \in PassengerPids |-> 0]
  /\ captain_pc \in {"working", "absent"}
  /\ launcher_pc = "wait_passengers"
  /\ sailed = [p \in PassengerPids |-> FALSE]
  /\ late_departures = [f \in FerryPids |-> 0]

-----------------------------------------------------------------------------
(* The ferry process, in the order of ferry.c. *)

FerryGoto(f, to) == fpc' = [fpc EXCEPT ![f] = to]
othersOfFerry == <<active, gangway, passenger_pids, flags, ppc, passengerLocals, captain_pc, launcher_pc>>

\* A ferry that was not forked, not executed or does not find the segment ends.
RegisterFerryPid(f) ==
  /\ fpc[f] = "start"
  /\ \/ ferry_pids' = ferry_pids \cup {f} /\ FerryGoto(f, "register")
     \/ FerryGoto(f, "ended") /\ UNCHANGED ferry_pids
  /\ UNCHANGED <<ferries, ferryLocals, othersOfFerry, history>>

\* Mutant of FirstFreeFerry: a slot counts as free unless its ferry is boarding.
FirstIdleFerry(k) ==
  /\ ferries[k].status # "BOARDING"
  /\ \A j \in FerryIds : j < k => ferries[j].status = "BOARDING"

FirstFreeFerry(k) == ~ferries[k].active /\ \A j \in FerryIds : j < k => ferries[j].active
RegisterFerry(f) ==
  /\ fpc[f] = "register"
  /\ \/ \E k \in FerryIds, limit \in LuggageLimits :
          /\ FirstFreeFerry(k)
          /\ ferries' = [ferries EXCEPT ![k] =
               [active |-> TRUE, status |-> "IDLE", num_passengers |-> 0,
                passenger_ids |-> NoPassengers, max_luggage_weight |-> limit]]
          /\ my_ferry' = [my_ferry EXCEPT ![f] = k]
          /\ FerryGoto(f, "reset")
     \/ /\ \A k \in FerryIds : ferries[k].active
        /\ FerryGoto(f, "unregister_pid")
        /\ UNCHANGED <<ferries, my_ferry>>
  /\ UNCHANGED <<ferry_pids, force_departure_flag, should_exit, waited,
                 othersOfFerry, history>>

\* Mutant of ResetFerry: the list is cleared, its length is not.
ResetFerryListOnly(f) ==
  /\ fpc[f] = "reset"
  /\ ferries' = [ferries EXCEPT ![my_ferry[f]].passenger_ids = NoPassengers]
  /\ FerryGoto(f, "open")
  /\ UNCHANGED <<ferry_pids, ferryLocals, othersOfFerry, history>>

ResetFerry(f) ==
  /\ fpc[f] = "reset"
  /\ ferries' = [ferries EXCEPT ![my_ferry[f]].num_passengers = 0,
                                ![my_ferry[f]].passenger_ids = NoPassengers]
  /\ FerryGoto(f, "open")
  /\ UNCHANGED <<ferry_pids, ferryLocals, othersOfFerry, history>>

OpenFerry(f) ==
  /\ fpc[f] = "open"
  /\ ferries' = [ferries EXCEPT ![my_ferry[f]].status = "BOARDING"]
  /\ waited' = [waited EXCEPT ![f] = 0]
  /\ FerryGoto(f, "boarding")
  /\ UNCHANGED <<ferry_pids, my_ferry, force_departure_flag, should_exit,
                 othersOfFerry, history>>

\* Mutant of CloseFerry: every departure is one of many.
CloseFerryForThisTrip(f, last) ==
  /\ waited' = [waited EXCEPT ![f] = 0]
  /\ FerryGoto(f, "gangway")
  /\ UNCHANGED should_exit

\* The boarding loop is left for good, or at the end of this trip only.
CloseFerry(f, last) ==
  /\ should_exit' = [should_exit EXCEPT ![f] = last]
  /\ waited' = [waited EXCEPT ![f] = 0]
  /\ FerryGoto(f, "gangway")
StayOpen(f, to) ==
  /\ FerryGoto(f, to)
  /\ UNCHANGED <<should_exit, waited>>

Forced(f) == force_departure_flag[f] \/ signal1_received

\* The checks of one round.  The force flags are tested before and after the
\* sleep(1), with nothing in between; system_running is never cleared.
BoardingRound(f) ==
  LET r == ferries[my_ferry[f]] IN
  /\ \/ /\ fpc[f] = "boarding"
        /\ IF Forced(f) THEN CloseFerry(f, TRUE) ELSE StayOpen(f, "finished")
     \/ /\ fpc[f] = "finished"
        /\ IF all_passengers_finished /\ r.num_passengers = 0
           THEN CloseFerry(f, TRUE)
           ELSE StayOpen(f, "full")
     \/ /\ fpc[f] = "full"
        /\ IF r.num_passengers >= FERRY_CAPACITY
           THEN CloseFerry(f, FALSE)
           ELSE StayOpen(f, "limit")
     \/ /\ fpc[f] = "limit"
        /\ CloseFerry(f, FALSE)
     \/ /\ fpc[f] = "limit"
        /\ waited[f] < BOARDING_TIME_LIMIT
        /\ waited' = [waited EXCEPT ![f] = @ + 1]
        /\ FerryGoto(f, "boarding")
        /\ UNCHANGED should_exit
  /\ UNCHANGED <<ferries, ferry_pids, my_ferry, force_departure_flag,
                 othersOfFerry, history>>

\* Mutant of WaitForGangway: no limit on the wait.
WaitForGangwayToClear(f) ==
  /\ fpc[f] = "gangway"
  /\ gangway.num_people = 0
  /\ FerryGoto(f, "sail")
  /\ waited' = [waited EXCEPT ![f] = 0]
  /\ UNCHANGED <<ferries, ferry_pids, my_ferry, force_departure_flag, should_exit,
                 othersOfFerry, history>>

\* The manifest is printed, then the gangway polled; what the second poll finds
\* is only printed.
WaitForGangway(f) ==
  /\ fpc[f] = "gangway"
  /\ IF gangway.num_people = 0 \/ waited[f] >= MAX_GANGWAY_WAIT
     THEN FerryGoto(f, "sail") /\ waited' = [waited EXCEPT ![f] = 0]
     ELSE waited' = [waited EXCEPT ![f] = @ + 1] /\ UNCHANGED fpc
  /\ UNCHANGED <<ferries, ferry_pids, my_ferry, force_departure_flag, should_exit,
                 othersOfFerry, history>>

\* Passengers on board of slot k, and those on their way to it.
Aboard(k) == {p \in PassengerPids : ppc[p] \in AboardPcs /\ ferry_id[p] = k}
Bound(k) == {p \in PassengerPids : ppc[p] \in {"enter", "board"} /\ ferry_id[p] = k}
SetSail(f) ==
  LET k == my_ferry[f] IN
  /\ fpc[f] = "sail"
  /\ ferries' = [ferries EXCEPT ![k].status = "SAILING"]
  /\ FerryGoto(f, "sailing")
  /\ sailed' = [p \in PassengerPids |-> p \in Aboard(k) \cup Bound(k) \/ sailed[p]]
  /\ late_departures' = IF signal1_received
                        THEN [late_departures EXCEPT ![f] = @ + 1]
                        ELSE late_departures
  /\ UNCHANGED <<ferry_pids, ferryLocals, othersOfFerry>>

\* Mutant of ReturnToPort: open to passengers as soon as it is back.
ReturnOpen(f) ==
  /\ fpc[f] = "sailing"
  /\ ferries' = [ferries EXCEPT ![my_ferry[f]].status = "BOARDING"]
  /\ FerryGoto(f, "returned")
  /\ UNCHANGED <<ferry_pids, ferryLocals, othersOfFerry, history>>

ReturnToPort(f) ==
  /\ fpc[f] = "sailing"
  /\ ferries' = [ferries EXCEPT ![my_ferry[f]].status = "RETURNING"]
  /\ FerryGoto(f, "returned")
  /\ UNCHANGED <<ferry_pids, ferryLocals, othersOfFerry, history>>

\* A ferry that was signalled at sea keeps its limit and still starts a trip.
NextTrip(f) ==
  /\ fpc[f] = "returned"
  /\ FerryGoto(f, IF should_exit[f] THEN "unregister_pid"
                  ELSE IF Forced(f) THEN "reset" ELSE "new_limit")
  /\ UNCHANGED <<ferries, ferry_pids, ferryLocals, othersOfFerry, history>>

NewLimit(f) ==
  /\ fpc[f] = "new_limit"
  /\ \E limit \in LuggageLimits :
       ferries' = [ferries EXCEPT ![my_ferry[f]].max_luggage_weight = limit]
  /\ FerryGoto(f, "reset")
  /\ UNCHANGED <<ferry_pids, ferryLocals, othersOfFerry, history>>

UnregisterFerryPid(f) ==
  /\ fpc[f] = "unregister_pid"
  /\ ferry_pids' = ferry_pids \ {f}
  /\ FerryGoto(f, IF my_ferry[f] = -1 THEN "ended" ELSE "unregister")
  /\ UNCHANGED <<ferries, ferryLocals, othersOfFerry, history>>

UnregisterFerry(f) ==
  /\ fpc[f] = "unregister"
  /\ ferries' = [ferries EXCEPT ![my_ferry[f]].active = FALSE]
  /\ my_ferry' = [my_ferry EXCEPT ![f] = -1]
  /\ FerryGoto(f, "ended")
  /\ UNCHANGED <<ferry_pids, force_departure_flag, should_exit, waited,
                 othersOfFerry, history>>

Ferry(f) ==
  \/ RegisterFerryPid(f)  \/ RegisterFerry(f)       \/ ResetFerry(f)
  \/ OpenFerry(f)         \/ BoardingRound(f)       \/ WaitForGangway(f)
  \/ SetSail(f)           \/ ReturnToPort(f)        \/ NextTrip(f)
  \/ NewLimit(f)          \/ UnregisterFerryPid(f) \/ UnregisterFerry(f)

-----------------------------------------------------------------------------
(* The passenger process, from the waiting room on. *)

Goto(p, to) == ppc' = [ppc EXCEPT ![p] = to]
portOfPassenger == <<ferry_pids, flags, fpc, ferryLocals, captain_pc, launcher_pc,
                     late_departures>>
othersOfPassenger == <<passenger_pids, portOfPassenger>>

\* A passenger comes out of the control with a slot that is its own, on the list of
\* those that the captain signals, and with its flag set if the captain has broadcast
\* SIGUSR2, as SecurityControl.tla keeps the contract WaitingRoom.tla; or it has ended
\* before, if it was forked at all.
Arrive(p) ==
  /\ ppc[p] = "away"
  /\ \/ \E i \in Ids, w \in Weights, v \in Vips :
          /\ ~active[i]
          /\ active' = [active EXCEPT ![i] = TRUE]
          /\ my_id' = [my_id EXCEPT ![p] = i]
          /\ luggage' = [luggage EXCEPT ![p] = w]
          /\ vip' = [vip EXCEPT ![p] = v]
          /\ stop_boarding_flag' =
               [stop_boarding_flag EXCEPT ![p] = captain_pc \notin {"absent", "working", "send2"}]
          /\ passenger_pids' = passenger_pids \cup {p}
          /\ Goto(p, "search")
     \/ /\ Goto(p, "ended")
        /\ UNCHANGED <<active, my_id, luggage, vip, stop_boarding_flag, passenger_pids>>
  /\ UNCHANGED <<ferries, gangway, ferry_id, attempts, sailed, portOfPassenger>>

\* The head of the search loop.
SearchHead(p) ==
  /\ ppc[p] = "search"
  /\ Goto(p, IF stop_boarding_flag[p] \/ attempts[p] >= MAX_ATTEMPTS
             THEN "unregister" ELSE "find")
  /\ UNCHANGED <<active, ferries, gangway, passengerLocals, sailed, othersOfPassenger>>

Available(k, w) ==
  /\ ferries[k].active
  /\ ferries[k].status = "BOARDING"
  /\ ferries[k].num_passengers < FERRY_CAPACITY
  /\ w <= ferries[k].max_luggage_weight
FindAvailableFerry(p) ==
  /\ ppc[p] = "find"
  /\ \/ \E k \in FerryIds :
          /\ Available(k, luggage[p])
          /\ \A j \in FerryIds : j < k => ~Available(j, luggage[p])
          /\ ferry_id' = [ferry_id EXCEPT ![p] = k]
          /\ attempts' = [attempts EXCEPT ![p] = 0]
          /\ sailed' = [sailed EXCEPT ![p] = FALSE]
          /\ Goto(p, "enter")
     \/ /\ \A k \in FerryIds : ~Available(k, luggage[p])
        /\ attempts' = [attempts EXCEPT ![p] = @ + 1]
        /\ Goto(p, "search")
        /\ UNCHANGED <<ferry_id, sailed>>
  /\ UNCHANGED <<active, ferries, gangway, my_id, vip, luggage, stop_boarding_flag,
                 othersOfPassenger>>

\* A VIP goes in front of those on the gangway, anybody else behind them.
WithOneMore(g, i, first) ==
  [num_people |-> g.num_people + 1,
   passenger_ids |->
     IF first
     THEN [k \in DOMAIN g.passenger_ids |->
             IF k = 0 THEN i
             ELSE g.passenger_ids[IF k <= g.num_people THEN k - 1 ELSE k]]
     ELSE [g.passenger_ids EXCEPT ![g.num_people] = i]]

OnGangway == Window(gangway.passenger_ids, gangway.num_people)
EnterGangway(p) ==
  /\ ppc[p] = "enter"
  /\ IF gangway.num_people >= GANGWAY_CAPACITY
     THEN /\ attempts' = [attempts EXCEPT ![p] = @ + 1]
          /\ Goto(p, IF attempts[p] + 1 < MAX_GANGWAY_ATTEMPTS THEN "enter" ELSE "unregister")
          /\ UNCHANGED gangway
     ELSE IF my_id[p] \in OnGangway
          THEN Goto(p, "unregister") /\ UNCHANGED <<gangway, attempts>>
          ELSE /\ gangway' = WithOneMore(gangway, my_id[p], vip[p])
               /\ Goto(p, "board")
               /\ UNCHANGED attempts
  /\ UNCHANGED <<active, ferries, my_id, ferry_id, vip, luggage, stop_boarding_flag,
                 sailed, othersOfPassenger>>

\* Mutant of BoardFerry: the capacity is not asked again.
BoardFerryUnasked(p) ==
  LET k == ferry_id[p]
      n == ferries[k].num_passengers
  IN
  /\ ppc[p] = "board"
  /\ IF ferries[k].active /\ ferries[k].status = "BOARDING"
     THEN /\ ferries' = [ferries EXCEPT ![k].passenger_ids[n] = my_id[p],
                                        ![k].num_passengers = n + 1]
          /\ sailed' = [sailed EXCEPT ![p] = FALSE]
          /\ Goto(p, "leave_gangway")
     ELSE Goto(p, "back") /\ UNCHANGED <<ferries, sailed>>
  /\ UNCHANGED <<active, gangway, passengerLocals, othersOfPassenger>>

\* Whether the ferry still takes passengers is asked again, the luggage is not.
BoardFerry(p) ==
  LET k == ferry_id[p]
      n == ferries[k].num_passengers
  IN
  /\ ppc[p] = "board"
  /\ IF ferries[k].active /\ ferries[k].status = "BOARDING" /\ n < FERRY_CAPACITY
     THEN /\ ferries' = [ferries EXCEPT ![k].passenger_ids[n] = my_id[p],
                                        ![k].num_passengers = n + 1]
          /\ sailed' = [sailed EXCEPT ![p] = FALSE]
          /\ Goto(p, "leave_gangway")
     ELSE Goto(p, "back") /\ UNCHANGED <<ferries, sailed>>
  /\ UNCHANGED <<active, gangway, passengerLocals, othersOfPassenger>>

\* Mutant of ExitGangway: the last one is dropped, whoever leaves.
ExitGangwayUnmoved(p) ==
  LET n == CountWithout(gangway.passenger_ids, gangway.num_people, my_id[p]) IN
  /\ ppc[p] \in {"leave_gangway", "back"}
  /\ gangway' = [num_people |-> n,
                 passenger_ids |-> [gangway.passenger_ids EXCEPT ![n] = -1]]
  /\ Goto(p, IF ppc[p] = "back" THEN "unregister" ELSE "on_ferry")
  /\ UNCHANGED <<active, ferries, passengerLocals, sailed, othersOfPassenger>>

\* Mutant of ExitGangway: whoever was refused on board does not leave the gangway.
ExitGangwayBoardedOnly(p) ==
  LET n == CountWithout(gangway.passenger_ids, gangway.num_people, my_id[p]) IN
  /\ ppc[p] \in {"leave_gangway", "back"}
  /\ gangway' =
       IF ppc[p] = "back"
       THEN gangway
       ELSE [num_people |-> n,
             passenger_ids |->
               [Without(gangway.passenger_ids, gangway.num_people, my_id[p])
                  EXCEPT ![n] = -1]]
  /\ Goto(p, IF ppc[p] = "back" THEN "unregister" ELSE "on_ferry")
  /\ UNCHANGED <<active, ferries, passengerLocals, sailed, othersOfPassenger>>

\* Mutant of ExitGangway: the pid is given back as soon as the passenger is on board.
ExitGangwayUnlisted(p) ==
  LET n == CountWithout(gangway.passenger_ids, gangway.num_people, my_id[p]) IN
  /\ ppc[p] \in {"leave_gangway", "back"}
  /\ gangway' = [num_people |-> n,
                 passenger_ids |->
                   [Without(gangway.passenger_ids, gangway.num_people, my_id[p])
                      EXCEPT ![n] = -1]]
  /\ Goto(p, IF ppc[p] = "back" THEN "unregister" ELSE "on_ferry")
  /\ passenger_pids' = IF ppc[p] = "back" THEN passenger_pids ELSE passenger_pids \ {p}
  /\ UNCHANGED <<active, ferries, passengerLocals, sailed, portOfPassenger>>

ExitGangway(p) ==
  LET n == CountWithout(gangway.passenger_ids, gangway.num_people, my_id[p]) IN
  /\ ppc[p] \in {"leave_gangway", "back"}
  /\ gangway' =
       IF my_id[p] \in OnGangway
       THEN [num_people |-> n,
             passenger_ids |->
               [Without(gangway.passenger_ids, gangway.num_people, my_id[p])
                  EXCEPT ![n] = -1]]
       ELSE gangway
  /\ Goto(p, IF ppc[p] = "back" THEN "unregister" ELSE "on_ferry")
  /\ UNCHANGED <<active, ferries, passengerLocals, sailed, othersOfPassenger>>

\* The locals vanish with the process.
Exit(p) ==
  /\ Goto(p, "ended")
  /\ my_id' = [my_id EXCEPT ![p] = -1]
  /\ ferry_id' = [ferry_id EXCEPT ![p] = -1]
  /\ vip' = [vip EXCEPT ![p] = FALSE]
  /\ luggage' = [luggage EXCEPT ![p] = 0]
  /\ stop_boarding_flag' = [stop_boarding_flag EXCEPT ![p] = FALSE]
  /\ attempts' = [attempts EXCEPT ![p] = 0]
  /\ sailed' = [sailed EXCEPT ![p] = FALSE]

\* The number of the slot is not looked at again.
UnregisterPassenger(p) ==
  /\ ppc[p] \in {"unregister", "unregister_last"}
  /\ active' = [active EXCEPT ![my_id[p]] = FALSE]
  /\ IF ppc[p] = "unregister"
     THEN /\ Goto(p, "unregister_pid")
          /\ my_id' = [my_id EXCEPT ![p] = -1]
          /\ UNCHANGED <<ferry_id, vip, luggage, stop_boarding_flag, attempts, sailed>>
     ELSE Exit(p)
  /\ UNCHANGED <<ferries, gangway, othersOfPassenger>>

\* The sleep of FERRY_TRIP_TIME + 2 ends, whatever the ferry does meanwhile;
\* a signal ends it at once.
UnregisterPassengerPid(p) ==
  /\ ppc[p] \in {"unregister_pid", "on_ferry"}
  /\ IF ppc[p] = "on_ferry"
     THEN Goto(p, "unregister_last") /\ UNCHANGED <<passengerLocals, sailed>>
     ELSE Exit(p)
  /\ passenger_pids' = passenger_pids \ {p}
  /\ UNCHANGED <<active, ferries, gangway, portOfPassenger>>

Passenger(p) ==
  \/ Arrive(p)        \/ SearchHead(p)   \/ FindAvailableFerry(p)
  \/ EnterGangway(p)  \/ BoardFerry(p)   \/ ExitGangway(p)
  \/ UnregisterPassenger(p)              \/ UnregisterPassengerPid(p)

-----------------------------------------------------------------------------
(* The captain and the launcher. *)

othersOfCaptain == <<active, ferries, gangway, ferry_pids, passenger_pids,
                     all_passengers_finished, my_ferry, should_exit, waited, my_id, ferry_id, vip, luggage,
                     attempts, launcher_pc, history>>

\* One second of the captain.  The first of the two reads stays true once it is.
CaptainPoll ==
  /\ captain_pc \in {"working", "working_on"}
  /\ captain_pc' = IF all_passengers_finished /\ ferry_pids = {} THEN "done"
                   ELSE IF captain_pc = "working" THEN "send2"
                   ELSE "force"
  /\ UNCHANGED <<signal1_received, fpc, force_departure_flag, ppc, stop_boarding_flag,
                 othersOfCaptain>>

\* SIGUSR2 after SIGNAL2_AFTER seconds, to the pids of the list.  The shift may
\* be over in the same second.
SendSignal2 ==
  /\ captain_pc = "send2"
  /\ \E interrupted \in SUBSET {p \in passenger_pids : ppc[p] \in PassengerLockPcs} :
       /\ ppc' = [p \in PassengerPids |->
            IF p \notin interrupted THEN ppc[p]
            ELSE IF ppc[p] \in GangwayPcs THEN "killed_on_gangway" ELSE "killed"]
       /\ stop_boarding_flag' = [p \in PassengerPids |-> p \in passenger_pids \ interrupted]
  /\ captain_pc' \in {"working_on", "force"}
  /\ UNCHANGED <<signal1_received, fpc, force_departure_flag, othersOfCaptain>>

ForceDeparture ==
  /\ captain_pc = "force"
  /\ signal1_received' = TRUE
  /\ captain_pc' = "send1"
  /\ UNCHANGED <<fpc, force_departure_flag, ppc, stop_boarding_flag, othersOfCaptain>>

SendSignal1 ==
  /\ captain_pc = "send1"
  /\ \E interrupted \in SUBSET {f \in ferry_pids : fpc[f] \in ListedFerryPcs} :
       /\ fpc' = [f \in FerryPids |-> IF f \in interrupted THEN "killed" ELSE fpc[f]]
       /\ force_departure_flag' = [f \in FerryPids |-> f \in ferry_pids \ interrupted]
  /\ signal1_received' = TRUE
  /\ captain_pc' = "done"
  /\ UNCHANGED <<ppc, stop_boarding_flag, othersOfCaptain>>

Captain == CaptainPoll \/ SendSignal2 \/ ForceDeparture \/ SendSignal1

PassengerEndPcs == {"ended", "killed", "killed_on_gangway"}
FerryEndPcs == {"ended", "killed"}

\* Mutant of AllPassengersEnded: the first that ends stands for all.
SomePassengerEnded == \E p \in PassengerPids : ppc[p] \in PassengerEndPcs

\* waitpid on every passenger.
AllPassengersEnded == \A p \in PassengerPids : ppc[p] \in PassengerEndPcs

\* After the passengers the flag, waitpid on every ferry and the captain, and
\* ipc_cleanup.
Launcher ==
  /\ \/ /\ launcher_pc = "wait_passengers"
        /\ AllPassengersEnded
        /\ all_passengers_finished' = TRUE
        /\ launcher_pc' = "wait_ferries"
     \/ /\ launcher_pc = "wait_ferries"
        /\ \A f \in FerryPids : fpc[f] \in FerryEndPcs
        /\ captain_pc \in {"done", "absent"}
        /\ launcher_pc' = "finished"
        /\ UNCHANGED all_passengers_finished
  /\ UNCHANGED <<active, ferries, gangway, ferry_pids, passenger_pids, signal1_received,
                 fpc, ferryLocals, ppc, passengerLocals, captain_pc, history>>

Next ==
  \/ \E f \in FerryPids : Ferry(f)
  \/ \E p \in PassengerPids : Passenger(p)
  \/ Captain
  \/ Launcher

\* Everybody who can go on does: sleeps end, the mutex is handed on in turn,
\* the captain's day has CAPTAIN_WORK_TIME seconds.
Spec == Init /\ [][Next]_vars
FairSpec ==
  /\ Spec
  /\ \A f \in FerryPids : WF_vars(Ferry(f))
  /\ \A p \in PassengerPids : WF_vars(Passenger(p))
  /\ WF_vars(Captain) /\ WF_vars(Launcher)

-----------------------------------------------------------------------------
(* Safety. *)

\* The gangway holds those who entered it and have not left, each once, however
\* VIPs are put in front and leavers close the gap; so nobody meets its own slot
\* there (the return value -3), although slots are handed on.
GangwayMirrorsPassengers ==
  /\ Distinct(gangway.passenger_ids, gangway.num_people)
  /\ OnGangway = {my_id[p] : p \in {q \in PassengerPids :
                                     ppc[q] \in GangwayPcs \cup {"killed_on_gangway"}}}
  /\ \A k \in gangway.num_people .. (GANGWAY_CAPACITY - 1) : gangway.passenger_ids[k] = -1

\* A ferry process has its own slot from registration to the end, and a slot in
\* use is that of a living ferry or of one that was interrupted.  The status a
\* passenger reads says where a living ferry is.
FerriesOwned ==
  /\ \A f \in FerryPids : fpc[f] \in FerrySlotPcs \cup {"unregister"} =>
       /\ my_ferry[f] \in FerryIds
       /\ ferries[my_ferry[f]].active
       /\ ferries[my_ferry[f]].status = "BOARDING" <=> fpc[f] \in OpenPcs
  /\ \A f, g \in FerryPids : f # g /\ my_ferry[f] # -1 => my_ferry[f] # my_ferry[g]
  /\ \A k \in FerryIds : ferries[k].active =>
       \E f \in FerryPids : my_ferry[f] = k /\ fpc[f] # "ended"

\* A passenger on board whose ferry has not sailed since is on the list of a
\* registered ferry that is still boarding: no reset, no later passenger and no
\* ferry that takes over a slot wipes it out.
BoardersKept ==
  \A p \in PassengerPids : ppc[p] \in AboardPcs /\ ~sailed[p] =>
    LET r == ferries[ferry_id[p]] IN
    /\ r.active
    /\ r.status = "BOARDING"
    /\ my_id[p] \in Window(r.passenger_ids, r.num_passengers)

\* README, test 1: no more passengers wait on board for the departure than the
\* ferry has places, although a place is looked for, the gangway taken and the
\* ferry boarded in three sections.
NeverOverloaded ==
  \A k \in FerryIds : Cardinality({p \in Aboard(k) : ~sailed[p]}) <= FERRY_CAPACITY

\* After the captain's signal 1 a ferry departs twice at most: with the trip it
\* was on, and with the one it still starts when the signal meets it at sea.  The
\* second is one more than README, test 3, allows: NoOpeningAfterSignal1.
AtMostTwoMoreTrips == \A f \in FerryPids : late_departures[f] <= 2

-----------------------------------------------------------------------------
(* The inductive invariant behind the safety properties. *)

\* A registered passenger has a slot to itself, from the waiting room until it
\* gives the slot back; one that was interrupted before takes it along.
SlotsOwned ==
  /\ \A p \in PassengerPids :
       /\ ppc[p] \in StayingPcs \cup {"unregister", "unregister_last", "killed_on_gangway"}
            => my_id[p] # -1
       /\ ppc[p] \in {"away", "unregister_pid", "ended"} => my_id[p] = -1
       /\ my_id[p] # -1 => active[my_id[p]]
  /\ \A p, q \in PassengerPids : p # q /\ my_id[p] # -1 => my_id[p] # my_id[q]

\* The captain finds in passenger_pids whoever came from the control and has not
\* given its pid back, those who died on their way included.
PassengersListed ==
  \A p \in PassengerPids : p \in passenger_pids <=>
    ppc[p] \in {"search", "killed", "killed_on_gangway"} \cup PassengerLockPcs

\* FerriesOwned, with what the points between the sections need: nobody is counted
\* on a ferry that opens, and a slot given back does not look like an open ferry.
FerrySlots ==
  /\ \A f \in FerryPids :
       /\ fpc[f] \in FerrySlotPcs \cup {"unregister"} => my_ferry[f] # -1
       /\ fpc[f] \in {"start", "register", "ended"} => my_ferry[f] = -1
       /\ my_ferry[f] # -1 =>
            /\ ferries[my_ferry[f]].active
            /\ fpc[f] # "killed" =>
                 (ferries[my_ferry[f]].status = "BOARDING" <=> fpc[f] \in OpenPcs)
       /\ fpc[f] = "open" => ferries[my_ferry[f]].num_passengers = 0
  /\ \A f, g \in FerryPids : f # g /\ my_ferry[f] # -1 => my_ferry[f] # my_ferry[g]
  /\ \A k \in FerryIds :
       /\ ferries[k].active => \E f \in FerryPids : my_ferry[f] = k
       /\ ~ferries[k].active => ferries[k].status # "BOARDING"

\* As long as the ferry it found has not sailed, a passenger can rely on what it
\* saw when it found it, and on the place it took when it boarded.
FoundFerryWaits(p) ==
  LET r == ferries[ferry_id[p]] IN
  ppc[p] \in {"enter", "on_ferry"} \cup GangwayPcs =>
    /\ ferry_id[p] # -1
    /\ ppc[p] # "back" /\ ~sailed[p] => r.active /\ r.status = "BOARDING"
    /\ ppc[p] \in AboardPcs /\ ~sailed[p] =>
         my_id[p] \in Window(r.passenger_ids, r.num_passengers)
FoundFerriesWait == \A p \in PassengerPids : FoundFerryWaits(p)

\* After signal 1 a ferry that departs goes through the top of the boarding loop
\* before it departs again, and that is the end of it.
LastTrip(f) ==
  /\ late_departures[f] \in 0 .. 2
  /\ late_departures[f] > 0 => signal1_received
  /\ late_departures[f] = 1 =>
       /\ fpc[f] \notin {"finished", "full", "limit"}
       /\ fpc[f] \in {"gangway", "sail"} => should_exit[f]
  /\ late_departures[f] = 2 =>
       /\ should_exit[f]
       /\ fpc[f] \in {"sailing", "returned", "unregister_pid", "unregister", "ended", "killed"}
LastTrips == \A f \in FerryPids : LastTrip(f)

\* The launcher raises its flag when all passengers have gone, and none comes back.
FinishedForGood ==
  all_passengers_finished => \A p \in PassengerPids : ppc[p] \in PassengerEndPcs

IInv ==
  /\ TypeOK
  /\ SlotsOwned
  /\ PassengersListed
  /\ GangwayMirrorsPassengers
  /\ FerrySlots
  /\ FoundFerriesWait
  /\ LastTrips
  /\ FinishedForGood

-----------------------------------------------------------------------------
(* Refinement. *)

\* A slot is an open ferry while its status lets passengers on board, also when
\* the ferry process has died; the seats it counts between resetting and opening
\* are those of the trip to come.
Voyage == INSTANCE Voyages WITH
  Passengers <- PassengerPids, Ferries <- FerryIds, CAPACITY <- FERRY_CAPACITY,
  open <- {k \in FerryIds : ferries[k].active /\ ferries[k].status = "BOARDING"},
  seats <- [k \in FerryIds |->
              IF ferries[k].status = "BOARDING" THEN ferries[k].num_passengers ELSE 0],
  aboard <- [k \in FerryIds |-> {p \in Aboard(k) : ~sailed[p]}]

\* Finding a ferry, taking the gangway, boarding, closing, waiting for the gangway,
\* sailing, resetting and opening are critical sections of their own, and any
\* process may die between them: still every trip is a voyage.
TripsAreVoyages == Voyage!Spec

\* Passengers stay from their arrival until they give up or are through.
Room == INSTANCE WaitingRoom WITH
  People <- PassengerPids, Slots <- Ids, told <- captain_pc \notin {"absent", "working", "send2"},
  held <- {<<p, my_id[p]>> : p \in {q \in PassengerPids :
             my_id[q] # -1 /\ active[my_id[q]]}},
  staying <- {p \in PassengerPids : ppc[p] \in StayingPcs},
  flagged <- {p \in PassengerPids : ppc[p] \in StayingPcs /\ stop_boarding_flag[p]}

\* What the ferries are told about arriving passengers is what the control keeps
\* (FillsWaitingRoom of SecurityControl.tla), and on the way to the ferry, on the
\* gangway and on board nobody is missed by signal 2 or shares a slot.
KeepsWaitingRoom == Room!Spec

-----------------------------------------------------------------------------
(* Liveness. *)

\* README, test 1, no hanging processes: whoever is interrupted wherever, all
\* processes end and the launcher removes the segment and the semaphores.
EverybodyEnds == <>(launcher_pc = "finished")

-----------------------------------------------------------------------------
(* Claims of the repository that the code does not keep. *)

\* passenger.c:328 and 333, "Waiting for departure..." and "Journey completed":
\* a passenger that completes its journey has departed with its ferry.
JourneyIsVoyage ==
  [][\A p \in PassengerPids :
       ppc[p] = "on_ferry" /\ ppc'[p] = "unregister_last" => sailed[p]]_vars

\* README, test 3: after signal 1 a ferry takes no new passengers.  No ferry that is
\* back in port opens any more once the captain has forced the departures.
NoOpeningAfterSignal1 ==
  [][\A k \in FerryIds :
       captain_pc = "done" /\ signal1_received /\ ferries[k].status = "RETURNING" =>
         ferries'[k].status # "BOARDING"]_vars

\* README, test 4: every ferry works with a limit of its own.  Whoever boards keeps
\* to the limit of the ferry it boards, also when that went and came back between
\* the search and the gangway.
LuggageWithinLimit ==
  [][\A p \in PassengerPids :
       ppc[p] = "board" /\ ppc'[p] = "leave_gangway" =>
         luggage[p] <= ferries[ferry_id[p]].max_luggage_weight]_vars
=============================================================================
