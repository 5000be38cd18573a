-------------------------- MODULE SecurityControl --------------------------
(***************************************************************************)
(* The way of a passenger process through check-in and security control    *)
(* (passenger.c) over the shared memory operations of ipc.c, with the      *)
(* captain's signal 2 (captain.c).                                         *)
(*                                                                         *)
(* A call of an ipc_ function is one critical section under SEM_SHM_MUTEX  *)
(* and therefore one atomic action (Semaphores.tla is about the mutex).    *)
(* Between two calls a passenger keeps only its locals.  A passenger that  *)
(* sleeps in semop while the captain, who holds the mutex, sends it        *)
(* SIGUSR2 gets EINTR and exits in ipc_lock: "killed" below.               *)
(*                                                                         *)
(* What a passenger does between the waiting room and the end of its       *)
(* journey belongs to Boarding.tla; here it only leaves.                   *)
(***************************************************************************)
EXTENDS Arrays, FiniteSets

CONSTANTS
  Pids,                     \* the passenger processes main.c forks
  NoPid,                    \* pid of a slot that was never used
  MAX_PASSENGERS,           \* slots of passengers[]
  MAX_PASSENGER_PIDS,       \* cells of passenger_pids[]
  MAX_SECURITY_QUEUE,       \* cells of security_queue[]
  NUM_SECURITY_STATIONS,
  MAX_PEOPLE_PER_STATION,   \* cells of passenger_ids[] of a station
  MAX_QUEUE_PASSES,         \* times a passenger may let another one pass
  MAX_ASSIGNMENT_ATTEMPTS   \* rounds of the assignment loop of passenger.c

\* 50 processes for 100 cells in the repository: the list never overflows.
ASSUME PidsAssumption ==
  /\ IsFiniteSet(Pids)
  /\ NoPid \notin Pids
  /\ MAX_PASSENGER_PIDS \in Nat
  /\ Cardinality(Pids) <= MAX_PASSENGER_PIDS

ASSUME SizesAssumption ==
  /\ MAX_PASSENGERS \in Nat
  /\ MAX_SECURITY_QUEUE \in Nat \ {0}
  /\ NUM_SECURITY_STATIONS \in Nat \ {0}
  /\ MAX_PEOPLE_PER_STATION \in Nat \ {0}
  /\ MAX_QUEUE_PASSES \in Nat
  /\ MAX_ASSIGNMENT_ATTEMPTS \in Nat

Ids == 0 .. (MAX_PASSENGERS - 1)
Stations == 0 .. (NUM_SECURITY_STATIONS - 1)
Genders == {"MALE", "FEMALE"}
Statuses == {"WAITING", "IN_QUEUE", "AT_SECURITY", "SECURITY_PASSED"}

VARIABLES
  passengers,               \* slot -> PassengerInfo
  total_passengers,
  security_queue, security_queue_size, security_queue_tail,
  security_stations,
  passenger_pids, num_passenger_pids,
  boarding_allowed, signal2_received,
  captain_pc,               \* "working", "send", "done"
  pc,                       \* where each passenger process is
  my_id, stop_boarding_flag, assignment_attempts, current_queue_pos,
  gender                    \* drawn by random_passenger_attributes

queueVars == <<security_queue, security_queue_size, security_queue_tail>>
pidVars == <<passenger_pids, num_passenger_pids>>
captainVars == <<boarding_allowed, signal2_received, captain_pc>>
localVars == <<my_id, stop_boarding_flag, assignment_attempts, current_queue_pos, gender>>
vars == <<passengers, total_passengers, queueVars, security_stations, pidVars,
          captainVars, pc, localVars>>

-----------------------------------------------------------------------------
\* The points at which a process waits for the mutex, and may be interrupted.
LockPoints ==
  {"register", "check", "join", "assign", "position", "size", "pass",
   "leave_queue", "at_station", "waiting_room", "journey_end", "unregister",
   "unregister_pid"}

\* Between a successful ipc_join_security_queue and the end of the queueing.
WaitingPcs == {"loop", "assign", "position", "size", "pass", "leave_queue"}

\* Past the check of boarding_allowed and not yet on the way out.
InsidePcs == {"join"} \cup WaitingPcs \cup {"at_station", "waiting_room"}

\* The process has a slot, and the process is in passenger_pids.
HoldingPcs ==
  {"check"} \cup InsidePcs \cup {"unregister", "journey_end", "unregister_last"}
ListedPcs == {"register"} \cup (HoldingPcs \ {"unregister_last"}) \cup {"unregister_pid"}

EndedPcs == {"exited", "killed"}
Pcs == {"start"} \cup ListedPcs \cup {"unregister_last"} \cup EndedPcs

PassengerInfo ==
  [active : BOOLEAN, pid : Pids \cup {NoPid}, gender : Genders, status : Statuses,
   security_station_id : Stations \cup {-1},
   queue_position : -1 .. (MAX_SECURITY_QUEUE - 1),
   times_passed : 0 .. MAX_QUEUE_PASSES, in_security_queue : BOOLEAN]

\* security_queue_head is 0 from ipc_init on and is left out; in_use is
\* num_people > 0 in every state.
SecurityStation ==
  [num_people : 0 .. MAX_PEOPLE_PER_STATION,
   passenger_ids : [0 .. (MAX_PEOPLE_PER_STATION - 1) -> Ids \cup {-1}],
   station_gender : Genders]

TypeOK ==
  /\ passengers \in [Ids -> PassengerInfo]
  /\ total_passengers \in Int
  /\ security_queue \in [0 .. (MAX_SECURITY_QUEUE - 1) -> Ids \cup {-1}]
  /\ security_queue_size \in 0 .. MAX_SECURITY_QUEUE
  /\ security_queue_tail \in 0 .. (MAX_SECURITY_QUEUE - 1)
  /\ security_stations \in [Stations -> SecurityStation]
  /\ passenger_pids \in [0 .. (MAX_PASSENGER_PIDS - 1) -> Pids \cup {NoPid}]
  /\ num_passenger_pids \in 0 .. MAX_PASSENGER_PIDS
  /\ boarding_allowed \in BOOLEAN
  /\ signal2_received \in BOOLEAN
  /\ captain_pc \in {"working", "send", "done"}
  /\ pc \in [Pids -> Pcs]
  /\ my_id \in [Pids -> Ids \cup {-1}]
  /\ stop_boarding_flag \in [Pids -> BOOLEAN]
  /\ assignment_attempts \in [Pids -> 0 .. MAX_ASSIGNMENT_ATTEMPTS]
  /\ current_queue_pos \in [Pids -> -1 .. (MAX_SECURITY_QUEUE - 1)]
  /\ gender \in [Pids -> Genders]

\* ipc_init: a zeroed segment, then the cells that are not zero.
Init ==
  /\ passengers = [i \in Ids |->
       [active |-> FALSE, pid |-> NoPid, gender |-> "MALE", status |-> "WAITING",
        security_station_id |-> 0, queue_position |-> 0, times_passed |-> 0,
        in_security_queue |-> FALSE]]
  /\ total_passengers = 0
  /\ security_queue = [k \in 0 .. (MAX_SECURITY_QUEUE - 1) |-> -1]
  /\ security_queue_size = 0
  /\ security_queue_tail = 0
  /\ security_stations = [s \in Stations |->
       [num_people |-> 0,
        passenger_ids |-> [k \in 0 .. (MAX_PEOPLE_PER_STATION - 1) |-> -1],
        station_gender |-> "MALE"]]
  /\ passenger_pids = [k \in 0 .. (MAX_PASSENGER_PIDS - 1) |-> NoPid]
  /\ num_passenger_pids = 0
  /\ boarding_allowed = TRUE
  /\ signal2_received = FALSE
  /\ captain_pc = "working"
  /\ pc = [p \in Pids |-> "start"]
  /\ my_id = [p \in Pids |-> -1]
  /\ stop_boarding_flag = [p \in Pids |-> FALSE]
  /\ assignment_attempts = [p \in Pids |-> 0]
  /\ current_queue_pos = [p \in Pids |-> -1]
  /\ gender \in [Pids -> Genders]

-----------------------------------------------------------------------------
(* Critical sections of ipc.c that several calls share. *)

\* Mutant of Renumbered: compaction forgets the positions.
NotRenumbered(ps, q, n) == ps

\* The loop that writes every position anew after the queue was compacted: a
\* slot that stood in two cells would keep the later one.
Renumbered(ps, q, n) ==
  [i \in Ids |-> IF i \in Window(q, n)
                 THEN [ps[i] EXCEPT !.queue_position = LastIndex(q, n, i)]
                 ELSE ps[i]]

\* Mutant of Dequeue: the tail stays where it was.
DequeueKeepingTail(ps, i) ==
  LET q == Without(security_queue, security_queue_size, i)
      n == CountWithout(security_queue, security_queue_size, i)
  IN  /\ security_queue' = q
      /\ security_queue_size' = n
      /\ passengers' = [Renumbered(ps, q, n) EXCEPT ![i].in_security_queue = FALSE,
                                                    ![i].queue_position = -1]
      /\ UNCHANGED security_queue_tail

\* Slot i is taken out of the queue; ps are the passengers so far.
Dequeue(ps, i) ==
  LET q == Without(security_queue, security_queue_size, i)
      n == CountWithout(security_queue, security_queue_size, i)
  IN  /\ security_queue' = q
      /\ security_queue_size' = n
      /\ security_queue_tail' =
           (security_queue_tail - (security_queue_size - n) + MAX_SECURITY_QUEUE)
             % MAX_SECURITY_QUEUE
      /\ passengers' = [Renumbered(ps, q, n) EXCEPT ![i].in_security_queue = FALSE,
                                                    ![i].queue_position = -1]

\* The station without slot i: the freed cell is cleared, and the last one to
\* leave resets the gender.
StationWithout(st, i) ==
  LET n == CountWithout(st.passenger_ids, st.num_people, i)
  IN  IF n = st.num_people
      THEN st
      ELSE [num_people |-> n,
            passenger_ids |-> [Without(st.passenger_ids, st.num_people, i) EXCEPT ![n] = -1],
            station_gender |-> IF n = 0 THEN "MALE" ELSE st.station_gender]

\* Mutant of Usable: any station with room will do.
UsableByAnyone(s, g) == security_stations[s].num_people < MAX_PEOPLE_PER_STATION

\* The search of ipc_assign_to_security_station takes the first usable station.
Usable(s, g) ==
  \/ security_stations[s].num_people = 0
  \/ /\ security_stations[s].station_gender = g
     /\ security_stations[s].num_people < MAX_PEOPLE_PER_STATION
FirstUsable(s, g) == Usable(s, g) /\ \A t \in Stations : t < s => ~Usable(t, g)

-----------------------------------------------------------------------------
(* The passenger process, in the order of passenger.c. *)

Goto(p, to) == pc' = [pc EXCEPT ![p] = to]

RegisterPassengerPid(p) ==
  /\ pc[p] = "start"
  /\ IF num_passenger_pids < MAX_PASSENGER_PIDS
     THEN /\ passenger_pids' = [passenger_pids EXCEPT ![num_passenger_pids] = p]
          /\ num_passenger_pids' = num_passenger_pids + 1
     ELSE UNCHANGED pidVars
  /\ Goto(p, "register")
  /\ UNCHANGED <<passengers, total_passengers, queueVars, security_stations,
                 captainVars, localVars>>

FirstFree(i) ==
  ~passengers[i].active /\ \A j \in Ids : j < i => passengers[j].active

\* Mutant of RegisterPassenger: a passenger without a slot is counted too.
RegisterPassengerCountingAll(p) ==
  /\ pc[p] = "register"
  /\ \/ \E i \in Ids :
          /\ FirstFree(i)
          /\ passengers' = [passengers EXCEPT ![i] =
               [active |-> TRUE, pid |-> p, gender |-> gender[p], status |-> "WAITING",
                security_station_id |-> -1, queue_position |-> -1, times_passed |-> 0,
                in_security_queue |-> FALSE]]
          /\ my_id' = [my_id EXCEPT ![p] = i]
          /\ Goto(p, "check")
     \/ /\ \A i \in Ids : passengers[i].active
        /\ Goto(p, "unregister_pid")
        /\ UNCHANGED <<passengers, my_id>>
  /\ total_passengers' = total_passengers + 1
  /\ UNCHANGED <<queueVars, security_stations, pidVars, captainVars,
                 stop_boarding_flag, assignment_attempts, current_queue_pos, gender>>

\* Mutant of RegisterPassenger: the slot keeps the status of its former owner.
RegisterPassengerKeepingStatus(p) ==
  /\ pc[p] = "register"
  /\ \/ \E i \in Ids :
          /\ FirstFree(i)
          /\ passengers' = [passengers EXCEPT ![i] =
               [active |-> TRUE, pid |-> p, gender |-> gender[p], status |-> @.status,
                security_station_id |-> -1, queue_position |-> -1, times_passed |-> 0,
                in_security_queue |-> FALSE]]
          /\ total_passengers' = total_passengers + 1
          /\ my_id' = [my_id EXCEPT ![p] = i]
          /\ Goto(p, "check")
     \/ /\ \A i \in Ids : passengers[i].active
        /\ Goto(p, "unregister_pid")
        /\ UNCHANGED <<passengers, total_passengers, my_id>>
  /\ UNCHANGED <<queueVars, security_stations, pidVars, captainVars,
                 stop_boarding_flag, assignment_attempts, current_queue_pos, gender>>

RegisterPassenger(p) ==
  /\ pc[p] = "register"
  /\ \/ \E i \in Ids :
          /\ FirstFree(i)
          /\ passengers' = [passengers EXCEPT ![i] =
               [active |-> TRUE, pid |-> p, gender |-> gender[p], status |-> "WAITING",
                security_station_id |-> -1, queue_position |-> -1, times_passed |-> 0,
                in_security_queue |-> FALSE]]
          /\ total_passengers' = total_passengers + 1
          /\ my_id' = [my_id EXCEPT ![p] = i]
          /\ Goto(p, "check")
     \/ /\ \A i \in Ids : passengers[i].active
        /\ Goto(p, "unregister_pid")
        /\ UNCHANGED <<passengers, total_passengers, my_id>>
  /\ UNCHANGED <<queueVars, security_stations, pidVars, captainVars,
                 stop_boarding_flag, assignment_attempts, current_queue_pos, gender>>

\* Mutant of CheckIn: only the flag of the handler is looked at.
CheckInByFlagOnly(p) ==
  /\ pc[p] = "check"
  /\ IF stop_boarding_flag[p]
     THEN Goto(p, "unregister")
     ELSE \E heavy \in BOOLEAN : Goto(p, IF heavy THEN "unregister" ELSE "join")
  /\ UNCHANGED <<passengers, total_passengers, queueVars, security_stations, pidVars,
                 captainVars, localVars>>

\* Mutant of CheckIn: heavy luggage returns without ipc_unregister_passenger.
CheckInKeepingSlot(p) ==
  /\ pc[p] = "check"
  /\ IF stop_boarding_flag[p] \/ ~boarding_allowed
     THEN Goto(p, "unregister")
     ELSE \E heavy \in BOOLEAN : Goto(p, IF heavy THEN "unregister_pid" ELSE "join")
  /\ UNCHANGED <<passengers, total_passengers, queueVars, security_stations, pidVars,
                 captainVars, localVars>>

\* stop_boarding_flag || !ipc_is_boarding_allowed(), then the scales: some
\* luggage is heavier than MAX_LUGGAGE_WEIGHT.
CheckIn(p) ==
  /\ pc[p] = "check"
  /\ IF stop_boarding_flag[p] \/ ~boarding_allowed
     THEN Goto(p, "unregister")
     ELSE \E heavy \in BOOLEAN : Goto(p, IF heavy THEN "unregister" ELSE "join")
  /\ UNCHANGED <<passengers, total_passengers, queueVars, security_stations, pidVars,
                 captainVars, localVars>>

JoinSecurityQueue(p) ==
  LET i == my_id[p] IN
  /\ pc[p] = "join"
  /\ \/ /\ ~passengers[i].in_security_queue
        /\ security_queue_size < MAX_SECURITY_QUEUE
        /\ security_queue' = [security_queue EXCEPT ![security_queue_tail] = i]
        /\ security_queue_tail' = (security_queue_tail + 1) % MAX_SECURITY_QUEUE
        /\ security_queue_size' = security_queue_size + 1
        /\ passengers' = [passengers EXCEPT ![i].in_security_queue = TRUE,
                                            ![i].queue_position = security_queue_size,
                                            ![i].status = "IN_QUEUE"]
        /\ Goto(p, "loop")
     \/ /\ passengers[i].in_security_queue \/ security_queue_size >= MAX_SECURITY_QUEUE
        /\ Goto(p, "unregister")
        /\ UNCHANGED <<passengers, queueVars>>
  /\ UNCHANGED <<total_passengers, security_stations, pidVars, captainVars, localVars>>

\* Mutant of LoopHead: the flag leaves without ipc_leave_security_queue, and so
\* does a passenger whose attempts are used up.
LoopHeadLeavingAtOnce(p) ==
  /\ pc[p] = "loop"
  /\ IF assignment_attempts[p] >= MAX_ASSIGNMENT_ATTEMPTS \/ stop_boarding_flag[p]
     THEN Goto(p, "unregister")
     ELSE Goto(p, "assign")
  /\ UNCHANGED <<passengers, total_passengers, queueVars, security_stations, pidVars,
                 captainVars, localVars>>

\* Mutant of LoopHead: one attempt too many.
LoopHeadOnceMore(p) ==
  /\ pc[p] = "loop"
  /\ IF assignment_attempts[p] > MAX_ASSIGNMENT_ATTEMPTS \/ stop_boarding_flag[p]
     THEN Goto(p, "leave_queue")
     ELSE Goto(p, "assign")
  /\ UNCHANGED <<passengers, total_passengers, queueVars, security_stations, pidVars,
                 captainVars, localVars>>

\* Mutant of LoopHead: the passenger waits until it has a station; nobody counts
\* the attempts, and the flag is not looked at.
LoopHeadUntilAssigned(p) ==
  /\ pc[p] = "loop"
  /\ Goto(p, "assign")
  /\ assignment_attempts' = [assignment_attempts EXCEPT ![p] = 0]
  /\ UNCHANGED <<passengers, total_passengers, queueVars, security_stations, pidVars,
                 captainVars, my_id, stop_boarding_flag, current_queue_pos, gender>>

\* The head of the assignment loop: it ends when the attempts are used up or
\* the flag is set, and both ways begin with ipc_leave_security_queue.
LoopHead(p) ==
  /\ pc[p] = "loop"
  /\ IF assignment_attempts[p] >= MAX_ASSIGNMENT_ATTEMPTS \/ stop_boarding_flag[p]
     THEN Goto(p, "leave_queue")
     ELSE Goto(p, "assign")
  /\ UNCHANGED <<passengers, total_passengers, queueVars, security_stations, pidVars,
                 captainVars, localVars>>

AssignToSecurityStation(p) ==
  LET i == my_id[p]
      may == passengers[i].in_security_queue /\ passengers[i].security_station_id < 0
  IN
  /\ pc[p] = "assign"
  /\ \/ \E s \in Stations :
          /\ may
          /\ FirstUsable(s, passengers[i].gender)
          /\ LET n == security_stations[s].num_people IN
             security_stations' = [security_stations EXCEPT
               ![s] = [num_people |-> n + 1,
                       passenger_ids |-> [@.passenger_ids EXCEPT ![n] = i],
                       station_gender |-> IF n = 0 THEN passengers[i].gender
                                                   ELSE @.station_gender]]
          /\ Dequeue([passengers EXCEPT ![i].security_station_id = s,
                                        ![i].status = "AT_SECURITY"], i)
          /\ Goto(p, "at_station")
     \/ /\ ~may \/ \A s \in Stations : ~Usable(s, passengers[i].gender)
        /\ Goto(p, "position")
        /\ UNCHANGED <<passengers, queueVars, security_stations>>
  /\ UNCHANGED <<total_passengers, pidVars, captainVars, localVars>>

\* The end of a round: usleep, assignment_attempts++, and the locals of the
\* loop body are gone.
NextRound(p) ==
  /\ Goto(p, "loop")
  /\ assignment_attempts' = [assignment_attempts EXCEPT ![p] = @ + 1]
  /\ current_queue_pos' = [current_queue_pos EXCEPT ![p] = -1]

\* A passenger that is not in the queue reads its station again, in a critical
\* section of its own (passenger.c:148); WaitersAreQueued says there is none.
GetQueuePosition(p) ==
  LET info == passengers[my_id[p]] IN
  /\ pc[p] = "position"
  /\ IF info.in_security_queue
     THEN /\ current_queue_pos' = [current_queue_pos EXCEPT ![p] = info.queue_position]
          /\ Goto(p, "size")
          /\ UNCHANGED assignment_attempts
     ELSE IF info.security_station_id >= 0
          THEN Goto(p, "at_station") /\ UNCHANGED <<current_queue_pos, assignment_attempts>>
          ELSE NextRound(p)
  /\ UNCHANGED <<passengers, total_passengers, queueVars, security_stations, pidVars,
                 captainVars, my_id, stop_boarding_flag, gender>>

\* ipc_get_queue_size, compared with a position read one critical section
\* earlier; rand() % 3 decides whether to let the next one pass.
GetQueueSize(p) ==
  /\ pc[p] = "size"
  /\ \/ /\ current_queue_pos[p] < security_queue_size - 1
        /\ Goto(p, "pass")
        /\ UNCHANGED <<assignment_attempts, current_queue_pos>>
     \/ NextRound(p)
  /\ UNCHANGED <<passengers, total_passengers, queueVars, security_stations, pidVars,
                 captainVars, my_id, stop_boarding_flag, gender>>

\* Mutant of PassInQueue: no limit on the passes.
PassInQueueUnlimited(p) ==
  LET i == my_id[p]
      pos == passengers[i].queue_position
      may == passengers[i].in_security_queue /\ pos < security_queue_size - 1
  IN
  /\ pc[p] = "pass"
  /\ \/ /\ may
        /\ LET j == security_queue[pos + 1] IN
           /\ passengers' = [passengers EXCEPT
                ![i].queue_position = passengers[j].queue_position,
                ![j].queue_position = pos,
                ![i].times_passed = @ + 1]
           /\ security_queue' = [security_queue EXCEPT ![pos] = j, ![pos + 1] = i]
        /\ UNCHANGED <<security_queue_size, security_queue_tail>>
     \/ ~may /\ UNCHANGED <<passengers, queueVars>>
  /\ NextRound(p)
  /\ UNCHANGED <<total_passengers, security_stations, pidVars, captainVars,
                 my_id, stop_boarding_flag, gender>>

\* The passenger behind is valid in every state; position and size are read
\* again under the mutex.
PassInQueue(p) ==
  LET i == my_id[p]
      pos == passengers[i].queue_position
      may == /\ passengers[i].in_security_queue
             /\ passengers[i].times_passed < MAX_QUEUE_PASSES
             /\ pos < security_queue_size - 1
  IN
  /\ pc[p] = "pass"
  /\ \/ /\ may
        /\ LET j == security_queue[pos + 1] IN
           /\ passengers' = [passengers EXCEPT
                ![i].queue_position = passengers[j].queue_position,
                ![j].queue_position = pos,
                ![i].times_passed = @ + 1]
           /\ security_queue' = [security_queue EXCEPT ![pos] = j, ![pos + 1] = i]
        /\ UNCHANGED <<security_queue_size, security_queue_tail>>
     \/ ~may /\ UNCHANGED <<passengers, queueVars>>
  /\ NextRound(p)
  /\ UNCHANGED <<total_passengers, security_stations, pidVars, captainVars,
                 my_id, stop_boarding_flag, gender>>

LeaveSecurityQueue(p) ==
  /\ pc[p] = "leave_queue"
  /\ IF passengers[my_id[p]].in_security_queue
     THEN Dequeue(passengers, my_id[p])
     ELSE UNCHANGED <<passengers, queueVars>>
  /\ Goto(p, "unregister")
  /\ UNCHANGED <<total_passengers, security_stations, pidVars, captainVars, localVars>>

\* Only a passenger at a station gets past the check, and its slot is then free
\* for the next one in the queue.
CompleteSecurityCheck(p) ==
  LET i == my_id[p]
      s == passengers[i].security_station_id
  IN
  /\ pc[p] = "at_station"
  /\ IF s >= 0 /\ passengers[i].status = "AT_SECURITY"
     THEN /\ security_stations' =
               [security_stations EXCEPT ![s] = StationWithout(@, i)]
          /\ passengers' = [passengers EXCEPT ![i].security_station_id = -1,
                                              ![i].status = "SECURITY_PASSED"]
          /\ Goto(p, "waiting_room")
     ELSE Goto(p, "unregister") /\ UNCHANGED <<passengers, security_stations>>
  /\ UNCHANGED <<total_passengers, queueVars, pidVars, captainVars, localVars>>

\* The ferry, the gangway and the journey are left out here: a passenger that
\* fails or is told to stop gives up its slot first and then its pid, one that
\* completes the journey does it the other way round.
LeaveWaitingRoom(p) ==
  /\ pc[p] = "waiting_room"
  /\ Goto(p, "unregister") \/ Goto(p, "journey_end")
  /\ UNCHANGED <<passengers, total_passengers, queueVars, security_stations, pidVars,
                 captainVars, localVars>>

\* The locals vanish with the process.
Exit(p) ==
  /\ Goto(p, "exited")
  /\ my_id' = [my_id EXCEPT ![p] = -1]
  /\ stop_boarding_flag' = [stop_boarding_flag EXCEPT ![p] = FALSE]
  /\ assignment_attempts' = [assignment_attempts EXCEPT ![p] = 0]
  /\ current_queue_pos' = [current_queue_pos EXCEPT ![p] = -1]

UnregisterPassenger(p) ==
  LET i == my_id[p] IN
  /\ pc[p] \in {"unregister", "unregister_last"}
  /\ IF passengers[i].active
     THEN /\ passengers' = [passengers EXCEPT ![i].active = FALSE]
          /\ total_passengers' = total_passengers - 1
     ELSE UNCHANGED <<passengers, total_passengers>>
  /\ IF pc[p] = "unregister"
     THEN /\ Goto(p, "unregister_pid")
          /\ UNCHANGED <<my_id, stop_boarding_flag, assignment_attempts, current_queue_pos>>
     ELSE Exit(p)
  /\ UNCHANGED <<queueVars, security_stations, pidVars, captainVars, gender>>

\* Mutant of UnregisterPassengerPid: the count goes down, nothing is moved.
UnregisterPassengerPidUnmoved(p) ==
  /\ pc[p] \in {"unregister_pid", "journey_end"}
  /\ num_passenger_pids' = CountWithout(passenger_pids, num_passenger_pids, p)
  /\ IF pc[p] = "journey_end"
     THEN /\ Goto(p, "unregister_last")
          /\ UNCHANGED <<my_id, stop_boarding_flag, assignment_attempts, current_queue_pos>>
     ELSE Exit(p)
  /\ UNCHANGED <<passengers, total_passengers, queueVars, security_stations,
                 passenger_pids, captainVars, gender>>

UnregisterPassengerPid(p) ==
  /\ pc[p] \in {"unregister_pid", "journey_end"}
  /\ passenger_pids' = Without(passenger_pids, num_passenger_pids, p)
  /\ num_passenger_pids' = CountWithout(passenger_pids, num_passenger_pids, p)
  /\ IF pc[p] = "journey_end"
     THEN /\ Goto(p, "unregister_last")
          /\ UNCHANGED <<my_id, stop_boarding_flag, assignment_attempts, current_queue_pos>>
     ELSE Exit(p)
  /\ UNCHANGED <<passengers, total_passengers, queueVars, security_stations,
                 captainVars, gender>>

-----------------------------------------------------------------------------
(* The captain, SIGNAL2_AFTER seconds into its shift. *)

StopBoarding ==
  /\ captain_pc = "working"
  /\ boarding_allowed' = FALSE
  /\ captain_pc' = "send"
  /\ UNCHANGED <<passengers, total_passengers, queueVars, security_stations, pidVars,
                 signal2_received, pc, localVars>>

\* kill() to every listed process while the captain holds the mutex.  Those of
\* them that sleep in semop at that moment die in ipc_lock, the others run
\* their handler; a zombie takes the signal and does nothing.
Listed == Window(passenger_pids, num_passenger_pids)

\* Mutant of SendSignal2: the last one in the list is forgotten.
SendSignal2ToAllButOne ==
  LET heard == Window(passenger_pids, num_passenger_pids - 1) IN
  /\ captain_pc = "send"
  /\ \E interrupted \in SUBSET {p \in heard : pc[p] \in LockPoints} :
       pc' = [p \in Pids |-> IF p \in interrupted THEN "killed" ELSE pc[p]]
  /\ stop_boarding_flag' =
       [p \in Pids |-> (p \in heard /\ pc'[p] # "killed") \/ stop_boarding_flag[p]]
  /\ signal2_received' = TRUE
  /\ boarding_allowed' = FALSE
  /\ captain_pc' = "done"
  /\ UNCHANGED <<passengers, total_passengers, queueVars, security_stations, pidVars,
                 my_id, assignment_attempts, current_queue_pos, gender>>

SendSignal2 ==
  /\ captain_pc = "send"
  /\ \E interrupted \in SUBSET {p \in Listed : pc[p] \in LockPoints} :
       pc' = [p \in Pids |-> IF p \in interrupted THEN "killed" ELSE pc[p]]
  /\ stop_boarding_flag' =
       [p \in Pids |-> (p \in Listed /\ pc'[p] # "killed") \/ stop_boarding_flag[p]]
  /\ signal2_received' = TRUE
  /\ boarding_allowed' = FALSE
  /\ captain_pc' = "done"
  /\ UNCHANGED <<passengers, total_passengers, queueVars, security_stations, pidVars,
                 my_id, assignment_attempts, current_queue_pos, gender>>

-----------------------------------------------------------------------------
Passenger(p) ==
  \/ RegisterPassengerPid(p)    \/ RegisterPassenger(p)
  \/ CheckIn(p)                 \/ JoinSecurityQueue(p)
  \/ LoopHead(p)                \/ AssignToSecurityStation(p)
  \/ GetQueuePosition(p)        \/ GetQueueSize(p)
  \/ PassInQueue(p)             \/ LeaveSecurityQueue(p)
  \/ CompleteSecurityCheck(p)   \/ LeaveWaitingRoom(p)
  \/ UnregisterPassenger(p)     \/ UnregisterPassengerPid(p)

Captain == StopBoarding \/ SendSignal2

Next == Captain \/ \E p \in Pids : Passenger(p)

\* A waiter for a System V semaphore is served in turn, so a passenger that
\* can take a step takes one.  The captain may finish early and never signal.
Spec == Init /\ [][Next]_vars
FairSpec == Spec /\ \A p \in Pids : WF_vars(Passenger(p))

-----------------------------------------------------------------------------
(* Safety. *)

InQueue(i) == i \in Window(security_queue, security_queue_size)
StationWindow(s) == Window(security_stations[s].passenger_ids, security_stations[s].num_people)

\* The queue is kept twice: as the array with its size and tail, and as flag and
\* position of every passenger.  Compaction, renumbering, swapping and the reuse
\* of slots keep the two equal.
QueueMirrorsPassengers ==
  /\ Distinct(security_queue, security_queue_size)
  /\ security_queue_tail = security_queue_size % MAX_SECURITY_QUEUE
  /\ \A i \in Ids : passengers[i].in_security_queue <=> InQueue(i)
  /\ \A k \in 0 .. (security_queue_size - 1) :
       security_queue[k] \in Ids /\ passengers[security_queue[k]].queue_position = k

\* README, test 2: no station holds passengers of both genders, however people
\* come and leave.  A station's list also agrees with the station each passenger
\* is recorded at, and an empty station is back to its initial gender.
StationsSegregated ==
  \A s \in Stations :
    LET st == security_stations[s] IN
    /\ Distinct(st.passenger_ids, st.num_people)
    /\ \A k \in 0 .. (st.num_people - 1) :
         st.passenger_ids[k] \in Ids /\ passengers[st.passenger_ids[k]].gender = st.station_gender
    /\ \A i \in Ids : i \in StationWindow(s) <=>
         passengers[i].active /\ passengers[i].security_station_id = s
    /\ st.num_people = 0 => st.station_gender = "MALE"

\* A slot in use belongs to one process, which still lives and knows it, or was
\* interrupted; a slot that is handed on is in no queue and at no station.
SlotsOwned ==
  /\ \A p \in Pids : pc[p] \in HoldingPcs =>
       my_id[p] \in Ids /\ passengers[my_id[p]].active /\ passengers[my_id[p]].pid = p
  /\ \A i \in Ids : passengers[i].active =>
       /\ passengers[i].pid \in Pids
       /\ my_id[passengers[i].pid] = i
       /\ pc[passengers[i].pid] \in HoldingPcs \cup {"killed"}
       /\ passengers[i].gender = gender[passengers[i].pid]
  /\ \A i \in Ids : passengers[i].in_security_queue => passengers[i].active

\* What a passenger process believes about itself is what the shared memory
\* says, so the error returns of ipc_assign_to_security_station (-1, -2) and of
\* ipc_complete_security_check, and the recovery of passenger.c:148, cannot
\* happen; and nobody leaves its slot behind in the queue or at a station.
WaitersAreQueued ==
  \A p \in Pids : LET info == passengers[my_id[p]] IN
    /\ pc[p] \in WaitingPcs =>
         info.in_security_queue /\ info.security_station_id = -1 /\ info.status = "IN_QUEUE"
    /\ pc[p] = "at_station" =>
         /\ ~info.in_security_queue
         /\ info.security_station_id >= 0
         /\ info.status = "AT_SECURITY"
    /\ pc[p] \in HoldingPcs \ (WaitingPcs \cup {"at_station"}) =>
         ~info.in_security_queue /\ info.security_station_id = -1

\* total_passengers is the number of slots in use.
CountsActive == total_passengers = Cardinality({i \in Ids : passengers[i].active})

\* A passenger lists its pid before it reads boarding_allowed, and the section
\* that broadcasts leaves boarding_allowed cleared, so there is no gap: after
\* the broadcast every passenger inside the control has its flag set.
SignalReachesAll ==
  signal2_received => \A p \in Pids : pc[p] \in InsidePcs => stop_boarding_flag[p]

\* The list of pids holds the processes that must hear the captain, each once.
PidsListed ==
  /\ Distinct(passenger_pids, num_passenger_pids)
  /\ Listed = {p \in Pids : pc[p] \in ListedPcs \cup {"killed"}}

\* Within a round of the assignment loop there is an attempt left, and the
\* captain has cleared boarding_allowed before it broadcasts.
RoundsAndSignal ==
  /\ \A p \in Pids : pc[p] \in {"assign", "position", "size", "pass"} =>
       assignment_attempts[p] < MAX_ASSIGNMENT_ATTEMPTS
  /\ captain_pc # "working" => ~boarding_allowed
  /\ signal2_received => captain_pc = "done"

\* The inductive invariant: none of these parts is preserved without the others.
IInv ==
  /\ TypeOK            /\ QueueMirrorsPassengers  /\ StationsSegregated
  /\ SlotsOwned        /\ WaitersAreQueued        /\ PidsListed
  /\ SignalReachesAll  /\ RoundsAndSignal

\* What the refinements need beside IInv: a passenger comes to the queue with nothing
\* left of the former owner of its slot, neither the mark of the waiting room nor
\* the passes it used up, and knows of signal 2 only from the captain.
CleanStart ==
  /\ \A p \in Pids : pc[p] \in {"check", "join"} =>
       /\ passengers[my_id[p]].status = "WAITING"
       /\ passengers[my_id[p]].times_passed = 0
  /\ \A p \in Pids : stop_boarding_flag[p] => signal2_received

-----------------------------------------------------------------------------
(* Action properties. *)

\* README, test 2 (letting others pass): a passenger loses its place before
\* another only by spending one of its MAX_QUEUE_PASSES on it, and only to the
\* one directly behind; nobody's leaving or being assigned reorders the rest.
Overtaken(i, j) ==
  /\ passengers[i].in_security_queue /\ passengers'[i].in_security_queue
  /\ passengers[j].in_security_queue /\ passengers'[j].in_security_queue
  /\ passengers[i].queue_position < passengers[j].queue_position
  /\ passengers'[i].queue_position > passengers'[j].queue_position
OvertakenByConsent ==
  \A i, j \in Ids : Overtaken(i, j) =>
    /\ passengers[i].times_passed < MAX_QUEUE_PASSES
    /\ passengers'[i].times_passed = passengers[i].times_passed + 1
    /\ passengers[j].queue_position = passengers[i].queue_position + 1
OvertakenOnlyByConsent == [][OvertakenByConsent]_vars

\* README, test 1: after signal 2 no process passes the check-in that was not
\* inside before, although processes keep starting and registering.
NoLateAdmission ==
  [][signal2_received =>
       \A p \in Pids : pc'[p] \in InsidePcs => pc[p] \in InsidePcs]_vars

-----------------------------------------------------------------------------
(* Refinement. *)

\* A process that gave its slot back still has the number in my_id, while the slot
\* may be the place in the queue of the next one.
QueuesAs(p, i) == i # -1 /\ passengers[i].pid = p /\ passengers[i].in_security_queue

\* The array and the station lists hold slots; a slot stands for the process that
\* registered it, dead or alive.
Control == INSTANCE Checkpoint WITH
  People <- Pids, ROOM <- MAX_PEOPLE_PER_STATION, PASSES <- MAX_QUEUE_PASSES,
  closed <- signal2_received,
  inside <- {p \in Pids : pc[p] \in InsidePcs},
  line <- [k \in 1 .. security_queue_size |-> passengers[security_queue[k - 1]].pid],
  passes <- [p \in Pids |-> IF QueuesAs(p, my_id[p]) THEN passengers[my_id[p]].times_passed ELSE 0],
  at <- [s \in Stations |-> {passengers[i].pid : i \in StationWindow(s)}]

\* Queue, stations, slots and the two flags of the captain are changed in different
\* critical sections, and slots are handed on: seen as people, they are a line
\* and groups at stations that move in single legal steps.
IsCheckpoint == Control!Spec

\* People in the waiting room have passed the control and still have their slots.
Room == INSTANCE WaitingRoom WITH
  People <- Pids, Slots <- Ids, told <- signal2_received,
  held <- {<<passengers[i].pid, i>> :
             i \in {j \in Ids : passengers[j].active /\ passengers[j].status = "SECURITY_PASSED"}},
  staying <- {p \in Pids : pc[p] = "waiting_room"},
  flagged <- {p \in Pids : pc[p] = "waiting_room" /\ stop_boarding_flag[p]}

\* The control hands over to the ferries only passengers that have a slot of their
\* own and hear, or have heard, the captain, at whichever of its points signal 2
\* met them (passenger.c:202 to 222).
FillsWaitingRoom == Room!Spec

-----------------------------------------------------------------------------
(* Liveness. *)

\* README, tests 1 and 2: no hanging processes and no waiting for a matching
\* passenger.  Whatever the others do, and even if the dead keep all stations
\* occupied, every passenger process ends.
EveryPassengerLeaves == \A p \in Pids : <>(pc[p] \in EndedPcs)

-----------------------------------------------------------------------------
(* A claim of the repository that the code does not keep. *)

\* passenger.c:134, "SIGUSR2 received - leaving queue": when all processes are
\* gone the queue and the stations are empty.
NobodyLeftBehind ==
  (\A p \in Pids : pc[p] \in EndedPcs) =>
    security_queue_size = 0 /\ \A s \in Stations : security_stations[s].num_people = 0

=============================================================================
