# A TLA+ model of the ferry port simulation

The program simulates a port: a launcher (`src/src/main.c`) creates a shared
memory segment and a set of two semaphores and forks a captain, two ferries and
fifty passengers. All of them work on one `SystemState` through the functions of
`ipc.c`, each of which is a critical section under `SEM_SHM_MUTEX`; the captain
also sends `SIGUSR2` (no new passengers) and `SIGUSR1` (forced departure).

## 1. Inventory

| Part | State it keeps | Operations | What makes it correct |
|---|---|---|---|
| Critical sections (`ipc.c` 134-156, `ferry.c` 36-58, `logger.c` 13-41) | value and sleepers of two semaphores | lock, unlock, interrupted lock | sections of the memory exclude each other; no sleeper without a waker |
| Slots and pid lists (`ipc.c` 158-204, 861-885) | `passengers[]`, `total_passengers`, `passenger_pids[]` | register, unregister | one living owner per slot, every process listed once, slots handed on clean |
| Security queue (`ipc.c` 369-483, 700-747) | `security_queue[]`, size, tail; flag and position per passenger | join, leave, position, size, let pass | array and passengers agree; order changes only by consent, a limited number of times |
| Security stations (`ipc.c` 516-699) | `security_stations[]` | assign, complete | no mixed genders; station list and passenger agree |
| Passenger process (`passenger.c`) | its slot, flag, attempts, ferry | the whole way from start to end | what it believes is what the memory says; it ends |
| Ferries (`ferry.c`, `ipc.c` 255-320, 835-859) | `ferries[]`, list of passengers, status, limit | register, reset, open, board, sail, return | capacity; a boarder is kept until the ferry sails; it stops |
| Gangway (`ipc.c` 749-833) | one `gangway` for all ferries | enter (VIPs in front), exit, poll | holds exactly those who are on it |
| Captain (`captain.c`) | its time | poll, signal 2, signal 1, early end | both broadcasts leave no gap |
| Launcher (`main.c`) | children | fork, wait, `all_passengers_finished`, cleanup | cleanup comes, and comes last |
| Segment and semaphores as kernel objects (`ipc.c` 24-128, 322-350) | `SHM_KEY`, `SEM_KEY` and the ids in every process | create, undo, attach, remove | a start keeps to its own objects, whatever fails or overlaps; nothing is removed in use |
| Logger (`logger.c`) | log file | message | one writer at a time |

How they interact: only through the segment, the semaphores and the two
signals. The hard parts are

- that a process acts on what it read some sections earlier (queue position and
  size, the ferry that was found, the poll of the gangway),
- that every list is an array with a counter, compacted by whoever leaves, and
  kept a second time in the records of its members,
- that slots of passengers and ferries are reused at once,
- that a signal to a process that sleeps in `semop` makes the call fail with
  `EINTR`: `ipc_lock` and `lock_mutex` then exit the process, which leaves
  everything behind, and `logger_lock` goes on without the mutex,
- that the objects are found under two fixed keys, created, attached and removed in
  several system calls, while the program may be started a second time or its
  launcher be killed,
- that the ends of passengers, ferries, captain and launcher depend on each other.

`PROJECT.json` lists the hazards with their lines and properties.

## 2. Modules

| Module | Models | Extended by |
|---|---|---|
| `Arrays` | the compacted arrays: window, search, closing the gap | `ArraysProofs` (lemmas) |
| `Semaphores` | both semaphores, their sleepers and interrupts, all kinds of processes | `MCSemaphores`, `SemaphoresProofs` |
| `SecurityControl` | passenger from start to the waiting room and its clean-up, queue, stations, slots, pid list, signal 2 | `MCSecurityControl`, `SecurityControlProofs`, `ControlRefinementProofs` |
| `Boarding` | ferries, gangway, passenger from the waiting room on, captain, launcher, both signals | `MCBoarding`, `BoardingProofs` |
| `Lifecycle` | `ipc_init`, `ipc_attach`, `ipc_cleanup`, `logger_init`, forks and waits of several launchers | `MCLifecycle`, `LifecycleProofs` |

Three abstract specifications say what the detailed modules promise:

| Module | Promises | Implemented by |
|---|---|---|
| `Checkpoint` | people in a line and groups at stations: admission ends, a place is given up only to the next behind, no mixed station | `SecurityControl`, mapping `Control`, property `IsCheckpoint` |
| `Voyages` | a ferry opens empty, takes on passengers one at a time while it has seats, sails with all on board | `Boarding`, mapping `Voyage`, property `TripsAreVoyages` |
| `WaitingRoom` | who arrives has a slot nobody else has; who stays has heard, or hears, signal 2; a slot is given back after leaving | `SecurityControl` and `Boarding`, mapping `Room`, properties `FillsWaitingRoom`, `KeepsWaitingRoom` |

`SecurityControl` and `Boarding` are two halves of one passenger process and are
not checked in one state space: that would be too large. `WaitingRoom` is the
contract that joins them. `SecurityControl` shows that passengers come out of the
control as the contract says; `Boarding` lets them arrive in every way the contract
allows, from its `Arrive`, and shows that what follows keeps to it.

### How steps correspond to code

A call of an `ipc_` function is one action: `Semaphores` shows, and its proof
for any number of processes, that no two processes are in a section of shared
memory together, and what a section reads and writes nobody touches outside one.
Local computation between two sections belongs to the action before or after;
where a signal between a local test and the next section matters the test is an
action of its own (`LoopHead`, `SearchHead`). The variables carry the names of
`SystemState` and of the locals; `pc`, `ppc` and `fpc` say which section a
process wants to enter next.

`Semaphores`: `Down` and `Up` are `semop` with -1 and +1. The kernel completes
the operation of the first sleeper at once, so a section is handed on. `Kill` is one
`kill()` of a broadcast; a sleeper takes `Interrupted`. There is no nesting of
the two semaphores in the code, and none in the model.

`SecurityControl`: the passenger's actions follow `passenger.c` line by line;
`Dequeue` is the compaction that `ipc_leave_security_queue` and
`ipc_assign_to_security_station` contain twice. Left out: luggage weights (being
too heavy is a choice), sleeps, output, `security_queue_head` (always 0) and
`in_use` (always `num_people > 0`). `SendSignal2` is the broadcast of the
captain: any subset of the listed processes that may be in `semop` dies
(`"killed"`), the others get their flag.

`Boarding`: a ferry's loop is cut at its sections. `waited` counts the rounds of
`sleep(1)` in the boarding loop and before the gangway; a sleep lasts at least its
second, so the code leaves the loop after `BOARDING_TIME_LIMIT` rounds at the
latest, and it may leave it earlier. The look at `signal1_received` after the return
and the drawing of a limit are two sections (`NextTrip`, `NewLimit`). Passengers
arrive as `WaitingRoom` says. A ferry or a captain that could not be forked, executed
or attached ends at once or is "absent". `ferry_pids` and `passenger_pids` are sets:
how the array is compacted is in `SecurityControl`, whose `PidsListed` says that it is
the set of those who have to hear the captain. Here it begins with those past the
control. The captain goes from signal 2 to signal 1 with polls in between or, when
it is late, without. `sailed` (has the
ferry that a passenger found or boarded sailed since) and `late_departures` are
history variables: nothing reads them but properties and mappings. Left out: manifest, log texts, `trips_completed`,
`last_departure`, `target_ferry_id` (never read).

`Lifecycle`: a launcher stands also for the segment and the set of semaphores it
makes, so an id is the launcher that made the object. A system call is one
action, and each may fail; `Undo` is the error paths of `ipc_init`. IPC_RMID frees
the key at once, and processes that are attached to the segment keep it.
A child looks up first the semaphores of the logger, then the segment, then the
semaphores; the rest of its life is one state, which it can leave when both
semaphores were set, or when the set is gone. Processes are killed at any point, also
inside a section: the mutex then stays taken (`lost`), because `semop` is called
without `SEM_UNDO`. Its siblings may have their last section behind them and end, or
sleep for it for ever and their launcher with them, so `EndChild` stays possible and
is no longer fair. IPC_RMID may fail as well (`refused`): the key then stays
taken, and `ipc_cleanup` goes on with the other object.

Definitions whose comment begins with "Mutant of" are not part of the
specification. Each changes one definition the way a slip in the code would; with
it in place the property named in `PROJECT.json` is violated.

## 3. Runs

All runs set `CHECK_DEADLOCK FALSE`, because the system stops when all
processes have ended.

| Run | Instance | What it shows |
|---|---|---|
| `control_queue` | 3 passengers, 3 cells, 1 place, 1 pass, 2 attempts; one gender, no captain, up to the way out (`QueueOnly`) | `QueueMirrorsPassengers`, `WaitersAreQueued`, `OvertakenOnlyByConsent`, `IsCheckpoint` |
| `control_slots` | 3 processes, 2 slots, 1 station for 2, both genders, signal 2 | `TypeOK`, `StationsSegregated`, `SlotsOwned`, `CountsActive`, `SignalReachesAll`, `PidsListed`, `NoLateAdmission` |
| `control_leave` | 2 passengers of any gender, 1 place, 2 attempts, signal 2, fairness | the inductive invariant `IInv`, `CleanStart`, `EveryPassengerLeaves`, `IsCheckpoint`, `FillsWaitingRoom` |
| `semaphores` | launcher, captain, 2 ferries, 1 passenger, fairness | `ShmExclusive`, `NobodySleepsInVain`, `SemvalCounts`, `TypeOK`, `SleepersServed` |
| `boarding` | 2 ferry processes, 1 ferry slot, capacity 1, 2 passengers (VIPs, each of which goes in front), gangway for 2, both signals | the inductive invariant `IInv`, `FerriesOwned`, `BoardersKept`, `GangwayMirrorsPassengers`, `NeverOverloaded`, `TypeOK`, `TripsAreVoyages` |
| `boarding_live` | 1 ferry process, capacity 1, 2 passengers, gangway for 1, both signals, fairness | `EverybodyEnds`, `AtMostTwoMoreTrips`, `KeepsWaitingRoom`; `GangwayMirrorsPassengers` and `NeverOverloaded` where passengers are refused at a full gangway |
| `lifecycle` | 2 launchers with a captain and another child each, every failure, removals included, kills at any point, also inside a section, fairness | `TypeOK`, the inductive invariant `IInv`, `ChildrenOnOwnPort`, `NothingRemovedInUse`, `NoTakeover`, `NothingLeftBehind`, `EveryStartEnds` |

The refinements are properties of the whole behaviour: every step of the detailed
module is a step of the abstract one or changes nothing there. `IsCheckpoint`
leaves free who in the line is called, because a passenger behind may match the
station first. `TripsAreVoyages` implies what `NeverOverloaded` says as an
invariant, and in addition that no seat is given twice on one trip and that a ferry
opens empty. `EveryStartEnds` is about launchers none of whose children died inside a
section; `NothingLeftBehind` excepts what the kernel refused to remove.

Five more runs end with a violation of something the repository says:

| Run | Property | Disagreement |
|---|---|---|
| `control_interrupted` | `NobodyLeftBehind` | "SIGUSR2 received - leaving queue" (`passenger.c:134`), but who sleeps for the mutex when the signal comes exits in `ipc_lock` and stays in the queue for good |
| `semaphores_log` | `LogExclusive` | `SEM_LOG_MUTEX` is the mutex of the log file (`config.h:14`), but an interrupted `logger_lock` goes on without it and its unlock raises the value to 2 |
| `boarding_journey` | `JourneyIsVoyage` | "Waiting for departure...", "Journey completed" (`passenger.c:328`, `:333`), but the passenger only sleeps 7 seconds while a ferry with seats left may board for 8 and wait 10 more (capacity 2) |
| `boarding_signal1` | `NoOpeningAfterSignal1` | after signal 1 a ferry takes no new passengers (`README.md:81`), but one that the signal meets at sea comes back, opens and makes another trip |
| `boarding_luggage` | `LuggageWithinLimit` | every ferry works with its own limit (`README.md:100`), but the limit is compared when the ferry is found and not again on board, and the ferry may have sailed, drawn a lower one and opened again in between |

`AtMostTwoMoreTrips` is the bound on what `boarding_signal1` shows: there is no third
departure. Two further differences are seen in the model and not given a run: a ferry
sails with somebody on the gangway after ten seconds (`README.md:82`; the code
prints a warning), which is also what lets ferries leave a gangway on which somebody
died; and the remaining passengers wait for the next ferry (`README.md:83`), but who
is refused on board, because the ferry it found has left, gives up (`passenger.c:314`).

### Bounds

Two passengers compete for everything, three are needed for the order of a queue,
and one slot less than processes makes slots be handed on. One pass is enough to use
the passes up and two attempts to try again afterwards; the queue has as many cells as
there are slots, so it fills up and the tail wraps. With one ferry slot for two ferry
processes the second one is either refused or takes the slot over. The gangway has room
for both passengers in `boarding`, where each goes in front of the other, and for one in
`boarding_live`, so that the other is refused. `BOARDING_TIME_LIMIT` and
`MAX_GANGWAY_WAIT` are a round each; only in `boarding`, where there are two ferry
processes, the boarding loop ends with its first round, which has all the tests of the
loop, and `boarding_live` covers going round again. Two launchers are enough for one to
come to any point of the other's life, and two children for a captain and one that is
forked or not, either of which may die with a mutex the other needs.

`QueueOnly` is a constraint: it cuts off what `control_queue` is not about, and
`control_slots` and `control_leave` cover the cut part with fewer passengers. Symmetry
is used in safety runs only; processes differ in nothing but what they draw.

What no run reaches: a gap in the middle of a gangway of three, and a counter of
passes that the former owner of a slot left behind, which takes four processes, are
covered by the theorems, which hold for every instance. A full security queue turns
nobody away, in the model as in the program: it has as many cells as there are slots,
and each slot is in it once.

### Fairness

`SecurityControl` assumes weak fairness of each passenger: Linux serves the
waiters of a semaphore in turn, and sleeps end. The captain is not assumed to do
anything. `Boarding` assumes weak fairness of each ferry, each passenger, the
captain, whose day has 120 seconds, and the launcher. `Semaphores` assumes only
that a section ends: sections are straight code without blocking calls. `Lifecycle`
assumes that system calls return and that a child with working semaphores ends,
which is what `EverybodyEnds` shows, unless somebody was killed with a mutex in its
hands; nobody has to be killed. No
choice inside a process is assumed to be fair: loops end because attempts and
rounds are counted and flags are looked at.

## 4. Proofs

Every safety property of the passing runs is a theorem, and so are the refinements.

`ArraysProofs` has the lemmas about the compacted arrays: where the search
stops, which cells a list without a value holds, that it stays free of
duplicates and keeps its order, what is added at the end and at the front, and that a
list without duplicates is no longer than the set its members come from.

`SecurityControlProofs` proves for any number of passengers, slots, cells,
stations and attempts (under `PidsAssumption`, the pid list is long enough, which
50 processes and 100 cells satisfy, and `SizesAssumption`):

- `Invariant`: `Spec => []IInv`. None of the parts of `IInv` is inductive alone:
  that the search in the queue finds the passenger needs the mirror; the mirror
  after the reuse of a slot needs that an inactive slot is in no queue
  (`SlotsOwned`); that needs what every process believes (`WaitersAreQueued`); and
  `SignalReachesAll` needs `PidsListed` and the order of the captain's steps
  (`RoundsAndSignal`). There is one lemma per action, with one step per part
  that the action disturbs.
- from it `TypeCorrect`, `QueueCorrect`, `StationsCorrect`, `SlotsCorrect`,
  `WaitersCorrect`, `SignalCorrect`, `PidsCorrect`, the count
  `CountCorrect` (with the cardinality of the active slots), and the action property
  `AdmissionCorrect` (`NoLateAdmission`).

`SemaphoresProofs` proves for any sets of ferries and passengers the invariant of
the semaphores (`Invariant`) and from it `MutualExclusion`, `SomebodyPosts`,
`ValuesCorrect` and `TypeCorrect`. Mutual exclusion alone is not
inductive: handing a section on needs that a sleeper is in no section
(`SleepersApart`, a part of the invariant), and taking a free semaphore needs that its value tells whether a section is open.

`LifecycleProofs` proves for any sets of launchers and any number of children
(under `LifecycleAssumption`: launchers and children are different processes) the
invariant of the life cycle and from it `TypeCorrect`, `PortCorrect`,
`RemovalCorrect`, `TakeoverCorrect` and `EndCorrect` (nothing is left behind but what
the kernel refused to remove). `LaunchersOwn` says at each
point of the launcher which objects are its own and under their keys, and
`ChildrenBelong` that a child lives only while they are: the one needs the other,
since removal is safe only because no child lives, and a child is safe only
because nobody else removes. `Untouched` is what a step of one launcher leaves
alone of all the others.

### Ferries and boarding

`BoardingProofs` proves for any numbers of ferry processes, passengers, ferry slots,
seats and cells of the gangway (under `PortAssumption`: these are natural numbers, a
ferry has a seat, the gangway a cell, and there is a luggage limit to draw) the
inductive invariant of `Boarding`. Its parts need each other:

- `GangwayMirrorsPassengers` needs `SlotsOwned`: the array has numbers of slots, and
  only if nobody else has mine does the search for my number find me and closing the
  gap remove nobody else.
- `FerrySlots` is `FerriesOwned` made inductive. A slot that was given back must not
  look open, or the next owner would begin its life boarding; and nobody may be
  counted on a ferry that opens, or `NeverOverloaded` would fail on its second trip.
- `FoundFerriesWait` is what a passenger may still believe of the ferry it found some
  sections ago: as long as it has not sailed, it is open and keeps whoever boarded.
  This gives `BoardersKept`. Nothing of the kind holds of its luggage limit.
- `PassengersListed` says that the captain's list has whoever came from the control and
  has not given its pid back. It is proved on top of the other parts, which do not
  need it; `ImplementsWaitingRoom` does, for signal 2 has to reach everybody.
- `LastTrips` says where a ferry is after the departures that followed signal 1, and
  gives `AtMostTwoMoreTrips`.
- `FinishedForGood` says that the launcher's flag, once raised, stays true.

From it follow `TypeCorrect`, `GangwayCorrect`, `FerriesCorrect`, `BoardersCorrect`,
`TripsBounded`, and `LoadCorrect`. The last counts people: those on
board of a ferry that has not sailed have different slots in its window of
`num_passengers` cells, so there are no more of them than cells
(`NoMoreThanCells`). `ImplementsWaitingRoom` and `ImplementsVoyages` map every action
to its step of the abstract specification or to a stutter: opening, boarding and
sailing of `Boarding` are those of `Voyages`, whatever ferry processes die, and
nothing else is visible there.

### The security control as people see it

`ControlRefinementProofs` proves what `SecurityControl` promises to others. The
variables of `Checkpoint` and `WaitingRoom` are people, those of the control are slots,
so there is first one lemma per action that says what it does to the person who
takes it (`JoinEffect`, `AssignEffect`, `PassEffect` and so on), and one, used by all of
them, that the others keep their slots and what is recorded there, except for a
position in the queue (`PassengerKeepsOthers`). On these rest

- `CleanStartCorrect`: a passenger meets nothing of the former owner of its slot
  when it comes to the queue. The refinements need it beside `IInv`: with an old status a
  newcomer would stand in the waiting room at once, and with an old counter it
  would not have its passes;
- `OvertakingCorrect` (`OvertakenOnlyByConsent`): leaving and being assigned close a gap
  and keep the order of the rest (`TakenOutNobodyOvertaken`), and only
  `ipc_pass_in_queue` exchanges two neighbours, at the cost of a pass
  (`LetsPassByConsent`), although the position it uses was read in an earlier section;
- `FillsRoom`: the control keeps the contract from which `Boarding` starts. With
  `ImplementsWaitingRoom` the two halves of the passenger process fit together for
  every instance, not only for those that TLC explores;
- `ImplementsCheckpoint`: the array with its tail, positions, flags, station lists and
  genders is a line and groups of people. `LineState` gives the correspondence
  of cells and places, `Removed` that closing the gap in the array is `RemoveAt` on the
  line, and `StationHasRoom` that the counted list of a station is its group.

The last proof corrected the mapping. A process keeps the number of its slot in
`my_id` after it gave the slot back, and the first mapping read the counter of passes
from there, though the slot could be the next owner's by then. To be seen, this
takes a process at its very end and others that queue in the slots it and its
like gave back: four passengers and three slots, more than the runs have. `QueuesAs`
now asks for the owner.

### Only model-checked

Liveness: `EveryPassengerLeaves`, `EverybodyEnds`, `SleepersServed` and
`EveryStartEnds`. Liveness under fairness is out of the prover's reach. The five
violations are found by TLC, and a counterexample needs no proof. That an `ipc_` call
may be one action is proved as `MutualExclusion` of `Semaphores`; the step from there
to the other modules, which have no semaphore, is an argument in section 2.

## 5. Plan

1. Done: `Arrays`, `Semaphores`, `SecurityControl`, `Boarding` and `Lifecycle`, the three
   abstract specifications, and proofs of every safety property and refinement.
2. Left: the parts of liveness that are invariants, such as bounds on the rounds of the
   loops (a measure that each round of a passenger decreases) as action properties
   with theorems; and shorter proofs where lemmas of `BoardingProofs` and
   `ControlRefinementProofs` about the waiting room are alike.

## 6. Not modelled

- Failing system calls in the middle of the work, other than an interrupted
  `semop`; and the second `ipc_attach` of `ferry.c:159`, which can fail only if the
  objects that were found a moment before have gone.
- Wall clock time: a sleep lasts as long as it likes. So the model also has steps
  that are far apart in the usual timing.
- What is printed and logged, the manifest and the number of passengers in the
  departure message among it, and `trips_completed`.
- The functions only tests call (`ipc_leave_security_station`,
  `ipc_register_ferry`) or nobody calls (`ipc_get_available_station_for_gender`,
  `ipc_unregister_ferry`): no process takes these steps.
- The distributions of random attributes: a draw is any value.
- The case that a killed launcher's objects are removed by hand; as long as they
  are there, every further start ends at once, which `NoTakeover` relies on.
