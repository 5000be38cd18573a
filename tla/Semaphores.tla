---------------------------- MODULE Semaphores ----------------------------
(***************************************************************************)
(* The two semaphores of the set SEM_KEY and the processes that use them:  *)
(* SEM_SHM_MUTEX through ipc_lock/ipc_unlock (ipc.c) and lock_mutex/       *)
(* unlock_mutex (ferry.c), SEM_LOG_MUTEX through logger_lock/logger_unlock *)
(* (logger.c).  Captain SIGUSR1 and SIGUSR2 interrupt sleepers; what the   *)
(* interrupted semop leads to differs between the two semaphores.          *)
(*                                                                         *)
(* No section of one semaphore is entered inside a section of the other.   *)
(***************************************************************************)
EXTENDS Naturals, Sequences

CONSTANTS Launcher, Captain, Ferries, Passengers

Receivers == Ferries \cup Passengers
Procs == {Launcher, Captain} \cup Receivers
Sems == {"shm", "log"}

\* The launcher and the captain are processes of their own and get no signal.
ASSUME ProcsAssumption == Captain \notin Receivers /\ Launcher \notin Receivers

VARIABLES
  semval,       \* semaphore -> its value
  sleepers,     \* semaphore -> the processes asleep in semop, in order of arrival
  inside,       \* semaphore -> the processes between the two semops
  signalled,    \* the processes the captain has signalled
  gone          \* the processes that have ended

vars == <<semval, sleepers, inside, signalled, gone>>

Asleep(s) == {sleepers[s][k] : k \in 1 .. Len(sleepers[s])}
Running(p) == p \notin gone /\ \A s \in Sems : p \notin Asleep(s) \cup inside[s]

TypeOK ==
  /\ semval \in [Sems -> Nat]
  /\ sleepers \in [Sems -> Seq(Procs)]
  /\ inside \in [Sems -> SUBSET Procs]
  /\ signalled \subseteq Receivers
  /\ gone \subseteq Procs

\* Mutant of Init: the value of the second semaphore is never set.
InitWithoutLog ==
  /\ semval = [s \in Sems |-> IF s = "shm" THEN 1 ELSE 0]
  /\ sleepers = [s \in Sems |-> <<>>]
  /\ inside = [s \in Sems |-> {}]
  /\ signalled = {}
  /\ gone = {}

\* ipc_init sets both to 1 before the first fork.
Init ==
  /\ semval = [s \in Sems |-> 1]
  /\ sleepers = [s \in Sems |-> <<>>]
  /\ inside = [s \in Sems |-> {}]
  /\ signalled = {}
  /\ gone = {}

\* A queue without process p, which stands in it once.
Dropped(queue, p) ==
  LET i == CHOOSE k \in 1 .. Len(queue) : queue[k] = p
  IN  [k \in 1 .. (Len(queue) - 1) |-> IF k < i THEN queue[k] ELSE queue[k + 1]]

-----------------------------------------------------------------------------
\* semop -1, by anyone: a passenger writes to the log when it is rejected.
Down(s, p) ==
  /\ Running(p)
  /\ \/ /\ semval[s] > 0
        /\ semval' = [semval EXCEPT ![s] = @ - 1]
        /\ inside' = [inside EXCEPT ![s] = @ \cup {p}]
        /\ UNCHANGED sleepers
     \/ /\ semval[s] = 0
        /\ sleepers' = [sleepers EXCEPT ![s] = Append(@, p)]
        /\ UNCHANGED <<semval, inside>>
  /\ UNCHANGED <<signalled, gone>>

\* semop +1.  The kernel completes the semop of the first sleeper on the spot.
Up(s, p) ==
  /\ p \in inside[s]
  /\ \/ /\ sleepers[s] = <<>>
        /\ semval' = [semval EXCEPT ![s] = @ + 1]
        /\ inside' = [inside EXCEPT ![s] = @ \ {p}]
        /\ UNCHANGED sleepers
     \/ /\ sleepers[s] # <<>>
        /\ sleepers' = [sleepers EXCEPT ![s] = Tail(@)]
        /\ inside' = [inside EXCEPT ![s] = (@ \ {p}) \cup {Head(sleepers[s])}]
        /\ UNCHANGED semval
  /\ UNCHANGED <<signalled, gone>>

\* Mutant of Interrupted: the caller carries on with either semaphore.
InterruptedCarriesOn(s, p) ==
  /\ p \in Asleep(s)
  /\ sleepers' = [sleepers EXCEPT ![s] = Dropped(@, p)]
  /\ inside' = [inside EXCEPT ![s] = @ \cup {p}]
  /\ UNCHANGED <<gone, semval>>

\* semop -1 of p returns EINTR: ipc_lock and lock_mutex exit, logger_lock
\* reports the error and returns, and the caller writes to the log.
Interrupted(s, p) ==
  /\ p \in Asleep(s)
  /\ sleepers' = [sleepers EXCEPT ![s] = Dropped(@, p)]
  /\ IF s = "shm"
     THEN gone' = gone \cup {p} /\ UNCHANGED inside
     ELSE inside' = [inside EXCEPT ![s] = @ \cup {p}] /\ UNCHANGED gone
  /\ UNCHANGED semval

\* Mutant of Kill: the pid is not compared with 0, and kill(0) reaches the group.
KillGroup(p) ==
  /\ Captain \in inside["shm"]
  /\ p \in Procs \ signalled
  /\ signalled' = signalled \cup {p}
  /\ \/ \E s \in Sems : Interrupted(s, p)
     \/ /\ \A s \in Sems : p \notin Asleep(s)
        /\ UNCHANGED <<semval, sleepers, inside, gone>>

\* One kill() of ipc_send_signal_to_ferries or ipc_send_signal_to_passengers,
\* inside the section of the captain.  A ferry gets SIGUSR1 and a passenger
\* SIGUSR2, each once; a process that does not sleep only sets its flag.
Kill(p) ==
  /\ Captain \in inside["shm"]
  /\ p \in Receivers \ signalled
  /\ signalled' = signalled \cup {p}
  /\ \/ \E s \in Sems : Interrupted(s, p)
     \/ /\ \A s \in Sems : p \notin Asleep(s)
        /\ UNCHANGED <<semval, sleepers, inside, gone>>

\* Mutant of End: an early return from a section, without ipc_unlock.
EndInside(p) ==
  /\ p \notin gone /\ \A s \in Sems : p \notin Asleep(s)
  /\ gone' = gone \cup {p}
  /\ inside' = [s \in Sems |-> inside[s] \ {p}]
  /\ UNCHANGED <<semval, sleepers, signalled>>

\* A process ends only between two sections.
End(p) ==
  /\ Running(p)
  /\ gone' = gone \cup {p}
  /\ UNCHANGED <<semval, sleepers, inside, signalled>>

Next ==
  \E p \in Procs : (\E s \in Sems : Down(s, p) \/ Up(s, p)) \/ Kill(p) \/ End(p)

\* The sections are straight code without blocking calls.
Spec == Init /\ [][Next]_vars
FairSpec == Spec /\ \A p \in Procs, s \in Sems : WF_vars(Up(s, p))

-----------------------------------------------------------------------------
\* The critical sections of shared memory exclude each other, whoever is
\* interrupted while it waits: the reason why the other modules treat an ipc_
\* call as one step.
ShmExclusive == \A p, q \in inside["shm"] : p = q

\* A process sleeps only while somebody is there to wake it, on the log too,
\* whose value no longer counts anything after an interrupt.
NobodySleepsInVain ==
  \A s \in Sems : sleepers[s] # <<>> => semval[s] = 0 /\ inside[s] # {}

\* For the invariant: a sleeper is one process in one place.
SleepersApart ==
  \A s \in Sems :
    /\ Asleep(s) \cap gone = {}
    /\ \A t \in Sems : Asleep(s) \cap inside[t] = {} /\ (s # t => Asleep(s) \cap Asleep(t) = {})
    /\ \A j, k \in 1 .. Len(sleepers[s]) : sleepers[s][j] = sleepers[s][k] => j = k

\* The value of SEM_SHM_MUTEX, which nobody overtakes, tells whether a section
\* is open; the value of SEM_LOG_MUTEX only forbids that all are shut out.
SemvalCounts ==
  /\ semval["shm"] \in {0, 1}
  /\ semval["shm"] = 0 <=> inside["shm"] # {}
  /\ semval["log"] = 0 => inside["log"] # {}

\* The inductive invariant.
IInv == TypeOK /\ ShmExclusive /\ NobodySleepsInVain /\ SleepersApart /\ SemvalCounts

\* No caller of ipc_lock or log_message waits for ever.
SleepersServed ==
  \A p \in Procs, s \in Sems : (p \in Asleep(s)) ~> (p \notin Asleep(s))

-----------------------------------------------------------------------------
\* config.h:15, "Mutex dla dostepu do pliku logu": one process at a time writes
\* to the log file.
LogExclusive == \A p, q \in inside["log"] : p = q
=============================================================================
