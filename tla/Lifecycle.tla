----------------------------- MODULE Lifecycle -----------------------------
(***************************************************************************)
(* The life of the shared memory segment and of the set of semaphores:     *)
(* ipc_init, ipc_attach and ipc_cleanup of ipc.c, logger_init, and main.c  *)
(* from its start to its end.                                              *)
(*                                                                         *)
(* The program may be started again at any time, so there are several      *)
(* launchers.  They share nothing but the two fixed keys of config.h.  A   *)
(* system call is one step, and each may fail.  A launcher may be killed   *)
(* between two of them, as may a child; nobody removes anything then, and  *)
(* a mutex that the dead process held stays taken: semop has no SEM_UNDO.  *)
(*                                                                         *)
(* What the children do once they are attached is left to Boarding.tla and *)
(* SecurityControl.tla: here a child runs and ends.  Its two mutexes are   *)
(* not told apart.                                                         *)
(***************************************************************************)
EXTENDS Naturals

CONSTANTS
  Launchers,                 \* the runs of main.c, one object of each kind for each
  NoLauncher,                \* nothing under a key; the id -1
  LAST_CHILD                 \* captain is child 0, ferries and passengers follow

Children == Launchers \X (0 .. LAST_CHILD)
ChildrenOf(l) == {l} \X (0 .. LAST_CHILD)

\* Launchers and children are different processes.
ASSUME LifecycleAssumption ==
  /\ NoLauncher \notin Launchers
  /\ LAST_CHILD \in Nat
  /\ Launchers \cap Children = {}

VARIABLES
  shm_key, sem_key,          \* the launcher whose object is found under SHM_KEY, SEM_KEY
  initialised,               \* launchers whose segment is filled in
  semaphores_set,            \* launcher -> semaphores of its set that were given a value
  lost,                      \* sets with a mutex whose holder was killed in its section
  refused,                   \* what the kernel refused to remove, as <<launcher, kind>>
  shm_id, sem_id, log_sem_id, \* what each process holds, as the launcher that made it
  pc,                        \* launcher
  cpc,                       \* child
  next_child                 \* launcher -> the loop variable of its forks

damage == <<lost, refused>>
kernel == <<shm_key, sem_key, initialised, semaphores_set, damage>>
ids == <<shm_id, sem_id, log_sem_id>>
vars == <<kernel, ids, pc, cpc, next_child>>

LauncherPcs ==
  {"shmget", "shmat", "semget", "semctl", "logger", "fork", "wait",
   "undo_sem", "undo_shm", "cleanup_shm", "cleanup_sem", "ended", "killed"}
LivingPcs == {"logger", "attach_shm", "attach_sem", "running"}

TypeOK ==
  LET ObjectIds == Launchers \cup {NoLauncher} IN
  /\ shm_key \in ObjectIds /\ sem_key \in ObjectIds
  /\ initialised \subseteq Launchers
  /\ semaphores_set \in [Launchers -> 0 .. 2]
  /\ lost \subseteq Launchers
  /\ refused \subseteq Launchers \X {"shm", "sem"}
  /\ shm_id \in [Launchers \cup Children -> ObjectIds]
  /\ sem_id \in [Launchers \cup Children -> ObjectIds]
  /\ log_sem_id \in [Children -> ObjectIds]
  /\ pc \in [Launchers -> LauncherPcs]
  /\ cpc \in [Children -> LivingPcs \cup {"unborn", "ended"}]
  /\ next_child \in [Launchers -> 0 .. (LAST_CHILD + 1)]

Init ==
  /\ shm_key = NoLauncher /\ sem_key = NoLauncher
  /\ initialised = {}
  /\ semaphores_set = [l \in Launchers |-> 0]
  /\ lost = {} /\ refused = {}
  /\ shm_id = [x \in Launchers \cup Children |-> NoLauncher]
  /\ sem_id = [x \in Launchers \cup Children |-> NoLauncher]
  /\ log_sem_id = [c \in Children |-> NoLauncher]
  /\ pc = [l \in Launchers |-> "shmget"]
  /\ cpc = [c \in Children |-> "unborn"]
  /\ next_child = [l \in Launchers |-> 0]

-----------------------------------------------------------------------------
(* ipc_init. *)

Goto(l, to) == pc' = [pc EXCEPT ![l] = to]

\* Mutant of Shmget: without IPC_EXCL a segment that is there will do.
ShmgetExisting(l) ==
  /\ pc[l] = "shmget"
  /\ shm_key' = IF shm_key = NoLauncher THEN l ELSE shm_key
  /\ shm_id' = [shm_id EXCEPT ![l] = shm_key']
  /\ Goto(l, "shmat")
  /\ UNCHANGED <<sem_key, initialised, semaphores_set, damage, sem_id, log_sem_id, cpc, next_child>>

\* IPC_CREAT | IPC_EXCL: refused while a segment has the key, or by a limit.
Shmget(l) ==
  /\ pc[l] = "shmget"
  /\ \/ /\ shm_key = NoLauncher
        /\ shm_key' = l
        /\ shm_id' = [shm_id EXCEPT ![l] = l]
        /\ Goto(l, "shmat")
     \/ Goto(l, "ended") /\ UNCHANGED <<shm_key, shm_id>>
  /\ UNCHANGED <<sem_key, initialised, semaphores_set, damage, sem_id, log_sem_id, cpc, next_child>>

\* The segment is attached, zeroed and filled in.
FillSegment(l) ==
  /\ pc[l] = "shmat"
  /\ \/ initialised' = initialised \cup {shm_id[l]} /\ Goto(l, "semget")
     \/ Goto(l, "undo_shm") /\ UNCHANGED initialised
  /\ UNCHANGED <<shm_key, sem_key, semaphores_set, damage, ids, cpc, next_child>>

\* Mutant of Semget: without IPC_EXCL a set that is there will do, and is set anew.
SemgetExisting(l) ==
  /\ pc[l] = "semget"
  /\ sem_key' = IF sem_key = NoLauncher THEN l ELSE sem_key
  /\ sem_id' = [sem_id EXCEPT ![l] = sem_key']
  /\ semaphores_set' = [semaphores_set EXCEPT ![sem_key'] = 0]
  /\ Goto(l, "semctl")
  /\ UNCHANGED <<shm_key, initialised, damage, shm_id, log_sem_id, cpc, next_child>>

\* Mutant of Semget: the segment stays when there are no semaphores.
SemgetOrGiveUp(l) ==
  /\ pc[l] = "semget"
  /\ \/ /\ sem_key = NoLauncher
        /\ sem_key' = l
        /\ sem_id' = [sem_id EXCEPT ![l] = l]
        /\ Goto(l, "semctl")
     \/ Goto(l, "ended") /\ UNCHANGED <<sem_key, sem_id>>
  /\ UNCHANGED <<shm_key, initialised, semaphores_set, damage, shm_id, log_sem_id, cpc, next_child>>

Semget(l) ==
  /\ pc[l] = "semget"
  /\ \/ /\ sem_key = NoLauncher
        /\ sem_key' = l
        /\ sem_id' = [sem_id EXCEPT ![l] = l]
        /\ Goto(l, "semctl")
     \/ Goto(l, "undo_shm") /\ UNCHANGED <<sem_key, sem_id>>
  /\ UNCHANGED <<shm_key, initialised, semaphores_set, damage, shm_id, log_sem_id, cpc, next_child>>

\* Mutant of Semctl: the log has a semaphore, and nobody sets it.
SemctlShmOnly(l) ==
  /\ pc[l] = "semctl"
  /\ semaphores_set' = [semaphores_set EXCEPT ![sem_id[l]] = 1]
  /\ Goto(l, "logger")
  /\ UNCHANGED <<shm_key, sem_key, initialised, damage, ids, cpc, next_child>>

\* SETVAL of SEM_SHM_MUTEX, then of SEM_LOG_MUTEX.
Semctl(l) ==
  /\ pc[l] = "semctl"
  /\ \/ /\ semaphores_set' = [semaphores_set EXCEPT ![sem_id[l]] = @ + 1]
        /\ Goto(l, IF semaphores_set'[sem_id[l]] = 2 THEN "logger" ELSE "semctl")
     \/ Goto(l, "undo_sem") /\ UNCHANGED semaphores_set
  /\ UNCHANGED <<shm_key, sem_key, initialised, damage, ids, cpc, next_child>>

\* shmctl and semctl with IPC_RMID: the key is free at once, or they fail.
RemoveSegment(l) ==
  \/ /\ shm_key' = IF shm_key = shm_id[l] THEN NoLauncher ELSE shm_key
     /\ UNCHANGED refused
  \/ refused' = refused \cup {<<l, "shm">>} /\ UNCHANGED shm_key
RemoveSemaphores(l) ==
  \/ /\ sem_key' = IF sem_key = sem_id[l] THEN NoLauncher ELSE sem_key
     /\ UNCHANGED refused
  \/ refused' = refused \cup {<<l, "sem">>} /\ UNCHANGED sem_key

\* The error paths of ipc_init, the semaphores first; a removal that fails is
\* passed over.
Undo(l) ==
  /\ \/ /\ pc[l] = "undo_sem"
        /\ RemoveSemaphores(l)
        /\ Goto(l, "undo_shm")
        /\ UNCHANGED shm_key
     \/ /\ pc[l] = "undo_shm"
        /\ RemoveSegment(l)
        /\ Goto(l, "ended")
        /\ UNCHANGED sem_key
  /\ UNCHANGED <<initialised, semaphores_set, lost, ids, cpc, next_child>>

-----------------------------------------------------------------------------
(* main.c. *)

\* logger_init, which fails for want of the log file.
InitLogger(l) ==
  /\ pc[l] = "logger"
  /\ Goto(l, "fork") \/ Goto(l, "cleanup_shm")
  /\ UNCHANGED <<kernel, ids, cpc, next_child>>

\* Mutant of Fork: one child too many.
ForkOnceMore(l) ==
  /\ pc[l] = "fork"
  /\ cpc' = [cpc EXCEPT ![<<l, next_child[l]>>] = "logger"]
  /\ next_child' = [next_child EXCEPT ![l] = @ + 1]
  /\ Goto(l, IF next_child[l] > LAST_CHILD THEN "wait" ELSE "fork")
  /\ UNCHANGED <<kernel, ids>>

\* Without a captain the launcher cleans up; any other failed fork is skipped.
Fork(l) ==
  LET i == next_child[l] IN
  /\ pc[l] = "fork"
  /\ \/ /\ i = 0
        /\ Goto(l, "cleanup_shm")
        /\ UNCHANGED <<cpc, next_child>>
     \/ /\ \/ cpc' = [cpc EXCEPT ![<<l, i>>] = "logger"]
           \/ i > 0 /\ UNCHANGED cpc
        /\ next_child' = [next_child EXCEPT ![l] = i + 1]
        /\ Goto(l, IF i = LAST_CHILD THEN "wait" ELSE "fork")
  /\ UNCHANGED <<kernel, ids>>

\* Mutant of WaitForChildren: the captain is not waited for.
WaitForOthers(l) ==
  /\ pc[l] = "wait"
  /\ \A c \in ChildrenOf(l) \ {<<l, 0>>} : cpc[c] \notin LivingPcs
  /\ Goto(l, "cleanup_shm")
  /\ UNCHANGED <<kernel, ids, cpc, next_child>>

\* waitpid on every passenger, every ferry and the captain that was forked.
WaitForChildren(l) ==
  /\ pc[l] = "wait"
  /\ \A c \in ChildrenOf(l) : cpc[c] \notin LivingPcs
  /\ Goto(l, "cleanup_shm")
  /\ UNCHANGED <<kernel, ids, cpc, next_child>>

\* Mutant of Cleanup: the first removal that fails is the end of it.
CleanupStopsAtError(l) ==
  /\ \/ /\ pc[l] = "cleanup_shm"
        /\ RemoveSegment(l)
        /\ Goto(l, IF refused' = refused THEN "cleanup_sem" ELSE "ended")
        /\ UNCHANGED sem_key
     \/ /\ pc[l] = "cleanup_sem"
        /\ RemoveSemaphores(l)
        /\ Goto(l, "ended")
        /\ UNCHANGED shm_key
  /\ UNCHANGED <<initialised, semaphores_set, lost, ids, cpc, next_child>>

\* ipc_cleanup, the segment first; the set is tried whatever came of the segment.
Cleanup(l) ==
  /\ \/ /\ pc[l] = "cleanup_shm"
        /\ RemoveSegment(l)
        /\ Goto(l, "cleanup_sem")
        /\ UNCHANGED sem_key
     \/ /\ pc[l] = "cleanup_sem"
        /\ RemoveSemaphores(l)
        /\ Goto(l, "ended")
        /\ UNCHANGED shm_key
  /\ UNCHANGED <<initialised, semaphores_set, lost, ids, cpc, next_child>>

Launcher(l) ==
  \/ Shmget(l)      \/ FillSegment(l)  \/ Semget(l)           \/ Semctl(l)
  \/ Undo(l)        \/ InitLogger(l)   \/ Fork(l)
  \/ WaitForChildren(l)                \/ Cleanup(l)

-----------------------------------------------------------------------------
(* A child: captain.c, ferry.c and passenger.c up to ipc_attach. *)

ChildGoto(c, to) == cpc' = [cpc EXCEPT ![c] = to]

\* A logger without semaphores goes on without them.
InitChildLogger(c) ==
  /\ cpc[c] = "logger"
  /\ log_sem_id' = [log_sem_id EXCEPT ![c] = sem_key]
  /\ ChildGoto(c, "attach_shm")
  /\ UNCHANGED <<kernel, shm_id, sem_id, pc, next_child>>

\* A child that does not find the segment or the semaphores, cannot attach the
\* segment or was not even executed, ends.
Attach(c) ==
  /\ \/ /\ cpc[c] = "attach_shm"
        /\ shm_key # NoLauncher
        /\ shm_id' = [shm_id EXCEPT ![c] = shm_key]
        /\ ChildGoto(c, "attach_sem")
        /\ UNCHANGED sem_id
     \/ /\ cpc[c] = "attach_sem"
        /\ sem_key # NoLauncher
        /\ sem_id' = [sem_id EXCEPT ![c] = sem_key]
        /\ ChildGoto(c, "running")
        /\ UNCHANGED shm_id
     \/ /\ cpc[c] \in {"attach_shm", "attach_sem"}
        /\ ChildGoto(c, "ended")
        /\ UNCHANGED <<shm_id, sem_id>>
  /\ UNCHANGED <<kernel, log_sem_id, pc, next_child>>

\* A child takes both mutexes many times before it ends.  One that was never set
\* lets nobody through; one that was removed makes semop fail.  Where a mutex is
\* lost, a child ends only if it is past its last section on it.
EndChild(c) ==
  /\ cpc[c] = "running"
  /\ semaphores_set[sem_id[c]] = 2 \/ sem_key # sem_id[c]
  /\ ChildGoto(c, "ended")
  /\ UNCHANGED <<kernel, ids, pc, next_child>>

Child(c) == InitChildLogger(c) \/ Attach(c) \/ EndChild(c)

-----------------------------------------------------------------------------
(* Any process may be killed from outside. *)

\* Main logs while it forks and waits, and takes SEM_SHM_MUTEX between the waits.
KillLauncher(l) ==
  /\ pc[l] \notin {"ended", "killed"}
  /\ Goto(l, "killed")
  /\ \/ UNCHANGED lost
     \/ pc[l] \in {"fork", "wait"} /\ lost' = lost \cup {sem_id[l]}
  /\ UNCHANGED <<shm_key, sem_key, initialised, semaphores_set, refused, ids, cpc, next_child>>

\* An attached child may be inside a section.
KillChild(c) ==
  /\ cpc[c] \in LivingPcs
  /\ ChildGoto(c, "ended")
  /\ \/ UNCHANGED lost
     \/ cpc[c] = "running" /\ lost' = lost \cup {sem_id[c]}
  /\ UNCHANGED <<shm_key, sem_key, initialised, semaphores_set, refused, ids, pc, next_child>>

Next ==
  \/ \E l \in Launchers : Launcher(l) \/ KillLauncher(l)
  \/ \E c \in Children : Child(c) \/ KillChild(c)

Spec == Init /\ [][Next]_vars

\* Nobody waits for ever for a mutex of l: it was not lost.
Passable(l) == l \notin lost

\* System calls return, and children end when nothing holds them (EverybodyEnds
\* of Boarding.tla).  Who needs a lost mutex may never get on: the children, and
\* main where it logs or raises its flag.  Nobody has to be killed.
FairSpec ==
  /\ Spec
  /\ \A l \in Launchers :
       WF_vars((pc[l] \in {"fork", "wait"} => Passable(l)) /\ Launcher(l))
  /\ \A c \in Children :
       /\ WF_vars(InitChildLogger(c) \/ Attach(c))
       /\ WF_vars(Passable(c[1]) /\ EndChild(c))

-----------------------------------------------------------------------------
(* Safety. *)

\* A child that attached works on the segment and the semaphores of the launcher
\* that forked it, both completely initialised, and logs under the same set,
\* although all launchers use the same keys and children look them up late.
ChildrenOnOwnPort ==
  \A l \in Launchers : \A c \in ChildrenOf(l) : cpc[c] = "running" =>
    /\ shm_id[c] = l /\ sem_id[c] = l /\ log_sem_id[c] = l
    /\ l \in initialised /\ semaphores_set[l] = 2

\* While a child lives, attached or not yet, the objects of its launcher are under
\* their keys: no launcher's end, no failed start and no start during somebody
\* else's cleanup removes them.
NothingRemovedInUse ==
  \A l \in Launchers : \A c \in ChildrenOf(l) :
    cpc[c] \in LivingPcs => shm_key = l /\ sem_key = l

\* While children of a launcher live, also those of one that was killed, no other
\* launcher gets hold of their segment, to fill it in again, or of their
\* semaphores, to set them.
NoTakeover ==
  \A l, m \in Launchers : \A c \in ChildrenOf(l) :
    l # m /\ cpc[c] \in LivingPcs => shm_id[m] # l /\ sem_id[m] # l

\* A launcher that comes to its end, whatever failed on the way, leaves nothing
\* behind but what the kernel refused to remove: a refused segment does not keep
\* the semaphores from being removed, nor the other way round.
NothingLeftBehind ==
  \A l \in Launchers : pc[l] = "ended" =>
    /\ shm_key = l => <<l, "shm">> \in refused
    /\ sem_key = l => <<l, "sem">> \in refused

\* Which object a launcher has at which point of main.c and ipc.c: it knows only
\* what it made, finds it under its key until it removes it, and has filled it in
\* before it forks.
PrivatePcs == {"shmget", "shmat", "semget", "semctl", "logger"}
LaunchersOwn ==
  \A l \in Launchers :
    /\ shm_id[l] \in {l, NoLauncher} /\ sem_id[l] \in {l, NoLauncher}
    /\ pc[l] \in LauncherPcs \ {"shmget", "cleanup_sem", "ended", "killed"} =>
         shm_key = l /\ shm_id[l] = l
    /\ pc[l] = "shmget" => shm_key # l
    /\ pc[l] \in {"cleanup_sem", "ended"} /\ shm_key = l => <<l, "shm">> \in refused
    /\ pc[l] \in {"semctl", "logger", "fork", "wait", "undo_sem", "cleanup_shm", "cleanup_sem"} =>
         sem_key = l /\ sem_id[l] = l
    /\ pc[l] \in {"shmget", "shmat", "semget"} => sem_key # l
    /\ pc[l] \in {"undo_shm", "ended"} /\ sem_key = l => <<l, "sem">> \in refused
    /\ pc[l] \in {"semget", "semctl", "logger", "fork"} => l \in initialised
    /\ pc[l] \in {"shmget", "shmat", "semget"} => semaphores_set[l] = 0
    /\ pc[l] = "semctl" => semaphores_set[l] < 2
    /\ pc[l] \in {"logger", "fork"} => semaphores_set[l] = 2
    /\ pc[l] \in PrivatePcs => next_child[l] = 0
    /\ pc[l] = "fork" => next_child[l] <= LAST_CHILD

\* A child lives only while its launcher forks, waits or is dead, and has learnt
\* about its launcher's objects what it looked up so far.
ChildrenBelong ==
  \A c \in Children : LET l == c[1] IN
    /\ pc[l] \in PrivatePcs \/ (pc[l] = "fork" /\ next_child[l] <= c[2]) => cpc[c] = "unborn"
    /\ cpc[c] \in LivingPcs =>
         /\ pc[l] \in {"fork", "wait", "killed"}
         /\ shm_key = l /\ sem_key = l
         /\ l \in initialised /\ semaphores_set[l] = 2
    /\ cpc[c] \in {"attach_shm", "attach_sem", "running"} => log_sem_id[c] = l
    /\ cpc[c] \in {"attach_sem", "running"} => shm_id[c] = l
    /\ cpc[c] = "running" => sem_id[c] = l

\* The inductive invariant.
IInv == TypeOK /\ LaunchersOwn /\ ChildrenBelong

-----------------------------------------------------------------------------
(* Liveness. *)

\* However starts overlap, forks and removals fail and children are killed, a
\* launcher that is not killed comes to its end, unless a process of its own was
\* killed inside a section: then its children, and main itself, may wait for the
\* lost mutex for ever.
EveryStartEnds ==
  \A l \in Launchers :
    <>[](pc[l] \in {"ended", "killed"} \/ (pc[l] \in {"fork", "wait"} /\ ~Passable(l)))
=============================================================================
