-------------------------- MODULE LifecycleProofs --------------------------
(***************************************************************************)
(* Any number of launchers with any number of children keep apart: the     *)
(* invariant of Lifecycle.tla is inductive, and what it says about the     *)
(* keys, the ids and the leftovers follows.                                *)
(***************************************************************************)
EXTENDS Lifecycle, TLAPS

\* The part of the invariant about one launcher, and about one child.
LauncherOwns(l) ==
  /\ shm_id[l] \in {l, NoLauncher} /\ sem_id[l] \in {l, NoLauncher}
  /\ pc[l] \in LauncherPcs \ {"shmget", "cleanup_sem", "ended", "killed"} =>
       shm_key = l /\ shm_id[l] = l
  /\ pc[l] = "shmget" => shm_key # l
  /\ pc[l] \in {"cleanup_sem", "ended"} /\ shm_key = l => <<l, "shm">> \in refused
  /\ pc[l] \in {"semctl", "logger", "fork", "wait", "undo_sem", "cleanup_shm", "cleanup_sem"} =>
       sem_key = l /\ sem_id[l] = l
  /\ pc[l] \in {"shmget", "shmat", "semget"} => sem_key # l
  /\ pc[l] \in {"undo_shm", "ended"} /\ sem_key = l => <<l, "sem">> \in refused
  /\ pc[l] \in {"semget", "semctl", "logger", "fork"} => l \in initialised
  /\ pc[l] \in {"shmget", "shmat", "semget"} => semaphores_set[l] = 0
  /\ pc[l] = "semctl" => semaphores_set[l] < 2
  /\ pc[l] \in {"logger", "fork"} => semaphores_set[l] = 2
  /\ pc[l] \in PrivatePcs => next_child[l] = 0
  /\ pc[l] = "fork" => next_child[l] <= LAST_CHILD

ChildBelongs(c, l) ==
  /\ pc[l] \in PrivatePcs \/ (pc[l] = "fork" /\ next_child[l] <= c[2]) => cpc[c] = "unborn"
  /\ cpc[c] \in LivingPcs =>
       /\ pc[l] \in {"fork", "wait", "killed"}
       /\ shm_key = l /\ sem_key = l
       /\ l \in initialised /\ semaphores_set[l] = 2
  /\ cpc[c] \in {"attach_shm", "attach_sem", "running"} => log_sem_id[c] = l
  /\ cpc[c] \in {"attach_sem", "running"} => shm_id[c] = l
  /\ cpc[c] = "running" => sem_id[c] = l

LEMMA Parts ==
  /\ LaunchersOwn <=> \A l \in Launchers : LauncherOwns(l)
  /\ ChildrenBelong <=> \A c \in Children : ChildBelongs(c, c[1])
  BY DEF LaunchersOwn, LauncherOwns, ChildrenBelong, ChildBelongs

\* A child is a pair of its launcher and a number.
LEMMA ChildIsPair ==
  /\ \A c \in Children : c[1] \in Launchers /\ c[2] \in 0 .. LAST_CHILD /\ c = <<c[1], c[2]>>
  /\ \A l \in Launchers, i \in 0 .. LAST_CHILD : <<l, i>> \in Children
  /\ \A l \in Launchers : \A c : c \in ChildrenOf(l) <=> c \in Children /\ c[1] = l
  BY DEF Children, ChildrenOf

\* A launcher is no child and not nobody.
LEMMA Apart ==
  /\ \A l \in Launchers : l # NoLauncher /\ l \notin Children
  BY LifecycleAssumption

LEMMA TypeInit == Init => TypeOK
  BY LifecycleAssumption DEF Init, TypeOK, LauncherPcs, LivingPcs

LEMMA InitIInv == Init => IInv
<1> SUFFICES ASSUME Init PROVE IInv
  OBVIOUS
<1>1. TypeOK
  BY TypeInit
<1>2. \A l \in Launchers : LauncherOwns(l)
  BY Apart, LifecycleAssumption DEF Init, LauncherOwns, LauncherPcs, PrivatePcs
<1>3. \A c \in Children : ChildBelongs(c, c[1])
  BY ChildIsPair DEF Init, ChildBelongs, LivingPcs, PrivatePcs
<1> QED
  BY <1>1, <1>2, <1>3, Parts DEF IInv

-----------------------------------------------------------------------------
(* Steps of a launcher. *)

LEMMA LauncherType ==
  ASSUME NEW l \in Launchers, IInv, Launcher(l) \/ KillLauncher(l)
  PROVE  TypeOK'
<1> USE LifecycleAssumption, Apart DEF TypeOK, kernel, damage, ids, Goto, LauncherPcs, LivingPcs
<1>0. TypeOK /\ LauncherOwns(l)
  BY Parts DEF IInv
<1>1. CASE Shmget(l)
  BY <1>0, <1>1 DEF Shmget
<1>2. CASE FillSegment(l)
  BY <1>0, <1>2 DEF FillSegment, LauncherOwns
<1>3. CASE Semget(l)
  BY <1>0, <1>3 DEF Semget
<1>4. CASE Semctl(l)
  BY <1>0, <1>4 DEF Semctl, LauncherOwns
<1>5. CASE Undo(l)
  BY <1>0, <1>5 DEF Undo, RemoveSegment, RemoveSemaphores
<1>6. CASE InitLogger(l)
  BY <1>0, <1>6 DEF InitLogger
<1>7. CASE Fork(l)
  <2>1. next_child[l] \in 0 .. LAST_CHILD
    BY <1>0, <1>7 DEF Fork, LauncherOwns
  <2>2. pc' \in [Launchers -> LauncherPcs]
    BY <1>0, <1>7 DEF Fork
  <2>3. next_child' \in [Launchers -> 0 .. (LAST_CHILD + 1)]
    BY <1>0, <1>7, <2>1 DEF Fork
  <2>4. cpc' \in [Children -> LivingPcs \cup {"unborn", "ended"}]
    BY <1>0, <1>7 DEF Fork
  <2> QED
    BY <1>0, <1>7, <2>2, <2>3, <2>4 DEF Fork
<1>8. CASE WaitForChildren(l)
  BY <1>0, <1>8 DEF WaitForChildren
<1>9. CASE Cleanup(l)
  BY <1>0, <1>9 DEF Cleanup, RemoveSegment, RemoveSemaphores
<1>10. CASE KillLauncher(l)
  BY <1>0, <1>10 DEF KillLauncher, LauncherOwns
<1> QED
  BY <1>1, <1>2, <1>3, <1>4, <1>5, <1>6, <1>7, <1>8, <1>9, <1>10 DEF Launcher

\* What a step of launcher l leaves alone: the ids and the places of all others,
\* their objects, and their keys.
Untouched(l) ==
  /\ \A m \in Launchers \ {l} :
       /\ pc'[m] = pc[m] /\ shm_id'[m] = shm_id[m] /\ sem_id'[m] = sem_id[m]
       /\ next_child'[m] = next_child[m] /\ semaphores_set'[m] = semaphores_set[m]
       /\ m \in initialised' <=> m \in initialised
       /\ shm_key' = m <=> shm_key = m
       /\ sem_key' = m <=> sem_key = m
  /\ refused \subseteq refused'
  /\ \A c \in Children :
       /\ shm_id'[c] = shm_id[c] /\ sem_id'[c] = sem_id[c] /\ log_sem_id'[c] = log_sem_id[c]
       /\ c[1] # l => cpc'[c] = cpc[c]

LEMMA OthersUntouched ==
  ASSUME NEW l \in Launchers, IInv, Launcher(l) \/ KillLauncher(l)
  PROVE  Untouched(l)
<1> USE LifecycleAssumption, Apart DEF TypeOK, kernel, damage, ids, Goto, Untouched
<1>0. TypeOK /\ LauncherOwns(l)
  BY Parts DEF IInv
<1>1. CASE Shmget(l)
  BY <1>0, <1>1 DEF Shmget
<1>2. CASE FillSegment(l)
  BY <1>0, <1>2 DEF FillSegment, LauncherOwns, LauncherPcs
<1>3. CASE Semget(l)
  BY <1>0, <1>3 DEF Semget
<1>4. CASE Semctl(l)
  BY <1>0, <1>4 DEF Semctl, LauncherOwns
<1>5. CASE Undo(l)
  BY <1>0, <1>5 DEF Undo, RemoveSegment, RemoveSemaphores, LauncherOwns, LauncherPcs
<1>6. CASE InitLogger(l)
  BY <1>0, <1>6 DEF InitLogger
<1>7. CASE Fork(l)
  BY <1>0, <1>7, ChildIsPair DEF Fork, LauncherOwns
<1>8. CASE WaitForChildren(l)
  BY <1>0, <1>8 DEF WaitForChildren
<1>9. CASE Cleanup(l)
  BY <1>0, <1>9 DEF Cleanup, RemoveSegment, RemoveSemaphores, LauncherOwns, LauncherPcs
<1>10. CASE KillLauncher(l)
  BY <1>0, <1>10 DEF KillLauncher
<1> QED
  BY <1>1, <1>2, <1>3, <1>4, <1>5, <1>6, <1>7, <1>8, <1>9, <1>10 DEF Launcher

LEMMA LauncherOwnStep ==
  ASSUME NEW l \in Launchers, IInv, Launcher(l) \/ KillLauncher(l)
  PROVE  LauncherOwns(l)'
<1> USE LifecycleAssumption, Apart DEF TypeOK, kernel, damage, ids, Goto, LauncherPcs, PrivatePcs
<1>0. TypeOK /\ LauncherOwns(l)
  BY Parts DEF IInv
<1>1. CASE Shmget(l)
  BY <1>0, <1>1 DEF Shmget, LauncherOwns
<1>2. CASE FillSegment(l)
  BY <1>0, <1>2 DEF FillSegment, LauncherOwns
<1>3. CASE Semget(l)
  BY <1>0, <1>3 DEF Semget, LauncherOwns
<1>4. CASE Semctl(l)
  BY <1>0, <1>4 DEF Semctl, LauncherOwns
<1>5. CASE Undo(l)
  BY <1>0, <1>5 DEF Undo, RemoveSegment, RemoveSemaphores, LauncherOwns
<1>6. CASE InitLogger(l)
  BY <1>0, <1>6 DEF InitLogger, LauncherOwns
<1>7. CASE Fork(l)
  BY <1>0, <1>7 DEF Fork, LauncherOwns
<1>8. CASE WaitForChildren(l)
  BY <1>0, <1>8 DEF WaitForChildren, LauncherOwns
<1>9. CASE Cleanup(l)
  BY <1>0, <1>9 DEF Cleanup, RemoveSegment, RemoveSemaphores, LauncherOwns
<1>10. CASE KillLauncher(l)
  BY <1>0, <1>10 DEF KillLauncher, LauncherOwns
<1> QED
  BY <1>1, <1>2, <1>3, <1>4, <1>5, <1>6, <1>7, <1>8, <1>9, <1>10 DEF Launcher

\* The launcher's own children: it forks them one by one, and removes nothing
\* while one of them lives.
LEMMA OwnChildStep ==
  ASSUME NEW l \in Launchers, NEW c \in Children, c[1] = l, IInv,
         Launcher(l) \/ KillLauncher(l)
  PROVE  ChildBelongs(c, l)'
<1> USE LifecycleAssumption, Apart
    DEF TypeOK, kernel, damage, ids, Goto, LauncherPcs, LivingPcs, PrivatePcs, ChildBelongs
<1>0. TypeOK /\ LauncherOwns(l) /\ ChildBelongs(c, l)
  BY Parts DEF IInv
<1>a. c[2] \in 0 .. LAST_CHILD /\ c = <<l, c[2]>> /\ c \in ChildrenOf(l)
  BY ChildIsPair
<1>1. CASE Shmget(l)
  BY <1>0, <1>1, <1>a DEF Shmget, LauncherOwns
<1>2. CASE FillSegment(l)
  BY <1>0, <1>2, <1>a DEF FillSegment, LauncherOwns
<1>3. CASE Semget(l)
  BY <1>0, <1>3, <1>a DEF Semget, LauncherOwns
<1>4. CASE Semctl(l)
  BY <1>0, <1>4, <1>a DEF Semctl, LauncherOwns
<1>5. CASE Undo(l)
  BY <1>0, <1>5, <1>a DEF Undo, RemoveSegment, RemoveSemaphores, LauncherOwns
<1>6. CASE InitLogger(l)
  BY <1>0, <1>6, <1>a DEF InitLogger, LauncherOwns
<1>7. CASE Fork(l)
  <2>1. CASE c[2] = next_child[l]
    <3>1. next_child[l] \in 0 .. LAST_CHILD /\ c = <<l, next_child[l]>>
      BY <1>0, <1>7, <1>a, <2>1 DEF Fork, LauncherOwns
    <3>2. cpc[c] = "unborn"
      BY <1>0, <1>7, <2>1, <3>1 DEF Fork
    <3>3. cpc'[c] \in {"unborn", "logger"}
      BY <1>0, <1>7, <3>1, <3>2 DEF Fork
    <3>4. pc'[l] \in PrivatePcs \/ (pc'[l] = "fork" /\ next_child'[l] <= c[2]) => cpc'[c] = "unborn"
      BY <1>0, <1>7, <2>1, <3>1 DEF Fork
    <3>5. CASE next_child' = next_child
      BY <1>0, <1>7, <3>2, <3>5 DEF Fork, LauncherOwns
    <3>6. CASE pc'[l] \in {"fork", "wait"}
      <4>1. /\ shm_key' = l /\ sem_key' = l
            /\ l \in initialised' /\ semaphores_set'[l] = 2
        BY <1>0, <1>7 DEF Fork, LauncherOwns
      <4> QED
        BY <3>3, <3>4, <3>6, <4>1
    <3> QED
      BY <1>0, <1>7, <3>2, <3>3, <3>4, <3>5, <3>6 DEF Fork
  <2>2. CASE c[2] # next_child[l]
    <3>1. cpc'[c] = cpc[c]
      BY <1>0, <1>7, <1>a, <2>2, ChildIsPair DEF Fork
    <3> QED
      BY <1>0, <1>7, <1>a, <2>2, <3>1 DEF Fork, LauncherOwns
  <2> QED
    BY <2>1, <2>2
<1>8. CASE WaitForChildren(l)
  BY <1>0, <1>8, <1>a DEF WaitForChildren, LauncherOwns
<1>9. CASE Cleanup(l)
  BY <1>0, <1>9, <1>a DEF Cleanup, RemoveSegment, RemoveSemaphores, LauncherOwns
<1>10. CASE KillLauncher(l)
  BY <1>0, <1>10, <1>a DEF KillLauncher, LauncherOwns
<1> QED
  BY <1>1, <1>2, <1>3, <1>4, <1>5, <1>6, <1>7, <1>8, <1>9, <1>10 DEF Launcher

LEMMA LauncherStep ==
  ASSUME NEW l \in Launchers, IInv, Launcher(l) \/ KillLauncher(l)
  PROVE  IInv'
<1>0. Untouched(l) /\ LaunchersOwn /\ ChildrenBelong
  BY OthersUntouched DEF IInv
<1>1. TypeOK'
  BY LauncherType
<1>2. ASSUME NEW m \in Launchers PROVE LauncherOwns(m)'
  <2>1. CASE m = l
    BY <2>1, LauncherOwnStep
  <2>2. CASE m # l
    BY <1>0, <2>2, Parts DEF Untouched, LauncherOwns
  <2> QED
    BY <2>1, <2>2
<1>3. ASSUME NEW c \in Children PROVE ChildBelongs(c, c[1])'
  <2>1. CASE c[1] = l
    BY <2>1, OwnChildStep
  <2>2. CASE c[1] # l
    BY <1>0, <2>2, Parts, ChildIsPair DEF Untouched, ChildBelongs
  <2> QED
    BY <2>1, <2>2
<1>4. /\ LaunchersOwn' <=> \A m \in Launchers : LauncherOwns(m)'
      /\ ChildrenBelong' <=> \A c \in Children : ChildBelongs(c, c[1])'
  BY DEF LaunchersOwn, LauncherOwns, ChildrenBelong, ChildBelongs
<1> QED
  BY <1>1, <1>2, <1>3, <1>4 DEF IInv

-----------------------------------------------------------------------------
(* Steps of a child. *)

LEMMA ChildStep ==
  ASSUME NEW c \in Children, IInv, Child(c) \/ KillChild(c)
  PROVE  IInv'
<1> USE LifecycleAssumption, Apart, ChildIsPair DEF kernel, damage, ids, ChildGoto
<1>0. TypeOK /\ LaunchersOwn /\ ChildrenBelong
  BY DEF IInv
<1>1. TypeOK'
  <2> USE <1>0 DEF TypeOK, LivingPcs
  <2>1. CASE InitChildLogger(c)
    BY <2>1 DEF InitChildLogger
  <2>2. CASE Attach(c)
    <3>1. cpc' \in [Children -> LivingPcs \cup {"unborn", "ended"}]
      BY <2>2 DEF Attach
    <3>2. shm_id' \in [Launchers \cup Children -> Launchers \cup {NoLauncher}]
      BY <2>2 DEF Attach
    <3>3. sem_id' \in [Launchers \cup Children -> Launchers \cup {NoLauncher}]
      BY <2>2 DEF Attach
    <3> QED
      BY <2>2, <3>1, <3>2, <3>3 DEF Attach
  <2>3. CASE EndChild(c) \/ KillChild(c)
    <3>1. cpc[c] = "running" => sem_id[c] \in Launchers
      BY Parts DEF ChildBelongs
    <3> QED
      BY <2>3, <3>1 DEF EndChild, KillChild
  <2> QED
    BY <2>1, <2>2, <2>3 DEF Child
<1>2. ASSUME NEW m \in Launchers PROVE LauncherOwns(m)'
  BY <1>0, Parts
     DEF TypeOK, Child, InitChildLogger, Attach, EndChild, KillChild, LauncherOwns
<1>3. ASSUME NEW d \in Children PROVE ChildBelongs(d, d[1])'
  <2>0. ChildBelongs(d, d[1])
    BY <1>0, Parts
  <2>1. CASE InitChildLogger(c)
    BY <1>0, <2>0, <2>1 DEF TypeOK, InitChildLogger, ChildBelongs, LivingPcs
  <2>2. CASE Attach(c)
    BY <1>0, <2>0, <2>2 DEF TypeOK, Attach, ChildBelongs, LivingPcs
  <2>3. CASE EndChild(c)
    BY <1>0, <2>0, <2>3 DEF TypeOK, EndChild, ChildBelongs, LivingPcs
  <2>4. CASE KillChild(c)
    BY <1>0, <2>0, <2>4 DEF TypeOK, KillChild, ChildBelongs, LivingPcs
  <2> QED
    BY <2>1, <2>2, <2>3, <2>4 DEF Child
<1>4. /\ LaunchersOwn' <=> \A m \in Launchers : LauncherOwns(m)'
      /\ ChildrenBelong' <=> \A d \in Children : ChildBelongs(d, d[1])'
  BY DEF LaunchersOwn, LauncherOwns, ChildrenBelong, ChildBelongs
<1> QED
  BY <1>1, <1>2, <1>3, <1>4 DEF IInv

-----------------------------------------------------------------------------
(* The theorems. *)

\* The ids and keys that launchers and children have at each point of ipc.c and
\* main.c are those of their own run.
THEOREM Invariant == Spec => []IInv
<1>1. Init => IInv
  BY InitIInv
<1>2. IInv /\ [Next]_vars => IInv'
  <2> SUFFICES ASSUME IInv, [Next]_vars PROVE IInv'
    OBVIOUS
  <2>1. CASE Next
    BY <2>1, LauncherStep, ChildStep DEF Next
  <2>2. CASE UNCHANGED vars
    BY <2>2 DEF vars, kernel, damage, ids, IInv, TypeOK, LaunchersOwn, ChildrenBelong
  <2> QED
    BY <2>1, <2>2
<1> QED
  BY <1>1, <1>2, PTL DEF Spec

\* ipc.c and main.c: every variable keeps its type, whatever fails or is killed.
THEOREM TypeCorrect == Spec => []TypeOK
<1>1. IInv => TypeOK
  BY DEF IInv
<1> QED
  BY <1>1, Invariant, PTL

\* ipc_attach and logger_init of a child find what its own launcher initialised.
THEOREM PortCorrect == Spec => []ChildrenOnOwnPort
<1>1. IInv => ChildrenOnOwnPort
  BY Parts, ChildIsPair DEF IInv, ChildrenOnOwnPort, ChildBelongs, LivingPcs
<1> QED
  BY <1>1, Invariant, PTL

\* No ipc_cleanup and no error path of ipc_init removes what children still use.
THEOREM RemovalCorrect == Spec => []NothingRemovedInUse
<1>1. IInv => NothingRemovedInUse
  BY Parts, ChildIsPair DEF IInv, NothingRemovedInUse, ChildBelongs
<1> QED
  BY <1>1, Invariant, PTL

\* ipc_init never gets hold of another launcher's segment or semaphores.
THEOREM TakeoverCorrect == Spec => []NoTakeover
<1>1. IInv => NoTakeover
  <2>1. IInv => \A m \in Launchers : shm_id[m] \in {m, NoLauncher} /\ sem_id[m] \in {m, NoLauncher}
    BY DEF IInv, LaunchersOwn
  <2> QED
    BY <2>1, Apart DEF NoTakeover
<1> QED
  BY <1>1, Invariant, PTL

\* Every end of main.c, the failed ones included, leaves under the keys nothing of
\* its own but what the kernel refused to remove.
THEOREM EndCorrect == Spec => []NothingLeftBehind
<1>1. IInv => NothingLeftBehind
  BY Parts DEF IInv, NothingLeftBehind, LauncherOwns
<1> QED
  BY <1>1, Invariant, PTL
=============================================================================
