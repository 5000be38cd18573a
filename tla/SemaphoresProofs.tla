------------------------- MODULE SemaphoresProofs -------------------------
(***************************************************************************)
(* Proofs about Semaphores for any number of ferries and passengers.       *)
(***************************************************************************)
EXTENDS Semaphores, TLAPS

Members(queue) == {queue[k] : k \in 1 .. Len(queue)}
Once(queue) == \A j, k \in 1 .. Len(queue) : queue[j] = queue[k] => j = k

LEMMA AppendMembers ==
  ASSUME NEW S, NEW queue \in Seq(S), NEW p \in S, Once(queue), p \notin Members(queue)
  PROVE  /\ Append(queue, p) \in Seq(S)
         /\ Append(queue, p) # <<>>
         /\ Once(Append(queue, p))
         /\ \A v : v \in Members(Append(queue, p)) <=> v \in Members(queue) \/ v = p
<1>1. /\ Append(queue, p) \in Seq(S)
      /\ Len(Append(queue, p)) = Len(queue) + 1
      /\ Append(queue, p)[Len(queue) + 1] = p
      /\ \A k \in 1 .. Len(queue) : Append(queue, p)[k] = queue[k]
  OBVIOUS
<1>2. Once(Append(queue, p))
  BY <1>1 DEF Once, Members
<1>3. \A v : v \in Members(Append(queue, p)) <=> v \in Members(queue) \/ v = p
  BY <1>1 DEF Members
<1>4. QED
  BY <1>1, <1>2, <1>3

LEMMA TailMembers ==
  ASSUME NEW S, NEW queue \in Seq(S), queue # <<>>, Once(queue)
  PROVE  /\ Head(queue) \in S
         /\ Tail(queue) \in Seq(S)
         /\ Once(Tail(queue))
         /\ Head(queue) \in Members(queue)
         /\ \A v : v \in Members(Tail(queue)) <=> v \in Members(queue) /\ v # Head(queue)
<1>1. /\ Tail(queue) \in Seq(S)
      /\ Len(queue) > 0
      /\ Head(queue) = queue[1]
      /\ Len(Tail(queue)) = Len(queue) - 1
      /\ \A k \in 1 .. (Len(queue) - 1) : Tail(queue)[k] = queue[k + 1]
  OBVIOUS
<1>2. Head(queue) \in S /\ Head(queue) \in Members(queue)
  BY <1>1 DEF Members
<1>3. Once(Tail(queue))
  BY <1>1 DEF Once
<1>4. ASSUME NEW v \in Members(Tail(queue)) PROVE v \in Members(queue) /\ v # Head(queue)
  <2>1. PICK k \in 1 .. (Len(queue) - 1) : v = queue[k + 1]
    BY <1>1 DEF Members
  <2>2. QED
    BY <1>1, <2>1 DEF Members, Once
<1>5. ASSUME NEW v \in Members(queue), v # Head(queue) PROVE v \in Members(Tail(queue))
  <2>1. PICK k \in 1 .. Len(queue) : v = queue[k] /\ k # 1
    BY <1>1, <1>5 DEF Members
  <2>2. k - 1 \in 1 .. (Len(queue) - 1) /\ Tail(queue)[k - 1] = v
    BY <1>1, <2>1
  <2>3. QED
    BY <1>1, <2>2 DEF Members
<1>6. QED
  BY <1>1, <1>2, <1>3, <1>4, <1>5

LEMMA DroppedMembers ==
  ASSUME NEW S, NEW queue \in Seq(S), NEW p \in Members(queue), Once(queue)
  PROVE  /\ Dropped(queue, p) \in Seq(S)
         /\ Once(Dropped(queue, p))
         /\ \A v : v \in Members(Dropped(queue, p)) <=> v \in Members(queue) /\ v # p
<1> DEFINE i == CHOOSE k \in 1 .. Len(queue) : queue[k] = p
           n == Len(queue) - 1
           new == Dropped(queue, p)
<1>1. i \in 1 .. Len(queue) /\ queue[i] = p
  BY DEF Members
<1>2. n \in Nat /\ Len(queue) = n + 1
  BY <1>1
<1>3. new = [k \in 1 .. n |-> IF k < i THEN queue[k] ELSE queue[k + 1]]
  BY DEF Dropped
<1> HIDE DEF i, new, n
<1>4. /\ \A k \in 1 .. n : new[k] \in S
      /\ \A k \in 1 .. n : new[k] = IF k < i THEN queue[k] ELSE queue[k + 1]
  BY <1>1, <1>2, <1>3
<1>5. new \in Seq(S) /\ Len(new) = n
  BY <1>2, <1>3, <1>4
<1>6. Once(new)
  BY <1>1, <1>2, <1>4, <1>5 DEF Once
<1>7. ASSUME NEW v \in Members(new) PROVE v \in Members(queue) /\ v # p
  <2>1. PICK k \in 1 .. n : v = new[k]
    BY <1>5 DEF Members
  <2>2. QED
    BY <1>1, <1>2, <1>4, <2>1 DEF Members, Once
<1>8. ASSUME NEW v \in Members(queue), v # p PROVE v \in Members(new)
  <2>1. PICK k \in 1 .. (n + 1) : v = queue[k] /\ k # i
    BY <1>1, <1>2, <1>8 DEF Members
  <2>2. CASE k < i
    <3>1. k \in 1 .. n /\ new[k] = v
      BY <1>1, <1>2, <1>4, <2>1, <2>2
    <3>2. QED
      BY <1>5, <3>1 DEF Members
  <2>3. CASE k > i
    <3>1. k - 1 \in 1 .. n /\ new[k - 1] = v
      BY <1>1, <1>2, <1>4, <2>1, <2>3
    <3>2. QED
      BY <1>5, <3>1 DEF Members
  <2>4. QED
    BY <1>1, <2>1, <2>2, <2>3
<1>9. QED
  BY <1>5, <1>6, <1>7, <1>8 DEF new

-----------------------------------------------------------------------------
(* The invariant, with the sleepers in terms of Members and Once. *)

LEMMA SleepersFacts ==
  ASSUME IInv, NEW s \in Sems
  PROVE  /\ sleepers[s] \in Seq(Procs)
         /\ Once(sleepers[s])
         /\ Asleep(s) = Members(sleepers[s])
         /\ semval[s] \in Nat
BY DEF IInv, TypeOK, SleepersApart, Once, Asleep, Members

LEMMA InitInvariant == Init => IInv
<1> SUFFICES ASSUME Init PROVE IInv
  OBVIOUS
<1>1. TypeOK
  BY DEF Init, TypeOK, Sems
<1>2. ShmExclusive /\ NobodySleepsInVain /\ SemvalCounts
  BY DEF Init, ShmExclusive, NobodySleepsInVain, SemvalCounts, Sems
<1>3. SleepersApart
  BY DEF Init, SleepersApart, Asleep
<1>4. QED
  BY <1>1, <1>2, <1>3 DEF IInv

LEMMA DownInvariant ==
  ASSUME IInv, NEW s \in Sems, NEW p \in Procs, Down(s, p)
  PROVE  IInv'
<1>1. /\ semval \in [Sems -> Nat] /\ sleepers \in [Sems -> Seq(Procs)]
      /\ inside \in [Sems -> SUBSET Procs]
  BY DEF IInv, TypeOK
<1>2. p \notin gone /\ \A t \in Sems : p \notin Asleep(t) /\ p \notin inside[t]
  BY DEF Down, Running
<1>3. signalled' = signalled /\ gone' = gone
  BY DEF Down
<1>4. CASE /\ semval[s] > 0
           /\ semval' = [semval EXCEPT ![s] = @ - 1]
           /\ inside' = [inside EXCEPT ![s] = @ \cup {p}]
           /\ UNCHANGED sleepers
  <2>1. \A t \in Sems : /\ semval'[t] = IF t = s THEN semval[t] - 1 ELSE semval[t]
                        /\ inside'[t] = IF t = s THEN inside[t] \cup {p} ELSE inside[t]
                        /\ sleepers'[t] = sleepers[t]
    BY <1>1, <1>4
  <2>2. TypeOK'
    BY <1>1, <1>3, <1>4 DEF IInv, TypeOK
  <2>3. ShmExclusive' /\ SemvalCounts'
    <3>1. CASE s = "shm"
      <4>1. semval["shm"] = 1 /\ inside["shm"] = {}
        <5>1. semval["shm"] \in {0, 1} /\ (semval["shm"] = 0 <=> inside["shm"] # {})
          BY DEF IInv, SemvalCounts
        <5>2. semval["shm"] > 0
          BY <1>4, <3>1
        <5>3. semval["shm"] = 1
          BY ONLY <5>1, <5>2
        <5>4. QED
          BY <5>1, <5>3
      <4>2. semval'["shm"] = 0 /\ inside'["shm"] = {p}
        <5>1. semval'["shm"] = semval["shm"] - 1
          BY <2>1, <3>1
        <5>2. inside'["shm"] = inside["shm"] \cup {p}
          BY <2>1, <3>1
        <5>3. semval'["shm"] = 0
          BY ONLY <4>1, <5>1
        <5>4. inside'["shm"] = {p}
          BY ONLY <4>1, <5>2
        <5>5. QED
          BY <5>3, <5>4
      <4>3. semval'["log"] = semval["log"] /\ inside'["log"] = inside["log"]
        BY <2>1, <3>1 DEF Sems
      <4>4. semval["log"] = 0 => inside["log"] # {}
        BY DEF IInv, SemvalCounts
      <4>5. QED
        BY <4>2, <4>3, <4>4 DEF ShmExclusive, SemvalCounts
    <3>2. CASE s # "shm"
      <4>1. semval'["shm"] = semval["shm"] /\ inside'["shm"] = inside["shm"]
        BY <2>1, <3>2 DEF Sems
      <4>2. p \in inside'["log"]
        BY <2>1, <3>2 DEF Sems
      <4>3. QED
        BY <4>1, <4>2 DEF IInv, ShmExclusive, SemvalCounts
    <3>3. QED
      BY <3>1, <3>2
  <2>4. NobodySleepsInVain'
    <3>1. semval[s] # 0
      BY <1>1, <1>4
    <3>2. sleepers[s] = <<>>
      BY <3>1 DEF IInv, NobodySleepsInVain
    <3>3. \A t \in Sems : t # s => semval'[t] = semval[t] /\ inside'[t] = inside[t]
      BY <2>1
    <3>4. QED
      BY <2>1, <3>2, <3>3 DEF IInv, NobodySleepsInVain
  <2>5. \A t \in Sems : Asleep(t)' = Asleep(t)
    BY <2>1 DEF Asleep
  <2>6. SleepersApart'
    BY ZenonT(60), <1>2, <1>3, <2>1, <2>5 DEF IInv, SleepersApart
  <2>7. QED
    BY <2>2, <2>3, <2>4, <2>6 DEF IInv
<1>5. CASE /\ semval[s] = 0
           /\ sleepers' = [sleepers EXCEPT ![s] = Append(@, p)]
           /\ UNCHANGED <<semval, inside>>
  <2>1. /\ sleepers'[s] = Append(sleepers[s], p)
        /\ \A t \in Sems : t # s => sleepers'[t] = sleepers[t]
    BY <1>1, <1>5
  <2>2. p \notin Members(sleepers[s])
    BY <1>2, SleepersFacts
  <2>3. /\ sleepers'[s] \in Seq(Procs) /\ sleepers'[s] # <<>> /\ Once(sleepers'[s])
        /\ \A v : v \in Members(sleepers'[s]) <=> v \in Members(sleepers[s]) \/ v = p
    BY ONLY <2>1, <2>2, SleepersFacts, AppendMembers, IInv, s \in Sems, p \in Procs
  <2>4. TypeOK'
    BY <1>1, <1>3, <1>5, <2>1, <2>3 DEF IInv, TypeOK
  <2>5. ShmExclusive' /\ SemvalCounts'
    BY <1>5 DEF IInv, ShmExclusive, SemvalCounts
  <2>6. inside[s] # {}
    BY <1>1, <1>5 DEF IInv, SemvalCounts, Sems
  <2>7. NobodySleepsInVain'
    BY <1>5, <2>1, <2>6 DEF IInv, NobodySleepsInVain
  <2>8. /\ \A t \in Sems : t # s => Asleep(t)' = Asleep(t)
        /\ \A v : v \in Asleep(s)' <=> v \in Asleep(s) \/ v = p
    BY <2>1, <2>3, SleepersFacts DEF Asleep, Members
  <2>9. SleepersApart'
    BY <1>2, <1>3, <1>5, <2>1, <2>3, <2>8 DEF IInv, SleepersApart, Once
  <2>10. QED
    BY <2>4, <2>5, <2>7, <2>9 DEF IInv
<1>6. QED
  BY <1>4, <1>5 DEF Down

LEMMA UpInvariant ==
  ASSUME IInv, NEW s \in Sems, NEW p \in Procs, Up(s, p)
  PROVE  IInv'
<1>1. /\ semval \in [Sems -> Nat] /\ sleepers \in [Sems -> Seq(Procs)]
      /\ inside \in [Sems -> SUBSET Procs]
      /\ p \in inside[s]
  BY DEF IInv, TypeOK, Up
<1>2. signalled' = signalled /\ gone' = gone
  BY DEF Up
<1>3. s = "shm" => inside[s] = {p} /\ semval[s] = 0
  BY <1>1 DEF IInv, ShmExclusive, SemvalCounts, Sems
<1>4. CASE /\ sleepers[s] = <<>>
           /\ semval' = [semval EXCEPT ![s] = @ + 1]
           /\ inside' = [inside EXCEPT ![s] = @ \ {p}]
           /\ UNCHANGED sleepers
  <2>1. \A t \in Sems : /\ semval'[t] = IF t = s THEN semval[t] + 1 ELSE semval[t]
                        /\ inside'[t] = IF t = s THEN inside[t] \ {p} ELSE inside[t]
                        /\ sleepers'[t] = sleepers[t]
                        /\ semval[t] \in Nat
    BY <1>1, <1>4
  <2>2. TypeOK'
    BY <1>1, <1>2, <1>4 DEF IInv, TypeOK
  <2>3. ShmExclusive' /\ SemvalCounts'
    BY <1>3, <2>1 DEF IInv, ShmExclusive, SemvalCounts, Sems
  <2>4. NobodySleepsInVain'
    BY <1>4, <2>1 DEF IInv, NobodySleepsInVain
  <2>5. \A t \in Sems : Asleep(t)' = Asleep(t)
    BY <2>1 DEF Asleep
  <2>6. SleepersApart'
    BY ZenonT(60), <1>2, <2>1, <2>5 DEF IInv, SleepersApart
  <2>7. QED
    BY <2>2, <2>3, <2>4, <2>6 DEF IInv
<1>5. CASE /\ sleepers[s] # <<>>
           /\ sleepers' = [sleepers EXCEPT ![s] = Tail(@)]
           /\ inside' = [inside EXCEPT ![s] = (@ \ {p}) \cup {Head(sleepers[s])}]
           /\ UNCHANGED semval
  <2> DEFINE h == Head(sleepers[s])
  <2>1. /\ sleepers'[s] = Tail(sleepers[s])
        /\ \A t \in Sems : t # s => sleepers'[t] = sleepers[t]
        /\ \A t \in Sems : inside'[t] = IF t = s THEN (inside[t] \ {p}) \cup {h} ELSE inside[t]
    BY <1>1, <1>5
  <2>2. /\ h \in Procs /\ h \in Members(sleepers[s])
        /\ sleepers'[s] \in Seq(Procs) /\ Once(sleepers'[s])
        /\ \A v : v \in Members(sleepers'[s]) <=> v \in Members(sleepers[s]) /\ v # h
    BY ONLY <1>5, <2>1, SleepersFacts, TailMembers, IInv, s \in Sems
  <2> HIDE DEF h
  <2>3. /\ \A t \in Sems : t # s => Asleep(t)' = Asleep(t)
        /\ \A v : v \in Asleep(s)' <=> v \in Asleep(s) /\ v # h
        /\ h \in Asleep(s)
    BY ZenonT(60), <2>1, <2>2, SleepersFacts DEF Asleep, Members
  <2>4. /\ \A t \in Sems : h \notin inside[t] /\ (t # s => h \notin Asleep(t))
        /\ h \notin gone
    BY <2>3 DEF IInv, SleepersApart
  <2>5. TypeOK'
    <3>1. sleepers' \in [Sems -> Seq(Procs)]
      BY <1>1, <1>5, <2>1, <2>2
    <3>2. inside' \in [Sems -> SUBSET Procs]
      BY <1>1, <1>5, <2>2 DEF h
    <3>3. QED
      BY <1>2, <1>5, <3>1, <3>2 DEF IInv, TypeOK
  <2>6. ShmExclusive' /\ SemvalCounts'
    <3>1. semval' = semval /\ inside'[s] # {}
      <4>1. h \in inside'[s]
        BY <2>1
      <4>2. QED
        BY <1>5, <4>1
    <3>2. s = "shm" => inside'["shm"] = {h}
      BY <1>3, <2>1
    <3>3. s # "shm" => inside'["shm"] = inside["shm"]
      BY <2>1 DEF Sems
    <3>4. s # "log" => inside'["log"] = inside["log"]
      BY <2>1 DEF Sems
    <3>5. QED
      BY <1>3, <3>1, <3>2, <3>3, <3>4 DEF IInv, ShmExclusive, SemvalCounts, Sems
  <2>7. NobodySleepsInVain'
    <3>1. semval' = semval /\ semval[s] = 0 /\ inside'[s] # {}
      <4>1. h \in inside'[s]
        BY <2>1
      <4>2. semval[s] = 0
        BY <1>5 DEF IInv, NobodySleepsInVain
      <4>3. QED
        BY <1>5, <4>1, <4>2
    <3>2. \A t \in Sems : t # s => inside'[t] = inside[t]
      BY <2>1
    <3>3. QED
      BY ONLY IInv, <2>1, <3>1, <3>2 DEF IInv, NobodySleepsInVain
  <2>8. SleepersApart'
    <3>1. ASSUME NEW t \in Sems
          PROVE  /\ Asleep(t)' \cap gone' = {}
                 /\ \A j, k \in 1 .. Len(sleepers'[t]) : sleepers'[t][j] = sleepers'[t][k] => j = k
      <4>1. Asleep(t)' \cap gone' = {}
        BY <1>2, <2>3 DEF IInv, SleepersApart
      <4>2. \A j, k \in 1 .. Len(sleepers'[t]) : sleepers'[t][j] = sleepers'[t][k] => j = k
        BY ONLY IInv, t \in Sems, <2>1, <2>2 DEF IInv, SleepersApart, Once
      <4>3. QED
        BY <4>1, <4>2
    <3>2. ASSUME NEW t \in Sems, NEW u \in Sems
          PROVE  /\ Asleep(t)' \cap inside'[u] = {}
                 /\ t # u => Asleep(t)' \cap Asleep(u)' = {}
      <4>1. \A v : /\ v \in Asleep(t)' => v \in Asleep(t) /\ v # h
                   /\ v \in Asleep(u)' => v \in Asleep(u)
                   /\ v \in inside'[u] => v \in inside[u] \/ v = h
        BY <2>1, <2>3, <2>4
      <4>2. Asleep(t) \cap inside[u] = {} /\ (t # u => Asleep(t) \cap Asleep(u) = {})
        BY DEF IInv, SleepersApart
      <4>3. QED
        BY ONLY <4>1, <4>2
    <3>3. QED
      BY <3>1, <3>2 DEF SleepersApart
  <2>9. QED
    BY <2>5, <2>6, <2>7, <2>8 DEF IInv
<1>6. QED
  BY <1>4, <1>5 DEF Up

LEMMA InterruptedInvariant ==
  ASSUME IInv, NEW s \in Sems, NEW p \in Receivers, Interrupted(s, p),
         Captain \in inside["shm"], signalled' \subseteq Receivers
  PROVE  IInv'
<1>1. /\ semval \in [Sems -> Nat] /\ sleepers \in [Sems -> Seq(Procs)]
      /\ inside \in [Sems -> SUBSET Procs] /\ p \in Procs
  BY DEF IInv, TypeOK, Procs
<1>2. /\ p \in Asleep(s) /\ semval' = semval
      /\ sleepers' = [sleepers EXCEPT ![s] = Dropped(@, p)]
      /\ s = "shm" => gone' = gone \cup {p} /\ inside' = inside
      /\ s = "log" => gone' = gone /\ inside' = [inside EXCEPT !["log"] = @ \cup {p}]
  BY DEF Interrupted, Sems
<1>3. /\ sleepers'[s] = Dropped(sleepers[s], p)
      /\ \A t \in Sems : t # s => sleepers'[t] = sleepers[t]
  BY <1>1, <1>2
<1>4. /\ sleepers'[s] \in Seq(Procs) /\ Once(sleepers'[s])
      /\ \A v : v \in Members(sleepers'[s]) <=> v \in Members(sleepers[s]) /\ v # p
  <2>1. p \in Members(sleepers[s])
    BY <1>2, SleepersFacts
  <2>2. QED
    BY ONLY <1>3, <2>1, SleepersFacts, DroppedMembers, IInv, s \in Sems
<1>5. /\ \A t \in Sems : t # s => Asleep(t)' = Asleep(t)
      /\ \A v : v \in Asleep(s)' <=> v \in Asleep(s) /\ v # p
  BY <1>3, <1>4, SleepersFacts DEF Asleep, Members
<1>6. \A t \in Sems : t # s => p \notin Asleep(t)
  BY <1>2 DEF IInv, SleepersApart
<1>7. \A t \in Sems : \/ inside'[t] = inside[t]
                      \/ s = "log" /\ t = "log" /\ inside'[t] = inside[t] \cup {p}
  BY <1>1, <1>2 DEF Sems
<1>8. sleepers[s] # <<>>
  BY <1>2 DEF Asleep
<1>9. TypeOK'
  <2>1. sleepers' \in [Sems -> Seq(Procs)]
    BY <1>1, <1>2, <1>3, <1>4
  <2>2. inside' \in [Sems -> SUBSET Procs] /\ gone' \subseteq Procs
    BY <1>1, <1>2 DEF IInv, TypeOK, Sems
  <2>3. QED
    BY <1>1, <1>2, <2>1, <2>2 DEF TypeOK
<1>10. ShmExclusive' /\ SemvalCounts'
  BY <1>2, <1>7 DEF IInv, ShmExclusive, SemvalCounts, Sems
<1>11. NobodySleepsInVain'
  BY <1>2, <1>3, <1>7, <1>8 DEF IInv, NobodySleepsInVain
<1>12. SleepersApart'
  <2>1. \A t \in Sems : p \notin Asleep(t)'
    BY <1>5, <1>6
  <2>2. \A v : v \in gone' => v \in gone \/ v = p
    BY <1>2 DEF Sems
  <2>3. ASSUME NEW t \in Sems
        PROVE  /\ Asleep(t)' \cap gone' = {}
               /\ \A j, k \in 1 .. Len(sleepers'[t]) : sleepers'[t][j] = sleepers'[t][k] => j = k
    <3>1. Asleep(t)' \cap gone' = {}
      BY <1>5, <2>1, <2>2 DEF IInv, SleepersApart
    <3>2. \A j, k \in 1 .. Len(sleepers'[t]) : sleepers'[t][j] = sleepers'[t][k] => j = k
      BY <1>3, <1>4 DEF IInv, SleepersApart, Once
    <3>3. QED
      BY <3>1, <3>2
  <2>4. ASSUME NEW t \in Sems, NEW u \in Sems
        PROVE  /\ Asleep(t)' \cap inside'[u] = {}
               /\ t # u => Asleep(t)' \cap Asleep(u)' = {}
    BY <1>5, <1>7, <2>1 DEF IInv, SleepersApart
  <2>5. QED
    BY <2>3, <2>4 DEF SleepersApart
<1>13. QED
  BY <1>9, <1>10, <1>11, <1>12 DEF IInv

LEMMA QuietInvariant ==
  ASSUME IInv, UNCHANGED <<semval, sleepers, inside>>,
         signalled' \subseteq Receivers, gone' \subseteq Procs,
         \A s \in Sems : Asleep(s) \cap gone' = {}
  PROVE  IInv'
<1>1. TypeOK'
  BY DEF IInv, TypeOK
<1>2. /\ semval' = semval /\ sleepers' = sleepers /\ inside' = inside
      /\ ShmExclusive /\ NobodySleepsInVain /\ SemvalCounts
  BY DEF IInv
<1>3. ShmExclusive' /\ NobodySleepsInVain' /\ SemvalCounts'
  BY ONLY <1>2, Zenon DEF ShmExclusive, NobodySleepsInVain, SemvalCounts
<1>4. SleepersApart'
  <2>1. \A s \in Sems : Asleep(s)' = Asleep(s)
    BY <1>2 DEF Asleep
  <2>2. SleepersApart
    BY DEF IInv
  <2>3. QED
    BY <1>2, <2>1, <2>2 DEF SleepersApart
<1>5. QED
  BY <1>1, <1>3, <1>4 DEF IInv

LEMMA NextInvariant == IInv /\ [Next]_vars => IInv'
<1> SUFFICES ASSUME IInv, [Next]_vars PROVE IInv'
  OBVIOUS
<1>1. /\ signalled \subseteq Receivers /\ gone \subseteq Procs
      /\ \A s \in Sems : Asleep(s) \cap gone = {}
  BY DEF IInv, TypeOK, SleepersApart
<1>2. ASSUME NEW p \in Procs, NEW s \in Sems, Down(s, p) \/ Up(s, p) PROVE IInv'
  BY <1>2, DownInvariant, UpInvariant
<1>3. ASSUME NEW p \in Procs, Kill(p) PROVE IInv'
  <2>1. p \in Receivers /\ signalled' \subseteq Receivers /\ Captain \in inside["shm"]
    BY <1>1, <1>3 DEF Kill
  <2>2. CASE \E s \in Sems : Interrupted(s, p)
    BY <2>1, <2>2, InterruptedInvariant
  <2>3. CASE UNCHANGED <<semval, sleepers, inside, gone>>
    BY <1>1, <2>1, <2>3, QuietInvariant
  <2>4. QED
    BY <1>3, <2>2, <2>3 DEF Kill
<1>4. ASSUME NEW p \in Procs, End(p) PROVE IInv'
  <2>1. \A s \in Sems : Asleep(s) \cap gone' = {}
    BY <1>1, <1>4 DEF End, Running
  <2>2. QED
    BY <1>1, <1>4, <2>1, QuietInvariant DEF End
<1>5. CASE UNCHANGED vars
  BY <1>1, <1>5, QuietInvariant DEF vars
<1>6. QED
  BY <1>2, <1>3, <1>4, <1>5 DEF Next

THEOREM Invariant == Spec => []IInv
<1>1. Init => IInv
  BY InitInvariant
<1>2. IInv /\ [Next]_vars => IInv'
  BY NextInvariant
<1>3. QED
  BY <1>1, <1>2, PTL DEF Spec

\* Two processes are never inside sections of shared memory together, whatever
\* the captain interrupts.
THEOREM MutualExclusion == Spec => []ShmExclusive
<1>1. IInv => ShmExclusive
  BY DEF IInv
<1>2. QED
  BY <1>1, Invariant, PTL

\* Whoever sleeps on a semaphore has somebody inside who will post it.
THEOREM SomebodyPosts == Spec => []NobodySleepsInVain
<1>1. IInv => NobodySleepsInVain
  BY DEF IInv
<1>2. QED
  BY <1>1, Invariant, PTL

\* The value of SEM_SHM_MUTEX is 0 or 1 and tells whether a section is open.
THEOREM ValuesCorrect == Spec => []SemvalCounts
<1>1. IInv => SemvalCounts
  BY DEF IInv
<1>2. QED
  BY <1>1, Invariant, PTL

\* Type correctness.
THEOREM TypeCorrect == Spec => []TypeOK
<1>1. IInv => TypeOK
  BY DEF IInv
<1>2. QED
  BY <1>1, Invariant, PTL
=============================================================================
