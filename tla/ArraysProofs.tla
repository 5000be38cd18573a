---------------------------- MODULE ArraysProofs ----------------------------
(***************************************************************************)
(* What the array operations of Arrays.tla do to an array without          *)
(* duplicates: the facts every list of the segment rests on.               *)
(***************************************************************************)
EXTENDS Arrays, FiniteSetTheorems, TLAPS

\* The search finds the value it looks for, whichever end it starts from.
LEMMA IndexFound ==
  ASSUME NEW arr, NEW n \in Nat, NEW x \in Window(arr, n), Distinct(arr, n)
  PROVE  /\ FirstIndex(arr, n, x) \in 0 .. (n - 1)
         /\ arr[FirstIndex(arr, n, x)] = x
         /\ LastIndex(arr, n, x) \in 0 .. (n - 1)
         /\ arr[LastIndex(arr, n, x)] = x
<1>1. PICK i \in 0 .. (n - 1) : arr[i] = x
  BY DEF Window
<1>2. \A j \in 0 .. (n - 1) : arr[j] = x => j = i
  BY <1>1 DEF Distinct
<1>3. \A j \in 0 .. (i - 1) : arr[j] # x
  BY <1>1, <1>2
<1>4. \A j \in (i + 1) .. (n - 1) : arr[j] # x
  BY <1>1, <1>2
<1>5. QED
  BY <1>1, <1>3, <1>4 DEF FirstIndex, LastIndex

\* In an array without duplicates the position of a cell's value is that cell.
LEMMA LastIndexOfCell ==
  ASSUME NEW arr, NEW n \in Nat, Distinct(arr, n), NEW k \in 0 .. (n - 1)
  PROVE  LastIndex(arr, n, arr[k]) = k
<1>1. arr[k] \in Window(arr, n)
  BY DEF Window
<1>2. QED
  BY <1>1, IndexFound DEF Distinct

\* Taking out a value keeps the order of all others, drops only that value and
\* creates no duplicates.
LEMMA WithoutCells ==
  ASSUME NEW arr, NEW n \in Nat, 0 .. (n - 1) \subseteq DOMAIN arr, Distinct(arr, n),
         NEW x \in Window(arr, n)
  PROVE  /\ CountWithout(arr, n, x) = n - 1
         /\ n > 0
         /\ FirstIndex(arr, n, x) \in 0 .. (n - 1)
         /\ arr[FirstIndex(arr, n, x)] = x
         /\ Without(arr, n, x) = CloseGap(arr, n, FirstIndex(arr, n, x))
         /\ Distinct(Without(arr, n, x), n - 1)
         /\ \A v : v \in Window(Without(arr, n, x), n - 1) <=> v \in Window(arr, n) /\ v # x
<1> DEFINE i == FirstIndex(arr, n, x)
           new == Without(arr, n, x)
<1>1. i \in 0 .. (n - 1) /\ arr[i] = x
  BY IndexFound
<1>2. new = CloseGap(arr, n, i)
  BY DEF Without
<1> HIDE DEF i, new
<1>3. \A k \in 0 .. (n - 2) : new[k] = IF k < i THEN arr[k] ELSE arr[k + 1]
  <2>1. \A k \in 0 .. (n - 2) : k \in DOMAIN arr
    OBVIOUS
  <2>2. QED
    BY <1>1, <1>2, <2>1 DEF CloseGap
<1>4. Distinct(new, n - 1)
  BY <1>1, <1>3 DEF Distinct
<1>5. \A v : v \in Window(new, n - 1) <=> v \in Window(arr, n) /\ v # x
  <2>1. ASSUME NEW v \in Window(new, n - 1) PROVE v \in Window(arr, n) /\ v # x
    <3>1. PICK k \in 0 .. (n - 2) : v = new[k]
      BY DEF Window
    <3>2. QED
      BY <1>1, <1>3, <3>1 DEF Window, Distinct
  <2>2. ASSUME NEW v \in Window(arr, n), v # x PROVE v \in Window(new, n - 1)
    <3>1. PICK k \in 0 .. (n - 1) : v = arr[k]
      BY DEF Window
    <3>2. CASE k < i
      BY <1>1, <1>3, <3>1, <3>2 DEF Window
    <3>3. CASE k > i
      <4>1. k - 1 \in 0 .. (n - 2) /\ new[k - 1] = v
        BY <1>1, <1>3, <3>1, <3>3
      <4>2. QED
        BY <4>1 DEF Window
    <3>4. QED
      BY <1>1, <2>2, <3>1, <3>2, <3>3
  <2>3. QED
    BY <2>1, <2>2
<1>6. QED
  BY <1>1, <1>2, <1>3, <1>4, <1>5 DEF CountWithout, new, i

\* The values that stay keep their order.
LEMMA WithoutKeepsOrder ==
  ASSUME NEW arr, NEW n \in Nat, 0 .. (n - 1) \subseteq DOMAIN arr, Distinct(arr, n),
         NEW x \in Window(arr, n)
  PROVE  \E c \in 0 .. (n - 1) :
           /\ arr[c] = x
           /\ \A k \in 0 .. (n - 2) :
                Without(arr, n, x)[k] = IF k < c THEN arr[k] ELSE arr[k + 1]
<1> DEFINE c == FirstIndex(arr, n, x)
<1>1. c \in 0 .. (n - 1) /\ arr[c] = x
  BY IndexFound
<1>2. \A k \in 0 .. (n - 2) : k \in DOMAIN arr
  OBVIOUS
<1>3. Without(arr, n, x) = CloseGap(arr, n, c)
  BY DEF Without
<1> HIDE DEF c
<1>4. \A k \in 0 .. (n - 2) : Without(arr, n, x)[k] = IF k < c THEN arr[k] ELSE arr[k + 1]
  BY <1>1, <1>2, <1>3 DEF CloseGap
<1>5. QED
  BY <1>1, <1>4

\* Appending a value that is not there yet: new holds x behind the n cells of arr.
IsAppended(arr, new, n, x) == new[n] = x /\ \A k \in 0 .. (n - 1) : new[k] = arr[k]
LEMMA Appended ==
  ASSUME NEW arr, NEW new, NEW n \in Nat, NEW x, IsAppended(arr, new, n, x),
         Distinct(arr, n), x \notin Window(arr, n)
  PROVE  /\ Distinct(new, n + 1)
         /\ Window(new, n + 1) = Window(arr, n) \cup {x}
<1> USE DEF IsAppended
<1>1. \A k \in 0 .. (n - 1) : arr[k] # x
  BY DEF Window
<1>2. Distinct(new, n + 1)
  BY <1>1 DEF Distinct
<1>3. 0 .. ((n + 1) - 1) = (0 .. (n - 1)) \cup {n}
  OBVIOUS
<1>4. Window(new, n + 1) = Window(arr, n) \cup {x}
  BY <1>3 DEF Window
<1>5. QED
  BY <1>2, <1>4

\* The same at the front: new holds x before the n cells of arr.
IsPrepended(arr, new, n, x) == new[0] = x /\ \A k \in 1 .. n : new[k] = arr[k - 1]
LEMMA Prepended ==
  ASSUME NEW arr, NEW new, NEW n \in Nat, NEW x, IsPrepended(arr, new, n, x),
         Distinct(arr, n), x \notin Window(arr, n)
  PROVE  /\ Distinct(new, n + 1)
         /\ Window(new, n + 1) = Window(arr, n) \cup {x}
<1> USE DEF IsPrepended
<1>1. 0 .. ((n + 1) - 1) = 0 .. n
  OBVIOUS
<1>2. \A k \in 1 .. n : k - 1 \in 0 .. (n - 1) /\ new[k] = arr[k - 1] /\ new[k] # x
  BY DEF Window
<1>3. Distinct(new, n + 1)
  <2> SUFFICES ASSUME NEW j \in 0 .. n, NEW k \in 0 .. n, new[j] = new[k] PROVE j = k
    BY <1>1 DEF Distinct
  <2>1. CASE j = 0 \/ k = 0
    BY <1>2, <2>1
  <2>2. CASE j # 0 /\ k # 0
    <3>1. /\ j - 1 \in 0 .. (n - 1) /\ k - 1 \in 0 .. (n - 1)
          /\ arr[j - 1] = arr[k - 1]
      BY <1>2, <2>2
    <3>2. QED
      BY <3>1 DEF Distinct
  <2>3. QED
    BY <2>1, <2>2
<1>4. Window(new, n + 1) = Window(arr, n) \cup {x}
  <2>1. ASSUME NEW v \in Window(new, n + 1) PROVE v \in Window(arr, n) \cup {x}
    <3>1. PICK k \in 0 .. n : v = new[k]
      BY <1>1 DEF Window
    <3>2. CASE k = 0
      BY <3>1, <3>2
    <3>3. CASE k # 0
      BY <1>2, <3>1, <3>3 DEF Window
    <3>4. QED
      BY <3>2, <3>3
  <2>2. ASSUME NEW v \in Window(arr, n) PROVE v \in Window(new, n + 1)
    <3>1. PICK k \in 0 .. (n - 1) : v = arr[k]
      BY DEF Window
    <3>2. k + 1 \in 0 .. n /\ new[k + 1] = v
      BY <1>2, <3>1
    <3>3. QED
      BY <1>1, <3>2 DEF Window
  <2>3. x \in Window(new, n + 1)
    BY <1>1 DEF Window
  <2>4. QED
    BY <2>1, <2>2, <2>3
<1>5. QED
  BY <1>3, <1>4

\* People with different numbers in the first n cells are n at most.
LEMMA NoMoreThanCells ==
  ASSUME NEW S, NEW arr, NEW n \in Nat, NEW id,
         \A p \in S : id[p] \in Window(arr, n),
         \A p, q \in S : p # q => id[p] # id[q]
  PROVE  Cardinality(S) <= n
<1> DEFINE cell == [p \in S |-> CHOOSE j \in 0 .. (n - 1) : arr[j] = id[p]]
<1>1. \A p \in S : cell[p] \in 0 .. (n - 1) /\ arr[cell[p]] = id[p]
  BY DEF Window
<1>2. cell \in Injection(S, 0 .. (n - 1))
  <2>1. cell \in [S -> 0 .. (n - 1)]
    BY <1>1
  <2>2. \A p, q \in S : cell[p] = cell[q] => p = q
    BY <1>1
  <2> HIDE DEF cell
  <2>3. QED
    BY <2>1, <2>2 DEF Injection, IsInjective
<1> HIDE DEF cell
<1>3. IsFiniteSet(0 .. (n - 1)) /\ Cardinality(0 .. (n - 1)) = n
  BY FS_Interval
<1>4. QED
  BY <1>2, <1>3, FS_Injection
=============================================================================
