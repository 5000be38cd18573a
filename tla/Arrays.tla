------------------------------- MODULE Arrays -------------------------------
(***************************************************************************)
(* The fixed arrays of the shared memory segment (security_queue,          *)
(* passenger_ids of a station, passenger_pids): a function on 0 .. cap-1   *)
(* with a counter kept beside it.  Only the first n cells are meant; what  *)
(* lies behind them is left over from earlier use.                         *)
(***************************************************************************)
EXTENDS Integers

\* The values in the first n cells.
Window(arr, n) == {arr[k] : k \in 0 .. (n - 1)}

\* No value stands twice in the first n cells.
Distinct(arr, n) == \A j, k \in 0 .. (n - 1) : arr[j] = arr[k] => j = k

\* The cell the linear search of ipc.c stops at: the first one that holds x.
FirstIndex(arr, n, x) ==
  CHOOSE k \in 0 .. (n - 1) : arr[k] = x /\ \A j \in 0 .. (k - 1) : arr[j] # x

\* The cell a loop over the window visits last among those that hold x.
LastIndex(arr, n, x) ==
  CHOOSE k \in 0 .. (n - 1) : arr[k] = x /\ \A j \in (k + 1) .. (n - 1) : arr[j] # x

\* Cell i is dropped and the cells behind it move down by one.  The last cell
\* of the old window keeps its value.
CloseGap(arr, n, i) ==
  [k \in DOMAIN arr |-> IF k \in i .. (n - 2) THEN arr[k + 1] ELSE arr[k]]

\* Search for x and close the gap, the way every list of ipc.c does it, and
\* the counter afterwards.  A value that is not there changes nothing.
Without(arr, n, x) ==
  IF x \in Window(arr, n) THEN CloseGap(arr, n, FirstIndex(arr, n, x)) ELSE arr
CountWithout(arr, n, x) == IF x \in Window(arr, n) THEN n - 1 ELSE n
=============================================================================
