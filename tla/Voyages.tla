------------------------------- MODULE Voyages -------------------------------
(***************************************************************************)
(* What the ferries promise, whatever the lists, the gangway, the signals  *)
(* and the four sections of a departure look like: a ferry opens empty,    *)
(* takes on passengers one at a time while it is open and has a seat, each *)
(* on one ferry only, and sails with all that are still on board.          *)
(*                                                                         *)
(* Boarding.tla implements this; see Voyage there for the mapping.         *)
(***************************************************************************)
EXTENDS Naturals

CONSTANTS Passengers, Ferries, CAPACITY

VARIABLES
  open,                      \* ferries that take passengers
  seats,                     \* ferry -> seats given away since it opened
  aboard                     \* ferry -> those who wait on board for it to sail

voyageVars == <<open, seats, aboard>>

Init ==
  /\ open = {}
  /\ seats = [k \in Ferries |-> 0]
  /\ aboard = [k \in Ferries |-> {}]

Open(k) ==
  /\ k \notin open
  /\ open' = open \cup {k}
  /\ UNCHANGED <<seats, aboard>>

\* A seat is not given away twice, even when somebody stepped off.
TakeOn(k, p) ==
  /\ k \in open
  /\ seats[k] < CAPACITY
  /\ \A j \in Ferries : p \notin aboard[j]
  /\ seats' = [seats EXCEPT ![k] = @ + 1]
  /\ aboard' = [aboard EXCEPT ![k] = @ \cup {p}]
  /\ UNCHANGED open

\* Passengers leave a ferry that does not sail: their time is over, or a signal
\* ends several of them at once.
StepOff ==
  /\ aboard' \in [Ferries -> SUBSET Passengers]
  /\ \A k \in Ferries : aboard'[k] \subseteq aboard[k]
  /\ UNCHANGED <<open, seats>>

Sail(k) ==
  /\ k \in open
  /\ open' = open \ {k}
  /\ seats' = [seats EXCEPT ![k] = 0]
  /\ aboard' = [aboard EXCEPT ![k] = {}]

Next ==
  \/ StepOff
  \/ \E k \in Ferries : Open(k) \/ Sail(k) \/ \E p \in Passengers : TakeOn(k, p)

Spec == Init /\ [][Next]_voyageVars
=============================================================================
