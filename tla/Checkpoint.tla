------------------------------ MODULE Checkpoint ------------------------------
(***************************************************************************)
(* What the security control promises, with people in a line and groups at *)
(* stations instead of arrays, positions, slots and flags: only who was    *)
(* admitted before the captain closed joins the line, a place in it is     *)
(* given up only to the next behind and a limited number of times, and a   *)
(* station never mixes genders nor exceeds its room.  Those who die keep   *)
(* their place.                                                            *)
(*                                                                         *)
(* SecurityControl.tla implements this; see Control there for the mapping. *)
(***************************************************************************)
EXTENDS Integers, SequencesExt

CONSTANTS People, Stations, ROOM, PASSES

VARIABLES
  gender,                    \* of everybody, never changed
  closed,                    \* the captain has told everybody
  inside,                    \* admitted, alive and not on the way out
  line,                      \* sequence of people
  passes,                    \* person in the line -> passes it has used up
  at                         \* station -> people

checkpointVars == <<gender, closed, inside, line, passes, at>>

InLine(p) == \E k \in DOMAIN line : line[k] = p
AtStation(p) == \E s \in Stations : p \in at[s]

Init ==
  /\ gender \in [People -> {"MALE", "FEMALE"}]
  /\ closed = FALSE
  /\ inside = {}
  /\ line = <<>>
  /\ passes = [p \in People |-> 0]
  /\ at = [s \in Stations |-> {}]

Admit(p) ==
  /\ ~closed
  /\ inside' = inside \cup {p}
  /\ UNCHANGED <<gender, closed, line, passes, at>>

Join(p) ==
  /\ p \in inside
  /\ ~InLine(p) /\ ~AtStation(p)
  /\ line' = Append(line, p)
  /\ UNCHANGED <<gender, closed, inside, passes, at>>

\* The one behind passes.
LetPass(k) ==
  LET p == line[k] IN
  /\ p \in inside
  /\ passes[p] < PASSES
  /\ passes' = [passes EXCEPT ![p] = @ + 1]
  /\ line' = [line EXCEPT ![k] = line[k + 1], ![k + 1] = p]
  /\ UNCHANGED <<gender, closed, inside, at>>

\* p leaves its place, and those behind move up.
StepOut(p) ==
  /\ \E k \in DOMAIN line :
       /\ line[k] = p
       /\ line' = RemoveAt(line, k)
  /\ passes' = [passes EXCEPT ![p] = 0]

\* Anybody in the line may be called, not only its head.
Call(p, s) ==
  /\ p \in inside
  /\ Cardinality(at[s]) < ROOM
  /\ \A q \in at[s] : gender[q] = gender[p]
  /\ StepOut(p)
  /\ at' = [at EXCEPT ![s] = @ \cup {p}]
  /\ UNCHANGED <<gender, closed, inside>>

Finish(p, s) ==
  /\ p \in inside \cap at[s]
  /\ at' = [at EXCEPT ![s] = @ \ {p}]
  /\ UNCHANGED <<gender, closed, inside, line, passes>>

Leave(p) ==
  /\ p \in inside
  /\ ~AtStation(p)
  /\ inside' = inside \ {p}
  /\ \/ StepOut(p)
     \/ ~InLine(p) /\ UNCHANGED <<line, passes>>
  /\ UNCHANGED <<gender, closed, at>>

\* Some do not survive the news.
Close ==
  /\ ~closed
  /\ closed' = TRUE
  /\ inside' \in SUBSET inside
  /\ UNCHANGED <<gender, line, passes, at>>

Next ==
  \/ \E p \in People :
       \/ Admit(p) \/ Join(p) \/ Leave(p)
       \/ \E s \in Stations : Call(p, s) \/ Finish(p, s)
  \/ \E k \in 1 .. (Len(line) - 1) : LetPass(k)
  \/ Close

Spec == Init /\ [][Next]_checkpointVars
===============================================================================
