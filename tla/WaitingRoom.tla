----------------------------- MODULE WaitingRoom -----------------------------
(***************************************************************************)
(* What the security control and the ferries have to agree on: whoever     *)
(* comes into the waiting room has a slot that nobody else there has, all  *)
(* who stay when the captain tells them to stop are told, who comes later  *)
(* knows already, and a slot is given back after its holder left the room. *)
(*                                                                         *)
(* SecurityControl.tla fills the waiting room and empties it at once,      *)
(* Boarding.tla fills it at will and models what people do there.  Both    *)
(* implement this contract, with Room as the mapping.                      *)
(***************************************************************************)
CONSTANTS People, Slots

VARIABLES
  held,                      \* pairs of a person and its slot
  staying,                   \* people alive who are not on their way out
  flagged,                   \* those of them who know that they should leave
  told                       \* the captain has told everybody

roomVars == <<held, staying, flagged, told>>

Init == held = {} /\ staying = {} /\ flagged = {} /\ told = FALSE

Arrive(p, i) ==
  /\ \A h \in held : p # h[1] /\ i # h[2]
  /\ held' = held \cup {<<p, i>>}
  /\ staying' = staying \cup {p}
  /\ flagged' = IF told THEN flagged \cup {p} ELSE flagged
  /\ UNCHANGED told

Leave(p) ==
  /\ p \in staying
  /\ staying' = staying \ {p}
  /\ flagged' = flagged \ {p}
  /\ UNCHANGED <<held, told>>

GiveBack(p, i) ==
  /\ p \notin staying
  /\ held' = held \ {<<p, i>>}
  /\ UNCHANGED <<staying, flagged, told>>

\* Some do not survive the news, and keep their slots.
Tell ==
  /\ ~told
  /\ told' = TRUE
  /\ staying' \in SUBSET staying
  /\ flagged' = staying'
  /\ UNCHANGED held

Next ==
  \/ Tell
  \/ \E p \in People :
       \/ Leave(p)
       \/ \E i \in Slots : Arrive(p, i) \/ GiveBack(p, i)

Spec == Init /\ [][Next]_roomVars
===============================================================================
