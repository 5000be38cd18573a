------------------------- MODULE MCSecurityControl -------------------------
(* SecurityControl on small instances. *)
EXTENDS SecurityControl, TLC

\* Processes differ in nothing but the gender they draw.
PidSymmetry == Permutations(Pids)

\* A bound for the run about the order of the queue, for which three passengers
\* with a slot each are needed and genders, the captain and the clean-up after the
\* control are not: whoever is out of the control stays there.
QueueOnly ==
  /\ captain_pc = "working"
  /\ \A p \in Pids :
       gender[p] = "FEMALE" /\ pc[p] \notin {"unregister_pid", "unregister_last", "exited"}
=============================================================================
