---------------------------- MODULE PostLifecycle ----------------------------
(***************************************************************************)
(* What the tables promise to their readers, the API and the reports: a    *)
(* post is stored once and stays, analyses are only ever added, and the    *)
(* label a dashboard shows for a post is one that an analysis gave it.     *)
(* How tasks, queues and workers bring this about is not said here.        *)
(***************************************************************************)
EXTENDS Naturals, Sequences

CONSTANTS Verdicts, None

VARIABLES
  given,  \* for every post, the verdicts its analyses gave
  shown   \* for every post, the label of its cached columns

vars == <<given, shown>>

Init == given = <<>> /\ shown = <<>>

Store ==
  /\ given' = Append(given, {})
  /\ shown' = Append(shown, None)

Analyse(p, v) ==
  /\ given' = [given EXCEPT ![p] = @ \cup {v}]
  /\ UNCHANGED shown

Show(p, v) ==
  /\ v \in given[p]
  /\ shown' = [shown EXCEPT ![p] = v]
  /\ UNCHANGED given

Next ==
  \/ Store
  \/ \E p \in DOMAIN given, v \in Verdicts : Analyse(p, v) \/ Show(p, v)

Spec == Init /\ [][Next]_vars

=============================================================================
