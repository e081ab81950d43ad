------------------------ MODULE SharedConfiguration ------------------------
(***************************************************************************)
(* What an instance promises to the administrators who change its          *)
(* configuration at the same time: changes take effect one after another,  *)
(* each alters one field of the configuration in force and takes the       *)
(* revision one further.                                                   *)
(***************************************************************************)
EXTENDS Naturals

CONSTANTS Policies   \* the policy sets an administrator may install

VARIABLES content, revision

Changes == ({"policy"} \X Policies) \cup ({"paused"} \X BOOLEAN)

\* The content c after change: one field is replaced.
Applied(c, change) ==
  IF change[1] = "policy" THEN [c EXCEPT !.policy = change[2]]
                          ELSE [c EXCEPT !.paused = change[2]]

Init ==
  /\ content \in [policy : Policies, paused : {FALSE}]
  /\ revision \in {0, 1}

Change(change) ==
  /\ content' = Applied(content, change)
  /\ revision' = revision + 1

Next == \E change \in Changes : Change(change)

Spec == Init /\ [][Next]_<<content, revision>>
=============================================================================
