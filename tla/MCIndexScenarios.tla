-------------------------- MODULE MCIndexScenarios --------------------------
(***************************************************************************)
(* IndexWorkers under two uses of a workspace: "apart", one file with all  *)
(* sorts of contents, a document that cannot be extracted, and a fault;    *)
(* "projects", two projects with files that share contents and move        *)
(* between them.                                                           *)
(***************************************************************************)
EXTENDS MCIndexWorkers

VARIABLE scenario

Alike == Permutations({w1, w2})

ScenarioInit == Init /\ scenario \in {"apart", "projects"}

ScenarioNext ==
  /\ Next
  /\ scenario = "apart" =>
       /\ disk'[b] = NoFile /\ disk'[c] = NoFile
       /\ disk'[d] # NoFile => disk'[d].content = x
  /\ scenario = "projects" =>
       faults' = 0 /\ disk'[d] = NoFile /\ \A p \in Paths : disk'[p] # NoFile => disk'[p].content \in {x, y}
  /\ UNCHANGED scenario

ScenarioSpec == ScenarioInit /\ [][ScenarioNext]_<<scenario, vars>>
=============================================================================
