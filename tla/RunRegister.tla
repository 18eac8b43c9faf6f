---------------------------- MODULE RunRegister ----------------------------
(***************************************************************************)
(* What the schedule store promises of one hull's imports, as              *)
(* Repositories states it: a history of runs that only grows, and a        *)
(* schedule of record that is either a run's document, with the served     *)
(* pointer naming that run, or the generated register, with no pointer.    *)
(* Recording a run and serving it is one write.                            *)
(***************************************************************************)
EXTENDS Sequences

CONSTANTS Ids, Generated, NoRun

VARIABLES history, doc, run

Init ==
  \/ history = << >> /\ doc = Generated /\ run = NoRun
  \/ \E id \in Ids : history = <<id>> /\ doc = id /\ run = id

Recorded == {history[i] : i \in DOMAIN history}

Served(id) == doc' = id /\ run' = id

Commit == \E id \in Ids \ Recorded :
            history' = Append(history, id) /\ Served(id)
Serve  == \E id \in Recorded : Served(id) /\ UNCHANGED history
Clear  == doc' = Generated /\ run' = NoRun /\ UNCHANGED history

Spec == Init /\ [][Commit \/ Serve \/ Clear]_<<history, doc, run>>
=============================================================================
