----------------------------- MODULE IssueBoard -----------------------------
(***************************************************************************)
(* wadl-issues: every way planned work can be shown to be in trouble, and  *)
(* the work-on-work conflicts of a yard day.                               *)
(*                                                                         *)
(* Rows are the schedule's activities.  An issue is named by its key, the  *)
(* kind and what it is about; its hours move with every read and its name  *)
(* does not, which is what an acknowledgement hangs on to.                 *)
(***************************************************************************)
EXTENDS Mitigation

\* Mutant: it is judged at its start alone.
executability_at_start(w, space, window) ==
  space = None \/ window = None \/ Permits([w EXCEPT !.at = window.start], space)

(* An activity is judged over its own window: at the start and at each     *)
(* raise inside it.  One with no place or no date is never refused.        *)
executability(w, space, window) ==
  IF space = None \/ window = None THEN TRUE
  ELSE \A t \in {window.start} \cup
                {w.hazards[i].since : i \in {j \in DOMAIN w.hazards :
                    window.start < w.hazards[j].since /\ w.hazards[j].since < window.end}} :
         Permits([w EXCEPT !.at = t], space)

Issue(kind, subject, space, hours) ==
  [key |-> <<kind, subject>>, space |-> space, hours_at_risk |-> hours]

(* One issue for a refused space, never two: compound when no one action   *)
(* opens it and more than one hold is on it.                               *)
space_issue(w, space) ==
  LET a == triage(w, space)
  IN IF permits_work(a.state) THEN {}
     ELSE IF ~a.single_action_opens /\ Len(a.holds) > 1
          THEN {Issue("compound", space, space, Load(w, w.at, space))}
          ELSE {Issue("held", space, space, Load(w, w.at, space))}

(* The board: refused spaces with work booked, unfinished activities       *)
(* refused inside their own windows, compartments that strand hours, and   *)
(* successors planned to start before their predecessor ends.  Two issues  *)
(* that say the same, of one compartment in two packages, are one here.    *)
derive(w, rows, stranded, edges) ==
  (UNION {space_issue(w, s) : s \in {x \in w.spaces : Load(w, w.at, x) > 0}})
  \cup {Issue("not_executable", r.code, r.space, r.remaining) :
          r \in {x \in rows : x.remaining > 0 /\ ~executability(w, x.space, x.window)}}
  \cup {Issue("stranding", s.compartment, s.compartment, s.stranded_downstream) :
          s \in {x \in stranded : x.stranded_downstream > 0}}
  \cup {Issue("negative_lag", <<e.pred, e.succ>>, None,
              MapThenSumSet(LAMBDA r : r.remaining, {r \in rows : r.code = e.succ})) :
          e \in {x \in edges : x.lag < 0}}

-----------------------------------------------------------------------------
(* Conflicts: rows with a place, their work type's flags resolved.         *)
Overlaps(a, b) == a.start < b.end /\ b.start < a.end

in_day(r, day) == r.remaining > 0 /\ (r.window = None \/ Overlaps(r.window, day))

EarlierOf(a, b) == IF a < b THEN a ELSE b

(* The spaces one hop off across a coupling that carries heat or vapour.   *)
heat_or_vapour_paths(graph, space) ==
  {e.to : e \in {f \in ToSet(graph) : f.from = space /\ f.carries \cap {"heat", "vapour"} # {}}}

Joined(graph, h, f) ==
  \/ h.space = f.space
  \/ f.space \in heat_or_vapour_paths(graph, h.space)
  \/ h.space \in heat_or_vapour_paths(graph, f.space)

Conflict(graph, h, f) ==
  IF h.code # f.code /\ Joined(graph, h, f) THEN <<<<h.code, f.code>>>> ELSE <<>>

(* The pairs of a day, in the order of the rows, up to a cap; the rest are *)
(* counted.                                                                *)
hot_vs_flammable(graph, rows, day, cap) ==
  LET live == Chosen(rows, LAMBDA r : in_day(r, day))
      hot  == Chosen(live, LAMBDA r : r.ignition_source)
      flam == Chosen(live, LAMBDA r : r.flammable_atmosphere)
      all  == FlattenSeq([i \in DOMAIN hot |->
                FlattenSeq([j \in DOMAIN flam |-> Conflict(graph, hot[i], flam[j])])])
      served == EarlierOf(cap, Len(all))
  IN [pairs |-> SubSeq(all, 1, served), dropped |-> Len(all) - served]
=============================================================================
