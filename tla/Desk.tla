-------------------------------- MODULE Desk --------------------------------
(***************************************************************************)
(* The planner's desk: wadl-api's handlers that record what somebody       *)
(* answered for, namely a decision on an option, an acknowledgement of an  *)
(* issue, a proposal to move an activity and its withdrawal, and the       *)
(* readings that join those records to the hull.                           *)
(*                                                                         *)
(* A handler reads the hazards, the schedule and the ledger one after      *)
(* another and writes only its ledger entry; meanwhile hazards are raised  *)
(* and cleared, schedules are replaced and other handlers append.  What it *)
(* reads is mixed of the hulls of as many moments as it makes reads.  A    *)
(* handler that is dropped at an await is one that takes no further step:  *)
(* it holds nothing.  Every version of the hull is kept, to say later what *)
(* was true when.                                                          *)
(***************************************************************************)
EXTENDS HullWorld

CONSTANTS
  Requests,     \* the requests, numbered in the order they come
  Fixed,        \* what of the hull stays
  FirstHulls,   \* what the rest of it, the hazards and the schedule, may be at first
  Books,        \* what the ledger may hold at first
  Schedules,    \* the schedules an import may bring: activities and their logic
  Raisable,     \* the hazards somebody may raise
  AsOfs,        \* the instants a request may be about
  Options,      \* the options a request may send, each as some board showed it
  Dispositions, \* what may be decided about them
  IssueKeys,    \* the issues a request may name
  Windows,      \* the windows a proposal may name
  Codes,        \* the activities a request may name
  DayLength,    \* the length of a day, on the clock of the instants
  Now,          \* when it all happens
  MaxEvents     \* how many requests and changes of the hull there may be together

ASSUME DeskAssumption == DayLength \in Nat \ {0} /\ MaxEvents \in Nat
ASSUME BooksAssumption == \A book \in Books : book \in Seq({book[n] : n \in DOMAIN book})
ASSUME NumberedAssumption == None \notin Nat

VARIABLES
  past,     \* the versions of what moves of the hull, the last of them as it is
  ledger,   \* the hull's entries, oldest first; an entry's seq is its place
  req       \* the requests

vars == <<past, ledger, req>>

HullOf(v) == Merged(past[v], Fixed)

latest == past[Len(past)]

hull == Merged(latest, Fixed)

(* The hull as a handler has it: the hazards of one moment, the booked     *)
(* activities of another and the schedule's logic of a third.              *)
AsRead(v, u, y) ==
  [HullOf(v) EXCEPT !.activities = past[u].activities, !.edges = past[y].edges]

Idle == [op |-> "none", pc |-> "idle"]

-----------------------------------------------------------------------------
Room == Len(past) + Cardinality({r \in Requests : req[r].pc # "idle"}) <= MaxEvents

(* The hull moves under the desk.                                          *)
Becomes(h) ==
  /\ Room
  /\ past' = Append(past, h)
  /\ UNCHANGED <<ledger, req>>

ReplaceSchedule ==
  \E s \in Schedules :
    /\ s # [activities |-> latest.activities, edges |-> latest.edges]
    /\ Becomes([latest EXCEPT !.activities = s.activities, !.edges = s.edges])

RaiseHazard ==
  \E f \in Raisable :
    /\ \A i \in DOMAIN latest.hazards : <<latest.hazards[i].origin, latest.hazards[i].label>> # <<f.origin, f.label>>
    /\ Becomes([latest EXCEPT !.hazards = Append(@, f)])

ClearHazard ==
  \E i \in DOMAIN latest.hazards :
    latest.hazards[i].ended = None /\ Becomes([latest EXCEPT !.hazards[i].ended = Now])

-----------------------------------------------------------------------------
(* What is on offer for a space, with what each option would do: an action *)
(* that opens it, or a plan.                                               *)
OptionsIn(w, a) ==
  {[actions |-> <<o.action>>, effect |-> o.effect, subject_state |-> o.subject_state] : o \in a.options}
  \cup (IF a.combined = <<>> THEN {} ELSE {combined_for(w, a.subject, a.combined)})

Offered(h, t, space) ==
  LET w == mitigation_inputs(h, t)
  IN IF space \in w.spaces THEN OptionsIn(w, assess(w, space)) ELSE {}

Board(h, t, activities) == derived_issues(h, t, activities)

Keys(board) == {i.key : i \in board}

Entry(r, action, subject, what) ==
  [action |-> action, subject |-> subject, what |-> what, at |-> req[r].at,
   asked |-> req[r].asked, entered |-> Len(past)]

Asks(r, op, fields) ==
  /\ req' = [req EXCEPT ![r] = Merged(fields, [op |-> op, asked |-> Len(past), known |-> Len(ledger)])]
  /\ UNCHANGED <<past, ledger>>

Goes(r, pc, fields) ==
  /\ req' = [req EXCEPT ![r] = Merged([pc |-> pc], Merged(fields, @))]
  /\ UNCHANGED past

(* The request is over; what it read is forgotten, but for its answer.     *)
Ends(r, pc, answer) ==
  /\ req' = [req EXCEPT ![r] = [op |-> @.op, pc |-> pc, asked |-> @.asked, known |-> @.known,
                                answer |-> answer, ended |-> Len(past)]]
  /\ UNCHANGED past

Appends(entry) == ledger' = Append(ledger, entry)

Verified(r, holds, pc, fields) ==
  \/ holds /\ Goes(r, pc, fields)
  \/ ~holds /\ Ends(r, "refused", {})

(* The planner chose from a board read earlier, of this space or another.  *)
AskDecision(r) ==
  \E t \in AsOfs, space \in registered(hull), option \in Options, disposition \in Dispositions :
    Asks(r, "decide", [pc |-> "hazards", at |-> t, subject |-> space, option |-> option,
                       disposition |-> disposition])

AskAck(r) ==
  \E t \in AsOfs, k \in IssueKeys : Asks(r, "acknowledge", [pc |-> "hazards", at |-> t, key |-> k])

AskIssues(r) == \E t \in AsOfs : Asks(r, "issues", [pc |-> "hazards", at |-> t])

(* The three derive what they need from the hazards bearing on the instant *)
(* and, read in another call, the work booked.                             *)
ReadHazards(r) ==
  /\ req[r].pc = "hazards"
  /\ UNCHANGED ledger
  /\ Goes(r, "bookings", [hazards |-> Len(past)])

(* The assessment is derived again and the option matched into it by its   *)
(* actions: what goes on is the server's, with the effect it has now.      *)
Matching(q, u) ==
  {o \in Offered(AsRead(q.hazards, u, u), q.at, q.subject) : o.actions = q.option.actions}

VerifyOption(r) ==
  /\ req[r].pc = "bookings" /\ req[r].op = "decide"
  /\ UNCHANGED ledger
  /\ LET matching == Matching(req[r], Len(past))
     IN \/ \E o \in matching : Goes(r, "enter_decision", [bookings |-> Len(past), offered |-> o])
        \/ matching = {} /\ Ends(r, "refused", {})

Recorded(r, option) ==
  /\ req[r].pc = "enter_decision"
  /\ LET action == IF req[r].disposition = "accepted" THEN "MITIGATION_ACCEPTED" ELSE "MITIGATION_REJECTED"
     IN Ends(r, "answered", {}) /\ Appends(Entry(r, action, <<req[r].subject>>, option))

\* Mutant: the option is recorded as it was sent.
EnterAsSent(r) == Recorded(r, req[r].option)

EnterDecision(r) == Recorded(r, req[r].offered)

-----------------------------------------------------------------------------
ReadBookings(r) ==
  /\ req[r].pc = "bookings" /\ req[r].op # "decide"
  /\ UNCHANGED ledger
  /\ Goes(r, "rows", [bookings |-> Len(past)])

(* A board reads the activities once more, for its own rows, and then      *)
(* their logic.                                                            *)
ReadRows(r) ==
  /\ req[r].pc = "rows"
  /\ UNCHANGED ledger
  /\ Goes(r, "edges", [rows |-> Len(past)])

DerivedFor(q, edges) == Board(AsRead(q.hazards, q.bookings, edges), q.at, past[q.rows].activities)

CheckKey(r) ==
  /\ req[r].pc = "edges" /\ req[r].op = "acknowledge"
  /\ UNCHANGED ledger
  /\ Verified(r, req[r].key \in Keys(DerivedFor(req[r], Len(past))), "enter_ack", [edges |-> Len(past)])

EnterAck(r) ==
  /\ req[r].pc = "enter_ack"
  /\ Appends(Entry(r, "ISSUE_ACKNOWLEDGED", req[r].key, None))
  /\ Ends(r, "answered", {})

ReadIssues(r) ==
  /\ req[r].pc = "edges" /\ req[r].op = "issues"
  /\ UNCHANGED ledger
  /\ Goes(r, "join", [board |-> {[key |-> i.key, space |-> i.space] : i \in DerivedFor(req[r], Len(past))}])

Decisions == {"MITIGATION_ACCEPTED", "MITIGATION_REJECTED"}

Words(actions, subject) == {n \in DOMAIN ledger : ledger[n].action \in actions /\ ledger[n].subject = subject}

\* Mutant: the ledger is walked oldest first.
FirstWord(actions, subject) ==
  IF Words(actions, subject) = {} THEN None
  ELSE CHOOSE n \in Words(actions, subject) : \A m \in Words(actions, subject) : n <= m

(* The last word on a subject: the ledger is read newest first.            *)
LatestWord(actions, subject) == LatestOf(Words(actions, subject))

(* Each issue with who answered for it and what was decided for its space. *)
JoinIssues(r) ==
  /\ req[r].pc = "join"
  /\ UNCHANGED ledger
  /\ Ends(r, "answered",
          {[key |-> i.key, space |-> i.space,
                        acknowledged |-> LatestWord({"ISSUE_ACKNOWLEDGED"}, i.key),
                        decision |-> IF i.space = None THEN None ELSE LatestWord(Decisions, <<i.space>>)] :
                         i \in req[r].board})

-----------------------------------------------------------------------------
(* A proposal has a kind, and but for a hold pending verification a window *)
(* that ends after it starts; the others are refused before anything is    *)
(* read.                                                                   *)
proposed_windows == {None} \cup {w \in Windows : w.end > w.start}

AskPropose(r) ==
  \E code \in Codes, to \in proposed_windows, t \in AsOfs :
    Asks(r, "propose", [pc |-> "activities", at |-> t, code |-> code, to |-> to])

AskProposals(r) == Asks(r, "proposals", [pc |-> "activities", at |-> Now])

Row(activities, code) == {a \in activities : a.code = code}

ReadActivities(r) ==
  /\ req[r].pc = "activities"
  /\ UNCHANGED ledger
  /\ \/ req[r].op = "proposals" /\ Goes(r, "list", [rows |-> Len(past)])
     \/ req[r].op = "propose" /\ Row(latest.activities, req[r].code) # {}
        /\ Goes(r, "verdict", [rows |-> Len(past)])
     \/ req[r].op = "propose" /\ Row(latest.activities, req[r].code) = {} /\ Ends(r, "refused", {})

(* The engine's word on the window, under the hazards of a later reading   *)
(* and the rules bound to the activity.                                    *)
Verdict(h, t, a, window) ==
  LET w == engine_inputs(h, t)
  IN executability([w EXCEPT !.rules = for_activity(h, w, a)], a.space, window)

(* The successors planned to start before the proposed finish.             *)
Pushes(edges, activities, code, window) ==
  {e.succ : e \in {x \in edges : x.pred = code /\ window # None /\
                   \E s \in Row(activities, x.succ) : s.window # None /\ s.window.start < window.end}}

AskEngine(r) ==
  /\ req[r].pc = "verdict"
  /\ UNCHANGED ledger
  /\ LET a == CHOOSE x \in Row(past[req[r].rows].activities, req[r].code) : TRUE
     IN Goes(r, "pushes",
             [from |-> a.window, hazards |-> Len(past),
              verdict |-> IF req[r].to = None THEN None ELSE Verdict(hull, req[r].at, a, req[r].to)])

(* Who is pushed: by the logic read last, among the activities read first. *)
ReadPushes(r) ==
  /\ req[r].pc = "pushes"
  /\ UNCHANGED ledger
  /\ Goes(r, "enter_proposal",
          [proposal |-> [from |-> req[r].from, to |-> req[r].to, verdict |-> req[r].verdict,
                         pushes |-> Pushes(latest.edges, past[req[r].rows].activities, req[r].code, req[r].to)]])

EnterProposal(r) ==
  /\ req[r].pc = "enter_proposal"
  /\ Appends(Entry(r, "SCHEDULE_CHANGE_PROPOSED", <<req[r].code>>, req[r].proposal))
  /\ Goes(r, "list", [code |-> req[r].code])

\* Mutant: two windows are the same only to the instant.
same_instants(a, b) == a # None /\ a = b

(* Windows are compared by their days.                                     *)
same_days(a, b) ==
  /\ a # None /\ b # None
  /\ a.start \div DayLength = b.start \div DayLength
  /\ a.end \div DayLength = b.end \div DayLength

(* Where a proposal stands, against a schedule.                            *)
proposal_status(proposal, rows, withdrawn) ==
  CASE withdrawn -> "withdrawn"
    [] ~withdrawn /\ rows = {} -> "dropped"
    [] ~withdrawn /\ rows # {} ->
         LET a == CHOOSE x \in rows : TRUE
         IN CASE same_days(proposal.to, a.window) -> "reflected"
              [] ~same_days(proposal.to, a.window) /\ same_days(proposal.from, a.window) -> "open"
              [] OTHER -> "superseded"

Proposed == {n \in DOMAIN ledger : ledger[n].action = "SCHEDULE_CHANGE_PROPOSED"}
Withdrawn == {ledger[n].what : n \in {m \in DOMAIN ledger : ledger[m].action = "SCHEDULE_CHANGE_WITHDRAWN"}}

(* Every proposal in the ledger against the schedule read before it.       *)
proposal_rows(r) ==
  /\ req[r].pc = "list"
  /\ UNCHANGED ledger
  /\ Ends(r, "answered",
          {[seq |-> n,
            status |-> proposal_status(ledger[n].what,
                                     Row(past[req[r].rows].activities, ledger[n].subject[1]),
                                     n \in Withdrawn)] : n \in Proposed})

AskWithdraw(r) == \E seq \in DOMAIN ledger : Asks(r, "withdraw", [pc |-> "find", at |-> Now, of |-> seq])

IsProposal(seq) == seq \in Proposed

FindProposal(r) ==
  /\ req[r].pc = "find"
  /\ UNCHANGED ledger
  /\ Verified(r, IsProposal(req[r].of), "enter_withdrawal", [of |-> req[r].of])

EnterWithdrawal(r) ==
  /\ req[r].pc = "enter_withdrawal"
  /\ Appends(Entry(r, "SCHEDULE_CHANGE_WITHDRAWN", ledger[req[r].of].subject, req[r].of))
  /\ Ends(r, "answered", {})

-----------------------------------------------------------------------------
Init ==
  /\ past \in {<<h>> : h \in FirstHulls}
  /\ ledger \in Books
  /\ req = [r \in Requests |-> Idle]

Ask(r) ==
  /\ Room
  /\ req[r].pc = "idle" /\ \A o \in Requests : o < r => req[o].pc # "idle"
  /\ \/ AskDecision(r) \/ AskAck(r) \/ AskIssues(r)
     \/ AskPropose(r) \/ AskProposals(r) \/ AskWithdraw(r)

Step(r) ==
  \/ ReadHazards(r) \/ VerifyOption(r) \/ EnterDecision(r)
  \/ ReadBookings(r) \/ ReadRows(r) \/ CheckKey(r) \/ EnterAck(r) \/ ReadIssues(r) \/ JoinIssues(r)
  \/ ReadActivities(r) \/ AskEngine(r) \/ ReadPushes(r) \/ EnterProposal(r) \/ proposal_rows(r)
  \/ FindProposal(r) \/ EnterWithdrawal(r)

Next ==
  \/ ReplaceSchedule \/ RaiseHazard \/ ClearHazard
  \/ \E r \in Requests : Ask(r) \/ Step(r)

Spec == Init /\ [][Next]_vars
-----------------------------------------------------------------------------
(* A record says what the server's reads showed, in the order they are     *)
(* made, each between its request's arrival and its entry, and never what  *)
(* the client sent: the option with its effect was on offer for the        *)
(* hazards of one moment and the bookings of the same or a later one, the  *)
(* issue was on the board of such hazards and bookings and of rows and     *)
(* logic read after them, the window a proposal starts from was the        *)
(* activity's, the verdict the engine's of hazards read after it, and the  *)
(* work pushed was pushed by logic read last (record_decision,             *)
(* acknowledge_issue, propose_schedule_change).  It may be so of no one    *)
(* moment.  A withdrawal takes back a proposal that was in the ledger      *)
(* before it, of the same activity, and never an entry of another kind     *)
(* (withdraw_schedule_proposal).                                           *)
WasOffered(e) ==
  \E v \in e.asked .. e.entered : \E u \in v .. e.entered :
    e.what \in Offered(AsRead(v, u, u), e.at, e.subject[1])

WasOnTheBoard(e) ==
  \E v \in e.asked .. e.entered : \E u \in v .. e.entered : \E x \in u .. e.entered : \E y \in x .. e.entered :
    e.subject \in Keys(Board(AsRead(v, u, y), e.at, past[x].activities))

WasMeasured(e) ==
  \E u \in e.asked .. e.entered : \E a \in Row(past[u].activities, e.subject[1]) :
    /\ e.what.from = a.window
    /\ \E v \in u .. e.entered : \E y \in v .. e.entered :
         /\ e.what.to # None => e.what.verdict = Verdict(HullOf(v), e.at, a, e.what.to)
         /\ e.what.pushes = Pushes(past[y].edges, past[u].activities, e.subject[1], e.what.to)

WasTrue(e) ==
  CASE e.action \in Decisions -> WasOffered(e)
    [] e.action = "ISSUE_ACKNOWLEDGED" -> WasOnTheBoard(e)
    [] e.action = "SCHEDULE_CHANGE_PROPOSED" -> WasMeasured(e)
    [] e.action = "SCHEDULE_CHANGE_WITHDRAWN" ->
         e.what \in Proposed /\ ledger[e.what].subject = e.subject
    [] OTHER -> TRUE
RecordsWereTrue == [][\A n \in DOMAIN ledger' \ DOMAIN ledger : WasTrue(ledger'[n])]_vars

(* A proposal to move a planned activity stands open, or reflected where   *)
(* it names the days the activity already had, for as long as every        *)
(* schedule since it was asked for, and since the reader asked, keeps the  *)
(* activity on its days: another planner's entries, hazards and imports    *)
(* that move the work by hours leave it so (proposal_status, same_days).   *)
OpenUntilMoved ==
  \A r \in Requests : req[r].pc = "answered" /\ req[r].op \in {"propose", "proposals"} =>
    \A row \in req[r].answer :
      LET p == ledger[row.seq]
          Stayed == /\ p.what.from # None
                    /\ \A v \in {u \in DOMAIN past : (u >= p.asked \/ u >= req[r].asked) /\ u <= req[r].ended} :
                         LET rows == Row(past[v].activities, p.subject[1])
                         IN rows # {} /\ \A a \in rows :
                              /\ a.window # None
                              /\ a.window.start \div DayLength = p.what.from.start \div DayLength
                              /\ a.window.end \div DayLength = p.what.from.end \div DayLength
      IN Stayed /\ row.seq \notin Withdrawn => row.status \in {"open", "reflected"}

(* Whatever was entered before a reading began is in what it shows: an     *)
(* issue carries its latest acknowledgement and its space's latest         *)
(* decision, or one entered since, and a proposal withdrawn by then reads  *)
(* withdrawn, whatever the schedule says (issues, proposal_rows).          *)
LatestWordIsShown ==
  \A r \in Requests : req[r].pc = "answered" =>
    LET Said(actions, subject) == {n \in Words(actions, subject) : n <= req[r].known}
    IN /\ req[r].op = "issues" =>
            \A row \in req[r].answer :
              /\ \A n \in Said({"ISSUE_ACKNOWLEDGED"}, row.key) :
                   row.acknowledged # None /\ row.acknowledged >= n
              /\ row.space # None => \A n \in Said(Decisions, <<row.space>>) :
                   row.decision # None /\ row.decision >= n
       /\ req[r].op = "proposals" =>
            \A row \in req[r].answer :
              (\E n \in 1 .. req[r].known : ledger[n].action = "SCHEDULE_CHANGE_WITHDRAWN"
                                             /\ ledger[n].what = row.seq)
                => row.status = "withdrawn"
=============================================================================
