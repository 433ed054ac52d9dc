------------------------------- MODULE RunLog -------------------------------
(***************************************************************************)
(* The run-event log of one trial and the page that polls it: the events a *)
(* node wrapper emits (app/agent/instrument.py), the sink that numbers     *)
(* them and commits each (SqlRunEventSink), the view the service folds     *)
(* from log and checkpoint (CourtService.get_run_view), and the loop in    *)
(* api/static/run.html.                                                    *)
(*                                                                         *)
(* A graph run is a worker thread.  Its call holds the event loop until    *)
(* the worker is through or the budget expires; after that the worker goes *)
(* on, and the loop is free for polls and for a call that starts another   *)
(* worker on the same trial.                                               *)
(***************************************************************************)
EXTENDS Integers, Sequences, FiniteSets

CONSTANTS
  Nodes,        \* the nodes of the graph, in order
  Workers,      \* the worker threads that may run the graph at a time
  MaxRuns,      \* bound: graph runs made on the trial
  MaxFailures   \* bound: writes to the log the store refuses

ASSUME NodesAssumption ==
  Nodes \in Seq(STRING) /\ \E n \in DOMAIN Nodes : Nodes[n] = "execute"
ASSUME WorkersAssumption == IsFiniteSet(Workers)
ASSUME RunBoundsAssumption == MaxRuns \in Nat /\ MaxFailures \in Nat

VARIABLES
  log,       \* the committed rows, in the order of their commits
  saved,     \* the checkpoint: the node to run next and the status
  loop,      \* what the event loop is in: nothing, a call, a poll
  workers,   \* the graph runs under way
  page,      \* the page: what it shows and the poll it has under way
  runs,      \* history: graph runs made
  dropped,   \* history: events given up after lost races
  failures   \* history: events the store refused

vars == <<log, saved, loop, workers, page, runs, dropped, failures>>

-----------------------------------------------------------------------------
(***************************************************************************)
(* The graph runs.                                                         *)
(***************************************************************************)
SeqRetries == 2
End == Len(Nodes) + 1
Gate == CHOOSE n \in DOMAIN Nodes : Nodes[n] = "execute"

Event(kind, name) == [kind |-> kind, name |-> name]
Row(seq, event) == [seq |-> seq, event |-> event]

\* What a run of a node puts in the log.  The events of a plan's steps, which
\* the execute node writes between these two, are more of the same.
NodeEvents(n) == <<Event("node_started", Nodes[n]), Event("node_finished", Nodes[n])>>

Idle == [pc |-> "idle", at |-> 0, past |-> FALSE, awaited |-> FALSE, fails |-> FALSE,
           todo |-> <<>>, read |-> 0, tries |-> 0]

Init ==
  /\ log = <<>>
  /\ saved = [next |-> 0, status |-> "none"]
  /\ loop = "free"
  /\ workers = [w \in Workers |-> Idle]
  /\ page = [pc |-> "idle", shown |-> <<>>, last |-> 0, status |-> "none", rows |-> <<>>]
  /\ runs = 0 /\ dropped = 0 /\ failures = 0

Launch(w, n) ==
  /\ loop = "free" /\ workers[w] = Idle /\ runs < MaxRuns
  /\ loop' = "call" /\ runs' = runs + 1
  /\ workers' = [workers EXCEPT ![w] =
       [Idle EXCEPT !.pc = "node", !.at = n, !.past = (n >= Gate), !.awaited = TRUE]]
  /\ UNCHANGED <<log, page, dropped, failures>>

\* A run that is through; the thread of one nobody waits for ends.
Ended(w) ==
  IF workers[w].awaited
  THEN [Idle EXCEPT !.pc = "through", !.awaited = TRUE,
                    !.past = workers[w].past, !.fails = workers[w].fails]
  ELSE Idle

\* submit_change: a thread of its own, from the first node to the gate.
Start(w) ==
  /\ saved.next = 0
  /\ saved' = [saved EXCEPT !.next = 1]
  /\ Launch(w, 1)

\* A verdict resumes the thread from its checkpoint, at the gate or behind it.
Resume(w) ==
  /\ saved.next \in Gate..Len(Nodes)
  /\ UNCHANGED saved
  /\ Launch(w, saved.next)

\* The graph enters the node, or stops at its end or before execute.
EnterNode(w) ==
  LET n == workers[w].at IN
  /\ workers[w].pc = "node"
  /\ IF n = End \/ (n = Gate /\ ~workers[w].past)
     THEN workers' = [workers EXCEPT ![w] = Ended(w)]
     ELSE workers' = [workers EXCEPT ![w].pc = "emit", ![w].todo = NodeEvents(n)]
  /\ UNCHANGED <<log, saved, loop, page, runs, dropped, failures>>

-----------------------------------------------------------------------------
(***************************************************************************)
(* SqlRunEventSink.emit.                                                   *)
(***************************************************************************)
Seqs == {log[i].seq : i \in DOMAIN log}
MaxSeq == IF log = <<>> THEN 0 ELSE CHOOSE s \in Seqs : \A r \in Seqs : r <= s

\* The worker is done with the event, be it in the log or not.
Emitted(w) ==
  LET rest == Tail(workers[w].todo) IN
  workers' = [workers EXCEPT ![w] =
    IF rest = <<>> /\ workers[w].fails THEN Ended(w)
    ELSE [@ EXCEPT !.todo = rest, !.tries = 0, !.read = 0,
                   !.pc = IF rest = <<>> THEN "save" ELSE "emit"]]

ReadMax(w) ==
  /\ workers[w].pc = "emit"
  /\ workers' = [workers EXCEPT ![w].read = MaxSeq, ![w].pc = "insert"]
  /\ UNCHANGED <<log, saved, loop, page, runs, dropped, failures>>

\* A table without the unique constraint.
Insert_Unchecked(w) ==
  /\ workers[w].pc = "insert"
  /\ log' = Append(log, Row(workers[w].read + 1, Head(workers[w].todo)))
  /\ Emitted(w) /\ UNCHANGED <<saved, loop, page, runs, dropped, failures>>

\* A sink that does not retry.
Insert_Once(w) ==
  LET seq == workers[w].read + 1 IN
  /\ workers[w].pc = "insert"
  /\ IF seq \notin Seqs
     THEN log' = Append(log, Row(seq, Head(workers[w].todo))) /\ UNCHANGED dropped
     ELSE dropped' = dropped + 1 /\ UNCHANGED log
  /\ Emitted(w) /\ UNCHANGED <<saved, loop, page, runs, failures>>

\* The unique constraint refuses a number already taken: the sink reads the
\* maximum anew once, and then gives the event up.
Insert(w) ==
  LET seq == workers[w].read + 1 IN
  /\ workers[w].pc = "insert"
  /\ \/ /\ seq \notin Seqs
        /\ log' = Append(log, Row(seq, Head(workers[w].todo)))
        /\ Emitted(w) /\ UNCHANGED dropped
     \/ /\ seq \in Seqs /\ workers[w].tries + 1 < SeqRetries
        /\ workers' = [workers EXCEPT ![w].tries = @ + 1, ![w].pc = "emit"]
        /\ UNCHANGED <<log, dropped>>
     \/ /\ seq \in Seqs /\ workers[w].tries + 1 = SeqRetries
        /\ dropped' = dropped + 1
        /\ Emitted(w) /\ UNCHANGED log
  /\ UNCHANGED <<saved, loop, page, runs, failures>>

\* Any other failure of the store is logged and swallowed.
StoreFails(w) ==
  /\ workers[w].pc \in {"emit", "insert"} /\ failures < MaxFailures
  /\ failures' = failures + 1
  /\ Emitted(w)
  /\ UNCHANGED <<log, saved, loop, page, runs, dropped>>

\* An exception in the node: the wrapper still emits its last event.
NodeFails(w) ==
  LET todo == workers[w].todo IN
  /\ workers[w].pc = "emit" /\ workers[w].tries = 0 /\ ~workers[w].fails
  /\ Head(todo).kind # "node_started"
  /\ workers' = [workers EXCEPT ![w].fails = TRUE, ![w].todo = <<todo[Len(todo)]>>]
  /\ UNCHANGED <<log, saved, loop, page, runs, dropped, failures>>

\* The checkpoint after a node, with the status the node leaves.
StatusAfter(n) ==
  CASE Nodes[n] = "intake" -> {"open", "blocked"}
    [] Nodes[n] \in {"execute", "verify", "audit"} -> {"concluded"}
    [] OTHER -> {"open"}

Save(w) ==
  LET n == workers[w].at IN
  /\ workers[w].pc = "save"
  /\ \E status \in StatusAfter(n) :
       saved' = [next |-> n + 1, status |-> status]
  /\ workers' = [workers EXCEPT ![w].pc = "node", ![w].at = n + 1]
  /\ UNCHANGED <<log, loop, page, runs, dropped, failures>>

\* The call goes on when its worker is through: the start holds the trial for
\* review, a withdrawal writes its own status after the run's.
Return(w) ==
  /\ workers[w].awaited /\ workers[w].pc = "through"
  /\ loop' = "free"
  /\ workers' = [workers EXCEPT ![w] = Idle]
  /\ saved' \in IF workers[w].fails THEN {saved}
                ELSE IF workers[w].past THEN {saved, [saved EXCEPT !.status = "concluded"]}
                ELSE {[saved EXCEPT !.status = "open"]}
  /\ UNCHANGED <<log, page, runs, dropped, failures>>

\* The budget of the call expires.
Expire(w) ==
  /\ workers[w].awaited /\ workers[w].pc # "through"
  /\ loop' = "free"
  /\ workers' = [workers EXCEPT ![w].awaited = FALSE]
  /\ UNCHANGED <<log, saved, page, runs, dropped, failures>>

-----------------------------------------------------------------------------
(***************************************************************************)
(* The page.                                                               *)
(***************************************************************************)
Terminal == {"concluded", "blocked"}

\* The rows past a cursor, in their order.
RowsPast(rows, cursor) ==
  LET at == {i \in DOMAIN rows : rows[i].seq > cursor} IN
  [n \in 1..Cardinality(at) |->
     rows[CHOOSE i \in at : Cardinality({j \in at : j <= i}) = n]]

\* get_run_view reads the log first ...
ListAfter ==
  /\ loop = "free" /\ page.pc = "idle"
  /\ loop' = "poll"
  /\ page' = [page EXCEPT !.pc = "reading",
                !.rows = RowsPast(log, page.last)]
  /\ UNCHANGED <<log, saved, workers, runs, dropped, failures>>

\* ... and the checkpoint after it.
ReadState ==
  /\ page.pc = "reading"
  /\ loop' = "free"
  /\ page' = [page EXCEPT !.pc = "sent", !.status = saved.status]
  /\ UNCHANGED <<log, saved, workers, runs, dropped, failures>>

\* The page takes the rows it has not, moves its cursor, and goes on polling
\* unless the status it was sent is terminal.
Receive ==
  LET fresh == RowsPast(page.rows, page.last) IN
  /\ page.pc = "sent"
  /\ page' = [page EXCEPT !.rows = <<>>, !.shown = @ \o fresh,
                !.last = IF fresh = <<>> THEN @ ELSE fresh[Len(fresh)].seq,
                !.pc = IF page.status \in Terminal THEN "stopped" ELSE "idle"]
  /\ UNCHANGED <<log, saved, loop, workers, runs, dropped, failures>>

\* A page that gives up.
Miss_Stops ==
  /\ page.pc = "sent"
  /\ page' = [page EXCEPT !.pc = "closed", !.rows = <<>>, !.status = "none"]
  /\ UNCHANGED <<log, saved, loop, workers, runs, dropped, failures>>

\* A page whose cursor moves when it asks, not when it is answered.
Miss_MovesOn ==
  /\ page.pc = "sent"
  /\ page' = [page EXCEPT !.pc = "idle", !.rows = <<>>, !.status = "none",
                !.last = IF page.rows = <<>> THEN @ ELSE page.rows[Len(page.rows)].seq]
  /\ UNCHANGED <<log, saved, loop, workers, runs, dropped, failures>>

\* The answer is lost, or is an error: the page waits longer and polls again.
Miss ==
  /\ page.pc = "sent"
  /\ page' = [page EXCEPT !.pc = "idle", !.rows = <<>>, !.status = "none"]
  /\ UNCHANGED <<log, saved, loop, workers, runs, dropped, failures>>

-----------------------------------------------------------------------------
Progress(w) == EnterNode(w) \/ ReadMax(w) \/ Insert(w) \/ Save(w) \/ Return(w)
Fault(w) == StoreFails(w) \/ NodeFails(w) \/ Expire(w)

Next ==
  \/ \E w \in Workers : Start(w) \/ Resume(w) \/ Progress(w) \/ Fault(w)
  \/ ListAfter \/ ReadState \/ Receive \/ Miss

Spec == Init /\ [][Next]_vars

\* Threads and the event loop keep running, the open page keeps polling, and
\* not every one of its polls is lost.
Fairness ==
  /\ \A w \in Workers : WF_vars(Progress(w))
  /\ WF_vars(ListAfter) /\ WF_vars(ReadState) /\ SF_vars(Receive)

FairSpec == Spec /\ Fairness

-----------------------------------------------------------------------------
(***************************************************************************)
(* Properties.                                                             *)
(***************************************************************************)

\* The rows are numbered one by one in the order of their commits, so a cursor
\* that is past a row is past all the rows before it (models.py, "monotonic per
\* thread").
LogNumbered == \A i \in DOMAIN log : log[i].seq = i

\* What the page shows is the log up to its cursor, each event once and in the
\* order it was committed in, whichever workers wrote at the same time and
\* whichever answers were lost (run_event_sink.py, "in seq order").
NothingSkipped == page.shown = SubSeq(log, 1, page.last)

\* An event is given up only to rivals: each one lost stands for two events of
\* other workers that took its numbers (repositories.py, "One retry absorbs
\* the only realistic seq race").
DroppedToRivals == 2 * dropped <= (Cardinality(Workers) - 1) * Len(log)

\* A page left open comes to show all there is, unless it was told that the
\* trial is over.
PageCatchesUp == <>[](page.status \in Terminal \/ page.shown = log)
=============================================================================
