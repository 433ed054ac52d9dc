---------------------------- MODULE RunLogProofs ----------------------------
(***************************************************************************)
(* Theorems about RunLog, for every graph and any number of workers.       *)
(***************************************************************************)
EXTENDS RunLog, SequenceTheorems, FiniteSetTheorems, TLAPS

Statuses == {"none", "open", "blocked", "concluded"}
Events == [kind : {"node_started", "node_finished"}, name : {Nodes[n] : n \in DOMAIN Nodes}]
Rows == [seq : Nat, event : Events]
Busy == {"node", "emit", "insert", "save"}
WorkerStates ==
  [pc : Busy \cup {"idle", "through"}, at : 0..End, past : BOOLEAN, awaited : BOOLEAN,
   fails : BOOLEAN, todo : Seq(Events), read : Nat, tries : Nat]

\* What the numbering of the rows rests on.
TypeOK ==
  /\ log \in Seq(Rows)
  /\ saved \in [next : 0..End, status : Statuses]
  /\ workers \in [Workers -> WorkerStates]

\* A worker that writes has something to write, for a node of the graph.
WritesEvents ==
  \A w \in Workers :
    /\ workers[w].pc \in {"emit", "insert"} => workers[w].todo # <<>>
    /\ workers[w].pc \in {"emit", "insert", "save"} => workers[w].at \in DOMAIN Nodes
    /\ workers[w].pc = "node" => workers[w].at \in 1..End

\* A maximum once read is overtaken, never undone.
ReadsInLog == \A w \in Workers : workers[w].read \in 0..Len(log)

IInv == TypeOK /\ WritesEvents /\ ReadsInLog /\ LogNumbered

-----------------------------------------------------------------------------
LEMMA NodesAreStrings ==
  /\ Len(Nodes) \in Nat /\ DOMAIN Nodes = 1..Len(Nodes) /\ End = Len(Nodes) + 1
  /\ Gate \in DOMAIN Nodes
  BY NodesAssumption DEF End, Gate

LEMMA IdleIsState == Idle \in WorkerStates /\ Idle.pc = "idle" /\ Idle.read = 0
  <1>1. <<>> \in Seq(Events)
    OBVIOUS
  <1> QED BY <1>1, NodesAreStrings DEF Idle, WorkerStates

LEMMA NodeNumbers ==
  /\ 0 \in 0..End
  /\ \A n \in DOMAIN Nodes : n \in 1..End /\ n \in 0..End /\ n + 1 \in 1..End /\ n + 1 \in 0..End
  <1> DEFINE len == Len(Nodes)
  <1>1. len \in Nat /\ DOMAIN Nodes = 1..len /\ End = len + 1
    BY NodesAssumption DEF End
  <1> HIDE DEF len
  <1> QED BY <1>1

LEMMA LastIsMaximum ==
  ASSUME NEW n \in Nat \ {0}
  PROVE  n = CHOOSE s \in 1..n : \A r \in 1..n : r <= s
  <1> DEFINE m == CHOOSE s \in 1..n : \A r \in 1..n : r <= s
  <1>1. n \in 1..n /\ \A r \in 1..n : r <= n
    OBVIOUS
  <1>2. m \in 1..n /\ \A r \in 1..n : r <= m
    BY <1>1
  <1>3. m <= n /\ n <= m
    BY <1>1, <1>2
  <1> QED BY <1>2, <1>3

\* The numbers taken are those of the rows, 1 to the length of the log.
LEMMA NumbersTaken ==
  ASSUME log \in Seq(Rows), LogNumbered
  PROVE  /\ Len(log) \in Nat /\ Seqs = 1..Len(log) /\ MaxSeq = Len(log)
  <1>1. Len(log) \in Nat /\ DOMAIN log = 1..Len(log)
    OBVIOUS
  <1>2. Seqs = 1..Len(log)
    BY <1>1 DEF Seqs, LogNumbered
  <1>3. CASE log = <<>>
    BY <1>1, <1>2, <1>3 DEF MaxSeq
  <1>4. CASE log # <<>>
    <2>1. Len(log) \in Nat \ {0}
      BY <1>1, <1>4
    <2> QED BY <1>1, <1>2, <1>4, <2>1, LastIsMaximum DEF MaxSeq
  <1> QED BY <1>1, <1>2, <1>3, <1>4

\* A row under the next number keeps the log numbered, and every read in it.
LEMMA NumberedAppend ==
  ASSUME log \in Seq(Rows), LogNumbered, NEW event \in Events,
         log' = Append(log, Row(Len(log) + 1, event))
  PROVE  log' \in Seq(Rows) /\ LogNumbered' /\ Len(log') = Len(log) + 1
  <1>1. Row(Len(log) + 1, event) \in Rows
    BY DEF Row, Rows
  <1>2. /\ log' \in Seq(Rows) /\ Len(log') = Len(log) + 1 /\ DOMAIN log' = 1..(Len(log) + 1)
        /\ \A i \in 1..Len(log) : log'[i] = log[i]
        /\ log'[Len(log) + 1] = Row(Len(log) + 1, event)
    BY <1>1
  <1>3. \A i \in DOMAIN log' : log'[i].seq = i
    BY <1>2 DEF LogNumbered, Row
  <1> QED BY <1>2, <1>3 DEF LogNumbered

LEMMA InitInv == Init => IInv
  <1> SUFFICES ASSUME Init PROVE IInv
    OBVIOUS
  <1>1. log = <<>> /\ log \in Seq(Rows) /\ Len(log) = 0 /\ DOMAIN log = {}
    BY DEF Init
  <1>2. saved \in [next : 0..End, status : Statuses]
    BY NodeNumbers DEF Init, Statuses
  <1>3. workers \in [Workers -> WorkerStates] /\ \A w \in Workers : workers[w] = Idle
    BY IdleIsState DEF Init
  <1>4. TypeOK
    BY <1>1, <1>2, <1>3 DEF TypeOK
  <1>5. WritesEvents
    BY <1>3, IdleIsState DEF WritesEvents
  <1>6. ReadsInLog
    BY <1>1, <1>3, IdleIsState DEF ReadsInLog
  <1>7. LogNumbered
    BY <1>1 DEF LogNumbered
  <1> QED BY <1>4, <1>5, <1>6, <1>7 DEF IInv

\* A step that leaves the log alone and gives one worker a sound new state
\* keeps the invariant.
LEMMA WorkerKeeps ==
  ASSUME IInv, NEW w \in Workers, NEW s,
         workers' = [workers EXCEPT ![w] = s], UNCHANGED log,
         saved' \in [next : 0..End, status : Statuses],
         s \in WorkerStates, s.read \in 0..Len(log),
         s.pc \in {"emit", "insert"} => s.todo # <<>>,
         s.pc \in {"emit", "insert", "save"} => s.at \in DOMAIN Nodes,
         s.pc = "node" => s.at \in 1..End
  PROVE  IInv'
  <1>1. TypeOK'
    BY DEF IInv, TypeOK
  <1>2. \A v \in Workers : workers'[v] = IF v = w THEN s ELSE workers[v]
    BY DEF IInv, TypeOK
  <1>3. WritesEvents'
    BY <1>2 DEF IInv, WritesEvents
  <1>4. ReadsInLog'
    BY <1>2 DEF IInv, ReadsInLog
  <1>5. LogNumbered'
    BY DEF IInv, LogNumbered
  <1> QED BY <1>1, <1>3, <1>4, <1>5 DEF IInv

\* A step that leaves the log, the checkpoint and the workers alone.
LEMMA OthersKeep == IInv /\ UNCHANGED <<log, saved, workers>> => IInv'
  BY DEF IInv, TypeOK, WritesEvents, ReadsInLog, LogNumbered

\* The worker after an event is out of its hands.
LEMMA EmittedState ==
  ASSUME IInv, NEW w \in Workers, workers[w].pc \in {"emit", "insert"}, Emitted(w)
  PROVE  \E s \in WorkerStates :
           /\ workers' = [workers EXCEPT ![w] = s]
           /\ s.read = 0
           /\ s.pc \in {"emit", "insert"} => s.todo # <<>>
           /\ s.pc \in {"emit", "insert", "save"} => s.at \in DOMAIN Nodes
           /\ s.pc # "node"
  <1> DEFINE o == workers[w]
             rest == Tail(o.todo)
             t == [o EXCEPT !.todo = rest, !.tries = 0, !.read = 0,
                            !.pc = IF rest = <<>> THEN "save" ELSE "emit"]
  <1>1. o \in WorkerStates /\ o.todo # <<>> /\ o.at \in DOMAIN Nodes
    BY DEF IInv, TypeOK, WritesEvents
  <1>2. rest \in Seq(Events)
    BY <1>1 DEF WorkerStates
  <1>3. /\ t \in WorkerStates /\ t.read = 0 /\ t.todo = rest /\ t.at = o.at
        /\ t.pc = IF rest = <<>> THEN "save" ELSE "emit"
    BY <1>1, <1>2 DEF WorkerStates, Busy
  <1>4. Ended(w) \in WorkerStates /\ Ended(w).read = 0 /\ Ended(w).pc \in {"idle", "through"}
    BY <1>1, IdleIsState DEF Ended, WorkerStates, Idle
  <1>5. CASE rest = <<>> /\ o.fails
    BY <1>4, <1>5 DEF Emitted
  <1>6. CASE ~(rest = <<>> /\ o.fails)
    <2>1. workers' = [workers EXCEPT ![w] = t]
      BY <1>6 DEF Emitted
    <2> HIDE DEF t
    <2> QED BY <1>1, <1>3, <2>1
  <1> QED BY <1>5, <1>6

\* An event out of a worker's hands, with or without a row for it.
LEMMA EmittedKeeps ==
  ASSUME IInv, NEW w \in Workers, workers[w].pc \in {"emit", "insert"}, Emitted(w),
         UNCHANGED saved,
         \/ UNCHANGED log
         \/ \E event \in Events : log' = Append(log, Row(Len(log) + 1, event))
  PROVE  IInv'
  <1>1. PICK s \in WorkerStates :
           /\ workers' = [workers EXCEPT ![w] = s]
           /\ s.read = 0
           /\ s.pc \in {"emit", "insert"} => s.todo # <<>>
           /\ s.pc \in {"emit", "insert", "save"} => s.at \in DOMAIN Nodes
           /\ s.pc # "node"
    BY EmittedState
  <1>2. Len(log) \in Nat /\ saved \in [next : 0..End, status : Statuses]
    BY NumbersTaken DEF IInv, TypeOK
  <1>3. CASE UNCHANGED log
    <2>1. s.read \in 0..Len(log) /\ s \in WorkerStates
      BY <1>1, <1>2
    <2>2. saved' \in [next : 0..End, status : Statuses]
      BY <1>2
    <2> QED BY <1>1, <1>3, <2>1, <2>2, WorkerKeeps
  <1>4. CASE \E event \in Events : log' = Append(log, Row(Len(log) + 1, event))
    <2>1. log' \in Seq(Rows) /\ LogNumbered' /\ Len(log') = Len(log) + 1
      BY <1>4, NumberedAppend DEF IInv, TypeOK
    <2>2. TypeOK'
      BY <1>1, <1>2, <2>1 DEF IInv, TypeOK
    <2>3. \A v \in Workers : workers'[v] = IF v = w THEN s ELSE workers[v]
      BY <1>1 DEF IInv, TypeOK
    <2>4. WritesEvents'
      BY <1>1, <2>3 DEF IInv, WritesEvents
    <2>5. ReadsInLog'
      BY <1>1, <1>2, <2>1, <2>3 DEF IInv, ReadsInLog
    <2> QED BY <2>1, <2>2, <2>4, <2>5 DEF IInv
  <1> QED BY <1>3, <1>4

LEMMA StepKeeps == IInv /\ [Next]_vars => IInv'
  <1> SUFFICES ASSUME IInv, [Next]_vars PROVE IInv'
    OBVIOUS
  <1>1. /\ Len(log) \in Nat /\ Seqs = 1..Len(log) /\ MaxSeq = Len(log)
        /\ saved \in [next : 0..End, status : Statuses]
        /\ workers \in [Workers -> WorkerStates]
    BY NumbersTaken DEF IInv, TypeOK
  <1>2. ASSUME NEW w \in Workers, NEW n \in DOMAIN Nodes, Launch(w, n),
               saved' \in [next : 0..End, status : Statuses]
        PROVE  IInv'
    <2> DEFINE past == n >= Gate
               s == [Idle EXCEPT !.pc = "node", !.at = n, !.past = past, !.awaited = TRUE]
    <2>1. n \in 1..End /\ n \in 0..End /\ past \in BOOLEAN
      BY NodeNumbers
    <2>2. s \in WorkerStates /\ s.pc = "node" /\ s.at = n /\ s.read = 0
      <3> HIDE DEF past
      <3> QED BY <2>1, IdleIsState DEF WorkerStates, Idle, Busy
    <2>3. workers' = [workers EXCEPT ![w] = s] /\ UNCHANGED log
      BY <1>2 DEF Launch
    <2> HIDE DEF s
    <2>4. s.read \in 0..Len(log)
      BY <1>1, <2>2
    <2> QED BY <1>2, <2>1, <2>2, <2>3, <2>4, WorkerKeeps
  <1>3. ASSUME NEW w \in Workers, Start(w) PROVE IInv'
    <2>1. 1 \in DOMAIN Nodes /\ 1 \in 0..End
      BY NodesAreStrings, NodeNumbers
    <2>2. saved' \in [next : 0..End, status : Statuses]
      BY <1>1, <1>3, <2>1 DEF Start
    <2> QED BY <1>2, <1>3, <2>1, <2>2 DEF Start
  <1>4. ASSUME NEW w \in Workers, Resume(w) PROVE IInv'
    <2>1. saved.next \in DOMAIN Nodes
      BY <1>4, NodesAreStrings DEF Resume
    <2> QED BY <1>1, <1>2, <1>4, <2>1 DEF Resume
  <1>5. ASSUME NEW w \in Workers, NEW s \in WorkerStates,
               workers' = [workers EXCEPT ![w] = s], UNCHANGED <<log, saved>>,
               s.read \in 0..Len(log), s.pc \in {"idle", "through"}
        PROVE  IInv'
    <2>1. saved' \in [next : 0..End, status : Statuses]
      BY <1>1, <1>5
    <2> QED BY <1>5, <2>1, WorkerKeeps
  <1>6. \A w \in Workers : Ended(w) \in WorkerStates /\ Ended(w).read = 0
                           /\ Ended(w).pc \in {"idle", "through"}
    BY <1>1, IdleIsState DEF Ended, WorkerStates, Idle
  <1>7. ASSUME NEW w \in Workers, EnterNode(w) PROVE IInv'
    <2> DEFINE n == workers[w].at
               s == [workers[w] EXCEPT !.pc = "emit", !.todo = NodeEvents(n)]
    <2>1. n \in 1..End /\ workers[w] \in WorkerStates /\ workers[w].read \in 0..Len(log)
      BY <1>1, <1>7 DEF IInv, EnterNode, WritesEvents, ReadsInLog
    <2>2. CASE n = End \/ (n = Gate /\ ~workers[w].past)
      <3>1. workers' = [workers EXCEPT ![w] = Ended(w)] /\ UNCHANGED <<log, saved>>
        BY <1>7, <2>2 DEF EnterNode
      <3>2. Ended(w) \in WorkerStates /\ Ended(w).read \in 0..Len(log)
        BY <1>1, <1>6
      <3> QED BY <1>5, <1>6, <3>1, <3>2
    <2>3. CASE ~(n = End \/ (n = Gate /\ ~workers[w].past))
      <3>1. workers' = [workers EXCEPT ![w] = s] /\ UNCHANGED <<log, saved>>
        BY <1>1, <1>7, <2>3 DEF EnterNode
      <3>2. n \in DOMAIN Nodes
        BY <2>1, <2>3, NodesAreStrings
      <3>3. NodeEvents(n) \in Seq(Events) /\ NodeEvents(n) # <<>>
        <4>1. Event("node_started", Nodes[n]) \in Events /\ Event("node_finished", Nodes[n]) \in Events
          BY <3>2 DEF Event, Events
        <4> QED BY <4>1 DEF NodeEvents
      <3>4. /\ s \in WorkerStates /\ s.pc = "emit" /\ s.at = n
            /\ s.todo = NodeEvents(n) /\ s.read = workers[w].read
        BY <2>1, <3>3 DEF WorkerStates, Busy
      <3>5. saved' \in [next : 0..End, status : Statuses]
        BY <1>1, <3>1
      <3> HIDE DEF s
      <3> QED BY <1>1, <2>1, <3>1, <3>2, <3>3, <3>4, <3>5, WorkerKeeps
    <2> QED BY <2>2, <2>3
  <1>8. ASSUME NEW w \in Workers, ReadMax(w) PROVE IInv'
    <2> DEFINE s == [workers[w] EXCEPT !.read = MaxSeq, !.pc = "insert"]
    <2>1. workers[w] \in WorkerStates /\ workers[w].todo # <<>> /\ workers[w].at \in DOMAIN Nodes
      BY <1>1, <1>8 DEF IInv, ReadMax, WritesEvents
    <2>2. /\ s \in WorkerStates /\ s.pc = "insert" /\ s.at = workers[w].at
          /\ s.todo = workers[w].todo /\ s.read = Len(log)
      BY <1>1, <2>1 DEF WorkerStates, Busy
    <2>3. /\ workers' = [workers EXCEPT ![w] = s] /\ UNCHANGED log
          /\ saved' \in [next : 0..End, status : Statuses]
      BY <1>1, <1>8 DEF ReadMax
    <2>4. s.read \in 0..Len(log)
      BY <1>1, <2>2
    <2> HIDE DEF s
    <2> QED BY <2>1, <2>2, <2>3, <2>4, WorkerKeeps
  <1>9. ASSUME NEW w \in Workers, Insert(w) PROVE IInv'
    <2> DEFINE seq == workers[w].read + 1
    <2>1. /\ workers[w] \in WorkerStates /\ workers[w].todo # <<>> /\ workers[w].at \in DOMAIN Nodes
          /\ workers[w].pc \in {"emit", "insert"} /\ workers[w].read \in 0..Len(log)
      BY <1>1, <1>9 DEF IInv, Insert, WritesEvents, ReadsInLog
    <2>2. Head(workers[w].todo) \in Events
      BY <2>1 DEF WorkerStates
    <2>3. CASE seq \notin Seqs /\ log' = Append(log, Row(seq, Head(workers[w].todo))) /\ Emitted(w)
      <3>1. seq = Len(log) + 1
        BY <1>1, <2>1, <2>3
      <3>2. \E event \in Events : log' = Append(log, Row(Len(log) + 1, event))
        BY <2>2, <2>3, <3>1
      <3>3. UNCHANGED saved
        BY <1>9 DEF Insert
      <3> QED BY <2>1, <2>3, <3>2, <3>3, EmittedKeeps
    <2>4. CASE /\ workers' = [workers EXCEPT ![w].tries = @ + 1, ![w].pc = "emit"]
               /\ UNCHANGED log
      <3> DEFINE tries == workers[w].tries + 1
                 s == [workers[w] EXCEPT !.tries = tries, !.pc = "emit"]
      <3>0. tries \in Nat
        BY <2>1 DEF WorkerStates
      <3>1. /\ s \in WorkerStates /\ s.pc = "emit" /\ s.at = workers[w].at
            /\ s.todo = workers[w].todo /\ s.read = workers[w].read
        <4> HIDE DEF tries
        <4> QED BY <2>1, <3>0 DEF WorkerStates, Busy
      <3>2. /\ workers' = [workers EXCEPT ![w] = s]
            /\ saved' \in [next : 0..End, status : Statuses]
        BY <1>1, <1>9, <2>4 DEF Insert
      <3> HIDE DEF s
      <3> QED BY <2>1, <2>4, <3>1, <3>2, WorkerKeeps
    <2>5. CASE Emitted(w) /\ UNCHANGED log
      BY <1>9, <2>1, <2>5, EmittedKeeps DEF Insert
    <2> QED BY <1>9, <2>3, <2>4, <2>5 DEF Insert
  <1>10. ASSUME NEW w \in Workers, StoreFails(w) PROVE IInv'
    BY <1>10, EmittedKeeps DEF StoreFails
  <1>11. ASSUME NEW w \in Workers, NodeFails(w) PROVE IInv'
    <2> DEFINE todo == workers[w].todo
               s == [workers[w] EXCEPT !.fails = TRUE, !.todo = <<todo[Len(todo)]>>]
    <2>1. /\ workers[w] \in WorkerStates /\ todo # <<>> /\ workers[w].at \in DOMAIN Nodes
          /\ workers[w].pc = "emit" /\ workers[w].read \in 0..Len(log)
      BY <1>1, <1>11 DEF IInv, NodeFails, WritesEvents, ReadsInLog
    <2>2. todo[Len(todo)] \in Events
      BY <2>1 DEF WorkerStates
    <2>3. <<todo[Len(todo)]>> \in Seq(Events) /\ <<todo[Len(todo)]>> # <<>>
      BY <2>2
    <2>4. /\ s \in WorkerStates /\ s.pc = "emit" /\ s.at = workers[w].at
          /\ s.todo # <<>> /\ s.read = workers[w].read
      BY <2>1, <2>3 DEF WorkerStates
    <2>5. /\ workers' = [workers EXCEPT ![w] = s] /\ UNCHANGED log
          /\ saved' \in [next : 0..End, status : Statuses]
      BY <1>1, <1>11 DEF NodeFails
    <2> HIDE DEF s
    <2> QED BY <2>1, <2>4, <2>5, WorkerKeeps
  <1>12. ASSUME NEW w \in Workers, Save(w) PROVE IInv'
    <2> DEFINE n == workers[w].at
               s == [workers[w] EXCEPT !.pc = "node", !.at = n + 1]
    <2>1. workers[w] \in WorkerStates /\ n \in DOMAIN Nodes /\ workers[w].read \in 0..Len(log)
      BY <1>1, <1>12 DEF IInv, Save, WritesEvents, ReadsInLog
    <2>2. n + 1 \in 1..End /\ n + 1 \in 0..End
      BY <2>1, NodeNumbers
    <2>3. s \in WorkerStates /\ s.pc = "node" /\ s.at = n + 1 /\ s.read = workers[w].read
      BY <2>1, <2>2 DEF WorkerStates, Busy
    <2>4. workers' = [workers EXCEPT ![w] = s] /\ UNCHANGED log
      BY <1>1, <1>12 DEF Save
    <2>5. PICK status \in StatusAfter(n) : saved' = [next |-> n + 1, status |-> status]
      BY <1>12 DEF Save
    <2>6. status \in {"open", "blocked", "concluded"}
      BY <2>5 DEF StatusAfter
    <2>7. saved' \in [next : 0..End, status : Statuses]
      BY <2>2, <2>5, <2>6 DEF Statuses
    <2> HIDE DEF s
    <2> QED BY <2>1, <2>2, <2>3, <2>4, <2>7, WorkerKeeps
  <1>13. ASSUME NEW w \in Workers, Return(w) PROVE IInv'
    <2>1. saved' \in [next : 0..End, status : Statuses]
      BY <1>1, <1>13 DEF Return, Statuses
    <2>2. workers' = [workers EXCEPT ![w] = Idle] /\ UNCHANGED log
      BY <1>13 DEF Return
    <2>3. Idle.read \in 0..Len(log)
      BY <1>1, IdleIsState
    <2> QED BY <2>1, <2>2, <2>3, IdleIsState, WorkerKeeps
  <1>14. ASSUME NEW w \in Workers, Expire(w) PROVE IInv'
    <2> DEFINE s == [workers[w] EXCEPT !.awaited = FALSE]
    <2>1. workers[w] \in WorkerStates /\ workers[w].read \in 0..Len(log)
      BY <1>1 DEF IInv, ReadsInLog
    <2>2. /\ s \in WorkerStates /\ s.pc = workers[w].pc /\ s.at = workers[w].at
          /\ s.todo = workers[w].todo /\ s.read = workers[w].read
      BY <2>1 DEF WorkerStates
    <2>3. /\ workers' = [workers EXCEPT ![w] = s] /\ UNCHANGED log
          /\ saved' \in [next : 0..End, status : Statuses]
      BY <1>1, <1>14 DEF Expire
    <2> HIDE DEF s
    <2> QED BY <2>1, <2>2, <2>3, WorkerKeeps DEF IInv, WritesEvents
  <1>15. CASE ListAfter \/ ReadState \/ Receive \/ Miss
    BY <1>15, OthersKeep DEF ListAfter, ReadState, Receive, Miss
  <1>16. CASE UNCHANGED vars
    BY <1>16, OthersKeep DEF vars
  <1> QED BY <1>3, <1>4, <1>7, <1>8, <1>9, <1>10, <1>11, <1>12, <1>13, <1>14, <1>15, <1>16
             DEF Next, Progress, Fault

\* The rows of the log are numbered one by one in the order of their commits,
\* for any number of workers that emit at the same time, whatever they read
\* before: no two rows share a number and no number is left out.
THEOREM LogIsNumbered == Spec => []LogNumbered
  <1>1. Init => IInv
    BY InitInv
  <1>2. IInv /\ [Next]_vars => IInv'
    BY StepKeeps
  <1>3. IInv => LogNumbered
    BY DEF IInv
  <1> QED BY <1>1, <1>2, <1>3, PTL DEF Spec
-----------------------------------------------------------------------------
(***************************************************************************)
(* The page.                                                               *)
(***************************************************************************)

\* Numbers that are taken off a stretch of consecutive ones.
LEMMA PlaceInStretch ==
  ASSUME NEW lo \in Int, NEW hi \in Int, NEW n \in 1..(hi - lo + 1)
  PROVE  (CHOOSE i \in lo..hi : Cardinality({j \in lo..hi : j <= i}) = n) = lo + n - 1
  <1>1. ASSUME NEW i \in lo..hi
        PROVE  Cardinality({j \in lo..hi : j <= i}) = i - lo + 1
    <2>1. {j \in lo..hi : j <= i} = lo..i
      OBVIOUS
    <2>2. i \in Int /\ ~(lo > i)
      OBVIOUS
    <2>3. Cardinality(lo..i) = i - lo + 1
      BY <2>2, FS_Interval
    <2> QED BY <2>1, <2>3
  <1> DEFINE Place(i) == Cardinality({j \in lo..hi : j <= i})
  <1>2. \A i \in lo..hi : Place(i) = i - lo + 1
    BY <1>1
  <1>3. lo + n - 1 \in lo..hi /\ (lo + n - 1) - lo + 1 = n
    OBVIOUS
  <1> HIDE DEF Place
  <1>4. \A i \in lo..hi : Place(i) = n <=> i = lo + n - 1
    BY <1>2
  <1>5. (CHOOSE i \in lo..hi : Place(i) = n) = lo + n - 1
    BY <1>3, <1>4
  <1> QED BY <1>5 DEF Place

\* Of rows numbered one by one, those past a cursor are the rest of them.
LEMMA PastIsRest ==
  ASSUME NEW rows \in Seq(Rows), NEW from \in Nat, NEW cursor \in Nat,
         \A i \in 1..Len(rows) : rows[i].seq = from + i,
         from <= cursor, cursor <= from + Len(rows)
  PROVE  RowsPast(rows, cursor) = SubSeq(rows, cursor - from + 1, Len(rows))
  <1> DEFINE len == Len(rows)
             k == cursor - from
             at == {i \in DOMAIN rows : rows[i].seq > cursor}
  <1>1. len \in Nat /\ k \in 0..len /\ DOMAIN rows = 1..len
        /\ \A i \in 1..len : rows[i] \in Rows
    BY LenProperties, ElementOfSeq
  <1>2. at = (k + 1)..len
    <2>1. \A i \in 1..len : rows[i].seq > cursor <=> i >= k + 1
      BY <1>1
    <2> HIDE DEF len, k
    <2> QED BY <1>1, <2>1
  <1>3. Cardinality(at) = len - k
    <2> HIDE DEF len, k, at
    <2>1. k + 1 \in Int /\ len \in Int
      BY <1>1
    <2>2. Cardinality((k + 1)..len) = IF k + 1 > len THEN 0 ELSE len - (k + 1) + 1
      BY <2>1, FS_Interval
    <2>3. k \in Int /\ k <= len
      BY <1>1
    <2>4. CASE k + 1 > len
      BY <1>2, <2>1, <2>2, <2>3, <2>4
    <2>5. CASE ~(k + 1 > len)
      BY <1>2, <2>1, <2>2, <2>3, <2>5
    <2> QED BY <2>4, <2>5
  <1> DEFINE Nth(n) == CHOOSE i \in at : Cardinality({j \in at : j <= i}) = n
  <1>4. ASSUME NEW n \in 1..(len - k) PROVE Nth(n) = k + n
    <2> HIDE DEF len, k, at
    <2>1. k + 1 \in Int /\ len \in Int /\ n \in 1..(len - (k + 1) + 1)
      BY <1>1
    <2>2. (CHOOSE i \in (k + 1)..len : Cardinality({j \in (k + 1)..len : j <= i}) = n)
            = (k + 1) + n - 1
      BY <2>1, PlaceInStretch
    <2>3. (k + 1) + n - 1 = k + n
      BY <1>1
    <2> QED BY <1>2, <2>2, <2>3
  <1>5. RowsPast(rows, cursor) = [n \in 1..Cardinality(at) |-> rows[Nth(n)]]
    BY DEF RowsPast
  <1>6. RowsPast(rows, cursor) = [n \in 1..(len - k) |-> rows[k + n]]
    <2> HIDE DEF len, k, at, Nth
    <2> QED BY <1>3, <1>4, <1>5
  <1>7. SubSeq(rows, k + 1, len) = [n \in 1..(len - k) |-> rows[k + n]]
    <2> DEFINE rest == SubSeq(rows, k + 1, len)
    <2>1. rest = [n \in 1..(1 + len - (k + 1)) |-> rows[n + (k + 1) - 1]]
      BY <1>1
    <2> HIDE DEF len, k, rest
    <2>2. 1 + len - (k + 1) = len - k /\ \A n \in 1..(len - k) : n + (k + 1) - 1 = k + n
      BY <1>1
    <2> QED BY <2>1, <2>2 DEF rest
  <1> QED BY <1>6, <1>7

PageStates ==
  [pc : {"idle", "reading", "sent", "stopped"}, shown : Seq(Rows), last : Nat,
   status : Statuses, rows : Seq(Rows)]

\* The page shows the log up to its cursor, and what it is being sent goes on
\* from there, up to where the log was when it was read.
PageInv ==
  /\ page \in PageStates
  /\ page.last <= Len(log)
  /\ NothingSkipped
  /\ page.pc \in {"reading", "sent"} =>
       \E m \in page.last..Len(log) : page.rows = SubSeq(log, page.last + 1, m)

\* A stretch of the log stays what it is.
LEMMA StretchKept ==
  ASSUME NEW s \in Seq(Rows), NEW row \in Rows, NEW a \in Nat \ {0}, NEW b \in 0..Len(s)
  PROVE  SubSeq(Append(s, row), a, b) = SubSeq(s, a, b)
  <1> DEFINE t == Append(s, row)
  <1>1. Len(s) \in Nat /\ \A i \in 1..Len(s) : t[i] = s[i]
    BY LenProperties, AppendProperties
  <1>2. /\ SubSeq(t, a, b) = [i \in 1..(1 + b - a) |-> t[i + a - 1]]
        /\ SubSeq(s, a, b) = [i \in 1..(1 + b - a) |-> s[i + a - 1]]
    BY <1>1
  <1> HIDE DEF t
  <1>3. \A i \in 1..(1 + b - a) : i + a - 1 \in 1..Len(s)
    BY <1>1
  <1>4. \A i \in 1..(1 + b - a) : t[i + a - 1] = s[i + a - 1]
    BY <1>1, <1>3
  <1>5. [i \in 1..(1 + b - a) |-> t[i + a - 1]] = [i \in 1..(1 + b - a) |-> s[i + a - 1]]
    BY <1>4
  <1> QED BY <1>2, <1>5 DEF t

\* A stretch of a numbered log is numbered from where it starts.
LEMMA StretchNumbered ==
  ASSUME log \in Seq(Rows), LogNumbered, NEW a \in Nat, NEW m \in a..Len(log)
  PROVE  /\ SubSeq(log, a + 1, m) \in Seq(Rows) /\ Len(SubSeq(log, a + 1, m)) = m - a
         /\ \A i \in 1..(m - a) : SubSeq(log, a + 1, m)[i].seq = a + i
  <1> DEFINE part == SubSeq(log, a + 1, m)
  <1>1. /\ Len(log) \in Nat /\ \A i \in 1..Len(log) : log[i] \in Rows /\ log[i].seq = i
    BY LenProperties, ElementOfSeq DEF LogNumbered
  <1>2. a + 1 \in Int /\ m \in Int /\ \A i \in (a + 1)..m : log[i] \in Rows
    BY <1>1
  <1>3. /\ part \in Seq(Rows) /\ Len(part) = IF a + 1 <= m THEN m - (a + 1) + 1 ELSE 0
        /\ \A i \in 1..m - (a + 1) + 1 : part[i] = log[a + 1 + i - 1]
    BY <1>2, SubSeqProperties
  <1> HIDE DEF part
  <1>4. Len(part) = m - a
    <2>1. m \in Int /\ a \in Int /\ a <= m
      BY <1>1
    <2>2. CASE a + 1 <= m
      BY <1>3, <2>1, <2>2
    <2>3. CASE ~(a + 1 <= m)
      BY <1>3, <2>1, <2>3
    <2> QED BY <2>2, <2>3
  <1>5. ASSUME NEW i \in 1..(m - a) PROVE part[i].seq = a + i
    <2>1. i \in 1..m - (a + 1) + 1 /\ a + 1 + i - 1 = a + i /\ a + i \in 1..Len(log)
      BY <1>1
    <2> QED BY <1>1, <1>3, <2>1
  <1> QED BY <1>3, <1>4, <1>5 DEF part

LEMMA InitPage == Init => PageInv
  <1> SUFFICES ASSUME Init PROVE PageInv
    OBVIOUS
  <1>1. log = <<>> /\ Len(log) = 0 /\ <<>> \in Seq(Rows)
    BY DEF Init
  <1>2. page \in PageStates /\ page.last = 0 /\ page.shown = <<>> /\ page.pc = "idle"
    BY <1>1 DEF Init, PageStates, Statuses
  <1>3. SubSeq(log, 1, 0) = <<>>
    BY <1>1
  <1> QED BY <1>1, <1>2, <1>3 DEF PageInv, NothingSkipped

\* The log only grows, by one row at a time.
LEMMA LogGrows ==
  ASSUME IInv, [Next]_vars
  PROVE  \/ UNCHANGED log
         \/ /\ \E event \in Events : log' = Append(log, Row(Len(log) + 1, event))
            /\ UNCHANGED page
  <1>1. /\ Len(log) \in Nat /\ Seqs = 1..Len(log) /\ workers \in [Workers -> WorkerStates]
    BY NumbersTaken DEF IInv, TypeOK
  <1>2. ASSUME NEW w \in Workers, Insert(w), ~UNCHANGED log
        PROVE  \E event \in Events : log' = Append(log, Row(Len(log) + 1, event))
    <2>1. /\ workers[w] \in WorkerStates /\ workers[w].todo # <<>>
          /\ workers[w].read \in 0..Len(log)
      BY <1>1, <1>2 DEF IInv, Insert, WritesEvents, ReadsInLog
    <2>2. Head(workers[w].todo) \in Events
      BY <2>1 DEF WorkerStates
    <2>3. /\ workers[w].read + 1 \notin Seqs
          /\ log' = Append(log, Row(workers[w].read + 1, Head(workers[w].todo)))
      BY <1>2 DEF Insert
    <2>4. workers[w].read + 1 = Len(log) + 1
      BY <1>1, <2>1, <2>3
    <2> QED BY <2>2, <2>3, <2>4
  <1> QED
    BY <1>2 DEF Next, Progress, Fault, Start, Resume, Launch, EnterNode, ReadMax, Insert, Save,
      Return, StoreFails, NodeFails, Expire, ListAfter, ReadState, Receive, Miss, vars

\* While the log grows, a page that does nothing has the same to go on.
LEMMA GrowthKeepsPage ==
  ASSUME IInv, PageInv, UNCHANGED page,
         \/ UNCHANGED log
         \/ \E event \in Events : log' = Append(log, Row(Len(log) + 1, event))
  PROVE  PageInv'
  <1>1. CASE UNCHANGED log
    BY <1>1 DEF PageInv, NothingSkipped
  <1>2. ASSUME NEW event \in Events, log' = Append(log, Row(Len(log) + 1, event)) PROVE PageInv'
    <2> DEFINE row == Row(Len(log) + 1, event)
    <2>1. log \in Seq(Rows) /\ row \in Rows /\ Len(log) \in Nat
      BY DEF IInv, TypeOK, Row, Rows
    <2> HIDE DEF row
    <2>2. Len(log') = Len(log) + 1 /\ log' = Append(log, row)
      BY <1>2, <2>1, AppendProperties DEF row
    <2>3. page.last \in 0..Len(log) /\ page.last \in Nat /\ page.last + 1 \in Nat \ {0}
      BY <2>1 DEF PageInv, PageStates
    <2>4. NothingSkipped'
      BY <2>1, <2>2, <2>3, StretchKept DEF PageInv, NothingSkipped
    <2>5. ASSUME NEW m \in page.last..Len(log)
          PROVE  m \in page.last..Len(log') /\ SubSeq(log', page.last + 1, m) = SubSeq(log, page.last + 1, m)
      <3>1. m \in 0..Len(log) /\ m \in page.last..(Len(log) + 1)
        BY <2>1, <2>3
      <3> QED BY <2>1, <2>2, <2>3, <3>1, StretchKept
    <2>6. (page.pc \in {"reading", "sent"} =>
             \E m \in page.last..Len(log) : page.rows = SubSeq(log, page.last + 1, m))'
      BY <2>5 DEF PageInv
    <2>7. page.last <= Len(log')
      BY <2>1, <2>2, <2>3
    <2> QED BY <2>4, <2>6, <2>7 DEF PageInv
  <1> QED BY <1>1, <1>2

LEMMA NextPage == IInv /\ PageInv /\ [Next]_vars => PageInv'
  <1> SUFFICES ASSUME IInv, PageInv, [Next]_vars PROVE PageInv'
    OBVIOUS
  <1> DEFINE last == page.last
  <1>1. /\ log \in Seq(Rows) /\ LogNumbered /\ Len(log) \in Nat /\ page \in PageStates
        /\ last \in 0..Len(log) /\ last \in Nat /\ page.shown = SubSeq(log, 1, last)
        /\ \A i \in 1..Len(log) : log[i].seq = 0 + i
        /\ <<>> \in Seq(Rows)
    BY LenProperties DEF IInv, TypeOK, PageInv, PageStates, NothingSkipped, LogNumbered
  <1>2. CASE ListAfter
    <2>1. RowsPast(log, last) = SubSeq(log, last - 0 + 1, Len(log))
      <3> HIDE DEF last
      <3>1. 0 \in Nat /\ 0 <= last /\ last <= 0 + Len(log)
        BY <1>1
      <3> QED BY <1>1, <3>1, PastIsRest
    <2>2. last - 0 + 1 = last + 1
      BY <1>1
    <2>3. RowsPast(log, last) = SubSeq(log, last + 1, Len(log)) /\ Len(log) \in last..Len(log)
      <3> HIDE DEF last
      <3> QED BY <1>1, <2>1, <2>2
    <2>4. SubSeq(log, last + 1, Len(log)) \in Seq(Rows)
      BY <1>1, <2>3, StretchNumbered
    <2>5. /\ page' \in PageStates /\ page'.last = last /\ page'.shown = page.shown
          /\ page'.rows = SubSeq(log, last + 1, Len(log)) /\ UNCHANGED log
      BY <1>1, <1>2, <2>3, <2>4 DEF ListAfter, PageStates
    <2> QED BY <1>1, <2>3, <2>5 DEF PageInv, NothingSkipped
  <1>3. CASE ReadState
    <2>1. saved.status \in Statuses
      BY DEF IInv, TypeOK
    <2>2. /\ page' \in PageStates /\ page'.last = last /\ page'.shown = page.shown
          /\ page'.rows = page.rows /\ page.pc = "reading" /\ UNCHANGED log
      BY <1>1, <1>3, <2>1 DEF ReadState, PageStates
    <2> QED BY <1>1, <2>2 DEF PageInv, NothingSkipped
  <1>4. CASE Receive
    <2> DEFINE fresh == RowsPast(page.rows, last)
    <2>1. PICK m \in last..Len(log) : page.rows = SubSeq(log, last + 1, m)
      BY <1>4 DEF Receive, PageInv
    <2>2. /\ page.rows \in Seq(Rows) /\ Len(page.rows) = m - last
          /\ \A i \in 1..Len(page.rows) : page.rows[i].seq = last + i
      <3> HIDE DEF last
      <3> QED BY <1>1, <2>1, StretchNumbered
    <2> HIDE DEF last
    <2>3. fresh = page.rows
      <3>1. last <= last + Len(page.rows) /\ last <= last
        BY <1>1, <2>2
      <3>2. fresh = SubSeq(page.rows, last - last + 1, Len(page.rows))
        BY <1>1, <2>2, <3>1, PastIsRest
      <3>3. last - last + 1 = 1
        BY <1>1
      <3> QED BY <2>2, <3>2, <3>3, SubSeqFull
    <2>4. page.shown \o fresh = SubSeq(log, 1, m)
      <3>1. 1 \in 1..(Len(log) + 1) /\ last \in (1 - 1)..Len(log)
        BY <1>1
      <3> QED BY <1>1, <2>1, <2>3, <3>1, ConcatAdjacentSubSeq
    <2>5. (IF fresh = <<>> THEN last ELSE fresh[Len(fresh)].seq) = m
      <3>1. m \in Int /\ last \in Int /\ last <= m
        BY <1>1
      <3>2. CASE fresh = <<>>
        <4>1. Len(page.rows) = 0
          BY <2>3, <3>2
        <4> QED BY <2>2, <3>1, <3>2, <4>1
      <3>3. CASE fresh # <<>>
        <4>1. Len(page.rows) # 0
          BY <2>2, <2>3, <3>3, EmptySeq
        <4>2. Len(page.rows) \in 1..Len(page.rows) /\ last + Len(page.rows) = m
          BY <2>2, <3>1, <4>1
        <4> QED BY <2>2, <2>3, <3>3, <4>2
      <3> QED BY <3>2, <3>3
    <2>6. page.shown \o fresh \in Seq(Rows) /\ m \in Nat /\ m <= Len(log)
      BY <1>1, <2>2, <2>3, ConcatProperties DEF PageStates
    <2> HIDE DEF fresh
    <2>7. page' = [page EXCEPT !.rows = <<>>, !.shown = @ \o fresh,
                      !.last = IF fresh = <<>> THEN last ELSE fresh[Len(fresh)].seq,
                      !.pc = IF page.status \in Terminal THEN "stopped" ELSE "idle"]
      BY <1>4 DEF Receive, fresh, last
    <2>8. /\ page' \in PageStates /\ page'.last = m /\ page'.shown = SubSeq(log, 1, m)
          /\ page'.pc \in {"stopped", "idle"}
      <3> DEFINE pc == IF page.status \in Terminal THEN "stopped" ELSE "idle"
                 shown == page.shown \o fresh
      <3>1. pc \in {"stopped", "idle"}
        OBVIOUS
      <3> HIDE DEF pc
      <3>2. page' = [page EXCEPT !.rows = <<>>, !.shown = shown, !.last = m, !.pc = pc]
        BY <2>5, <2>7 DEF pc
      <3> HIDE DEF shown
      <3>3. shown \in Seq(Rows) /\ shown = SubSeq(log, 1, m)
        BY <2>4, <2>6 DEF shown
      <3> QED BY <1>1, <2>6, <3>1, <3>2, <3>3 DEF PageStates
    <2>9. UNCHANGED log
      BY <1>4 DEF Receive
    <2> QED BY <2>6, <2>8, <2>9 DEF PageInv, NothingSkipped
  <1>5. CASE Miss
    <2>1. /\ page' \in PageStates /\ page'.last = last /\ page'.shown = page.shown
          /\ page'.pc = "idle" /\ UNCHANGED log
      <3> HIDE DEF last
      <3>1. page.last = last
        BY DEF last
      <3> QED BY <1>1, <1>5, <3>1 DEF Miss, PageStates, Statuses
    <2> QED BY <1>1, <2>1 DEF PageInv, NothingSkipped
  <1>6. CASE UNCHANGED page
    BY <1>6, LogGrows, GrowthKeepsPage
  <1>7. ASSUME NEW w \in Workers, Start(w) \/ Resume(w) \/ Progress(w) \/ Fault(w)
        PROVE  UNCHANGED page
    BY <1>7 DEF Progress, Fault, Start, Resume, Launch, EnterNode, ReadMax, Insert, Save,
      Return, StoreFails, NodeFails, Expire
  <1> QED BY <1>2, <1>3, <1>4, <1>5, <1>6, <1>7 DEF Next, vars

\* The page shows every event of the log up to its cursor once and in order,
\* whichever workers write while it polls and whichever answers it misses
\* (static/run.html, list_after).
THEOREM PageSkipsNothing == Spec => []NothingSkipped
  <1>1. PageInv => NothingSkipped
    BY DEF PageInv
  <1> QED BY <1>1, InitInv, StepKeeps, InitPage, NextPage, PTL DEF Spec

-----------------------------------------------------------------------------
(***************************************************************************)
(* The lost events.  Every lost race is blamed on the row that took the    *)
(* number, which is another worker's; no worker blames a row twice, since  *)
(* it reads a later maximum before it tries again.                         *)
(***************************************************************************)

\* The workers on the second of their two tries.
Retrying == {w \in Workers : workers[w].tries # 0}

\* Who wrote each row, and which worker blames which row.
Blame(author, blamed) ==
  /\ author \in [1..Len(log) -> Workers]
  /\ blamed \in SUBSET (Workers \X (1..Len(log)))
  /\ \A w \in Workers, i \in 1..Len(log) : <<w, i>> \in blamed => author[i] # w
  /\ \A w \in Workers : workers[w].pc = "insert" =>
       \A i \in 1..Len(log) : i > workers[w].read => author[i] # w /\ <<w, i>> \notin blamed
  /\ Cardinality(blamed) >= 2 * dropped + Cardinality(Retrying)

RivalsInv ==
  /\ dropped \in Nat
  /\ \A w \in Workers : workers[w].tries \in 0..1
  /\ \E author, blamed : Blame(author, blamed)

LEMMA RetryingFinite ==
  IsFiniteSet(Retrying) /\ Cardinality(Retrying) \in Nat
  <1>1. Retrying \in SUBSET Workers
    BY DEF Retrying
  <1> QED BY <1>1, WorkersAssumption, FS_Subset, FS_CardinalityType

LEMMA BlamedFinite ==
  ASSUME NEW n \in Nat, NEW blamed \in SUBSET (Workers \X (1..n))
  PROVE  IsFiniteSet(blamed) /\ Cardinality(blamed) \in Nat
  <1>1. IsFiniteSet(1..n)
    BY FS_Interval
  <1>2. IsFiniteSet(Workers \X (1..n))
    BY <1>1, WorkersAssumption, FS_Product
  <1> QED BY <1>2, FS_Subset, FS_CardinalityType

\* Each row is blamed by at most all workers but its author.
LEMMA BlameBounded ==
  ASSUME NEW n \in Nat, NEW author \in [1..n -> Workers],
         NEW blamed \in SUBSET (Workers \X (1..n)),
         \A w \in Workers, i \in 1..n : <<w, i>> \in blamed => author[i] # w
  PROVE  Cardinality(blamed) <= (Cardinality(Workers) - 1) * n
  <1> DEFINE all == Workers \X (1..n)
             own == {<<author[i], i>> : i \in 1..n}
             f == [i \in 1..n |-> <<author[i], i>>]
  <1>1. IsFiniteSet(1..n) /\ Cardinality(1..n) = n
    BY FS_Interval
  <1>2. IsFiniteSet(all) /\ Cardinality(all) = Cardinality(Workers) * n
    BY <1>1, WorkersAssumption, FS_Product
  <1>3. IsFiniteSet(own) /\ Cardinality(own) = n
    <2>1. f \in Bijection(1..n, own)
      BY DEF Bijection, Injection, Surjection, IsInjective
    <2>2. ExistsBijection(1..n, own)
      BY <2>1 DEF ExistsBijection
    <2> QED BY <1>1, <2>2, FS_Bijection
  <1>4. own \subseteq all /\ all \cap own = own
    OBVIOUS
  <1>6. blamed \in SUBSET (all \ own)
    OBVIOUS
  <1> HIDE DEF all, own, f
  <1>5. IsFiniteSet(all \ own) /\ Cardinality(all \ own) = Cardinality(all) - n
    <2>1. /\ IsFiniteSet(all \ own)
          /\ Cardinality(all \ own) = Cardinality(all) - Cardinality(all \cap own)
      BY <1>2, FS_Difference
    <2> QED BY <1>3, <1>4, <2>1
  <1>7. Cardinality(blamed) <= Cardinality(all \ own) /\ Cardinality(blamed) \in Nat
    BY <1>5, <1>6, FS_Subset, FS_CardinalityType
  <1>8. Cardinality(Workers) \in Nat
    BY WorkersAssumption, FS_CardinalityType
  <1> DEFINE c == Cardinality(Workers)
  <1>9. c * n - n = (c - 1) * n
    <2> HIDE DEF c
    <2> QED BY <1>8 DEF c
  <1> QED BY <1>2, <1>5, <1>7, <1>9

LEMMA RivalsBound ==
  ASSUME IInv, RivalsInv
  PROVE  DroppedToRivals
  <1>1. Len(log) \in Nat
    BY LenProperties DEF IInv, TypeOK
  <1>2. PICK author, blamed : Blame(author, blamed)
    BY DEF RivalsInv
  <1>3. Cardinality(blamed) <= (Cardinality(Workers) - 1) * Len(log)
    BY <1>1, <1>2, BlameBounded DEF Blame
  <1>4. Cardinality(blamed) \in Nat /\ Cardinality(Retrying) \in Nat
    BY <1>1, <1>2, BlamedFinite, RetryingFinite DEF Blame
  <1>5. Cardinality(blamed) >= 2 * dropped + Cardinality(Retrying) /\ dropped \in Nat
    BY <1>2 DEF Blame, RivalsInv
  <1>6. Cardinality(Workers) \in Nat
    BY WorkersAssumption, FS_CardinalityType
  <1> DEFINE bound == (Cardinality(Workers) - 1) * Len(log)
  <1>7. bound \in Int
    BY <1>1, <1>6
  <1> HIDE DEF bound
  <1>8. 2 * dropped <= bound
    BY <1>3, <1>4, <1>5, <1>7 DEF bound
  <1> QED BY <1>8 DEF DroppedToRivals, bound
LEMMA InitRivals == Init => RivalsInv
  <1> SUFFICES ASSUME Init PROVE RivalsInv
    OBVIOUS
  <1>1. /\ log = <<>> /\ Len(log) = 0 /\ dropped = 0
        /\ \A w \in Workers : workers[w].pc = "idle" /\ workers[w].tries = 0
    BY DEF Init, Idle
  <1>2. Retrying = {} /\ Cardinality({}) = 0
    BY <1>1, FS_EmptySet DEF Retrying
  <1>3. Blame([i \in 1..0 |-> 0], {})
    <2>1. 1..0 = {}
      OBVIOUS
    <2> QED BY <1>1, <1>2, <2>1 DEF Blame
  <1> QED BY <1>1, <1>3 DEF RivalsInv

\* A step that writes nothing and gives nothing up: a worker that is at its
\* write has read before it, or reads all there is.
LEMMA RivalsFrame ==
  ASSUME IInv, RivalsInv, UNCHANGED <<log, dropped>>,
         \A v \in Workers :
           /\ workers'[v].tries \in {0, workers[v].tries}
           /\ workers'[v].pc = "insert" =>
                \/ workers[v].pc = "insert" /\ workers'[v].read = workers[v].read
                \/ workers'[v].read = Len(log)
  PROVE  RivalsInv'
  <1>1. PICK author, blamed : Blame(author, blamed)
    BY DEF RivalsInv
  <1>2. Len(log) \in Nat /\ IsFiniteSet(Retrying)
    BY LenProperties, RetryingFinite DEF IInv, TypeOK
  <1>3. Retrying' \subseteq Retrying
    BY DEF Retrying
  <1>4. /\ Cardinality(Retrying') <= Cardinality(Retrying)
        /\ Cardinality(Retrying') \in Nat /\ Cardinality(Retrying) \in Nat
    BY <1>2, <1>3, FS_Subset, FS_CardinalityType
  <1>5. Cardinality(blamed) \in Nat
    BY <1>1, <1>2, BlamedFinite DEF Blame
  <1>6. Cardinality(blamed) >= 2 * dropped' + Cardinality(Retrying')
    BY <1>1, <1>4, <1>5 DEF Blame, RivalsInv
  <1>7. \A w \in Workers : workers'[w].pc = "insert" =>
          \A i \in 1..Len(log) : i > workers'[w].read => author[i] # w /\ <<w, i>> \notin blamed
    BY <1>1, <1>2 DEF Blame
  <1>8. Blame(author, blamed)'
    BY <1>1, <1>6, <1>7 DEF Blame
  <1> QED BY <1>8 DEF RivalsInv

\* A worker whose number is taken blames the row that took it.
LEMMA LostRace ==
  ASSUME IInv, NEW w \in Workers, NEW author, NEW blamed, Blame(author, blamed),
         workers[w].pc = "insert", workers[w].read + 1 \in Seqs
  PROVE  LET i == workers[w].read + 1
             more == blamed \cup {<<w, i>>}
         IN  /\ i \in 1..Len(log) /\ author[i] # w
             /\ more \in SUBSET (Workers \X (1..Len(log)))
             /\ \A v \in Workers : v # w =>
                  \A j \in 1..Len(log) : <<v, j>> \in more => <<v, j>> \in blamed
             /\ Cardinality(more) = Cardinality(blamed) + 1
             /\ Cardinality(blamed) \in Nat
  <1> DEFINE i == workers[w].read + 1
  <1>1. Len(log) \in Nat /\ Seqs = 1..Len(log) /\ workers[w].read \in 0..Len(log)
    BY NumbersTaken DEF IInv, TypeOK, ReadsInLog
  <1>2. i \in 1..Len(log) /\ i > workers[w].read
    BY <1>1
  <1>3. author[i] # w /\ <<w, i>> \notin blamed
    BY <1>2 DEF Blame
  <1>4. IsFiniteSet(blamed) /\ Cardinality(blamed) \in Nat
    BY <1>1, BlamedFinite DEF Blame
  <1>5. Cardinality(blamed \cup {<<w, i>>}) = Cardinality(blamed) + 1
    <2> HIDE DEF i
    <2> QED BY <1>3, <1>4, FS_AddElement
  <1>6. blamed \cup {<<w, i>>} \in SUBSET (Workers \X (1..Len(log)))
    BY <1>2 DEF Blame
  <1> QED BY <1>2, <1>3, <1>4, <1>5, <1>6

LEMMA EmittedQuits ==
  ASSUME IInv, NEW w \in Workers, Emitted(w)
  PROVE  /\ workers'[w].pc # "insert" /\ workers'[w].tries = 0
         /\ \A v \in Workers : v # w => workers'[v] = workers[v]
  <1>1. workers \in [Workers -> WorkerStates] /\ workers[w] \in WorkerStates
    BY DEF IInv, TypeOK
  <1>2. Ended(w).pc # "insert" /\ Ended(w).tries = 0
    BY DEF Ended, Idle
  <1> QED BY <1>1, <1>2 DEF Emitted, WorkerStates

\* The first lost race: the sink tries again.
LEMMA RivalsRetry ==
  ASSUME IInv, RivalsInv, NEW w \in Workers,
         workers[w].pc = "insert", workers[w].read + 1 \in Seqs,
         workers[w].tries + 1 < SeqRetries,
         workers' = [workers EXCEPT ![w].tries = @ + 1, ![w].pc = "emit"],
         UNCHANGED <<log, dropped>>
  PROVE  RivalsInv'
  <1> DEFINE i == workers[w].read + 1
  <1>1. PICK author, blamed : Blame(author, blamed)
    BY DEF RivalsInv
  <1> DEFINE more == blamed \cup {<<w, i>>}
  <1>2. /\ i \in 1..Len(log) /\ author[i] # w
        /\ more \in SUBSET (Workers \X (1..Len(log)))
        /\ \A v \in Workers : v # w => \A j \in 1..Len(log) : <<v, j>> \in more => <<v, j>> \in blamed
        /\ Cardinality(more) = Cardinality(blamed) + 1 /\ Cardinality(blamed) \in Nat
    BY <1>1, LostRace
  <1>3. /\ workers \in [Workers -> WorkerStates] /\ workers[w].tries = 0
        /\ workers'[w].tries = 1 /\ workers'[w].pc = "emit"
        /\ \A v \in Workers : v # w => workers'[v] = workers[v]
    BY DEF IInv, TypeOK, WorkerStates, RivalsInv, SeqRetries
  <1>4. Retrying' = Retrying \cup {w} /\ w \notin Retrying
    BY <1>3 DEF Retrying
  <1>5. Cardinality(Retrying') = Cardinality(Retrying) + 1 /\ Cardinality(Retrying) \in Nat
    BY <1>4, RetryingFinite, FS_AddElement
  <1>6. /\ author \in [1..Len(log) -> Workers]
        /\ \A v \in Workers, j \in 1..Len(log) : <<v, j>> \in more => author[j] # v
    BY <1>1, <1>2 DEF Blame
  <1>7. \A v \in Workers : workers'[v].pc = "insert" =>
          \A j \in 1..Len(log) : j > workers'[v].read => author[j] # v /\ <<v, j>> \notin more
    BY <1>1, <1>2, <1>3 DEF Blame
  <1> HIDE DEF more, i
  <1>8. Cardinality(more) >= 2 * dropped' + Cardinality(Retrying')
    BY <1>1, <1>2, <1>5 DEF Blame, RivalsInv
  <1>9. PICK m : m = more
    OBVIOUS
  <1>11. Blame(author, m)'
    BY <1>2, <1>6, <1>7, <1>8, <1>9 DEF Blame
  <1>10. \A v \in Workers : workers'[v].tries \in 0..1
    BY <1>3 DEF RivalsInv
  <1> QED BY <1>10, <1>11 DEF RivalsInv

\* The second: the event is given up.
LEMMA RivalsGiveUp ==
  ASSUME IInv, RivalsInv, NEW w \in Workers,
         workers[w].pc = "insert", workers[w].read + 1 \in Seqs,
         workers[w].tries + 1 = SeqRetries,
         dropped' = dropped + 1, Emitted(w), UNCHANGED log
  PROVE  RivalsInv'
  <1> DEFINE i == workers[w].read + 1
  <1>1. PICK author, blamed : Blame(author, blamed)
    BY DEF RivalsInv
  <1> DEFINE more == blamed \cup {<<w, i>>}
  <1>2. /\ i \in 1..Len(log) /\ author[i] # w
        /\ more \in SUBSET (Workers \X (1..Len(log)))
        /\ \A v \in Workers : v # w => \A j \in 1..Len(log) : <<v, j>> \in more => <<v, j>> \in blamed
        /\ Cardinality(more) = Cardinality(blamed) + 1 /\ Cardinality(blamed) \in Nat
    BY <1>1, LostRace
  <1>3. /\ workers'[w].tries = 0 /\ workers'[w].pc # "insert"
        /\ \A v \in Workers : v # w => workers'[v] = workers[v]
    BY EmittedQuits
  <1>4. Retrying' = Retrying \ {w} /\ w \in Retrying
    BY <1>3 DEF Retrying, SeqRetries, RivalsInv
  <1>5. Cardinality(Retrying') = Cardinality(Retrying) - 1 /\ Cardinality(Retrying) \in Nat
    BY <1>4, RetryingFinite, FS_RemoveElement
  <1>6. /\ author \in [1..Len(log) -> Workers]
        /\ \A v \in Workers, j \in 1..Len(log) : <<v, j>> \in more => author[j] # v
    BY <1>1, <1>2 DEF Blame
  <1>7. \A v \in Workers : workers'[v].pc = "insert" =>
          \A j \in 1..Len(log) : j > workers'[v].read => author[j] # v /\ <<v, j>> \notin more
    BY <1>1, <1>2, <1>3 DEF Blame
  <1> HIDE DEF more, i
  <1>8. Cardinality(more) >= 2 * dropped' + Cardinality(Retrying')
    BY <1>1, <1>2, <1>5 DEF Blame, RivalsInv
  <1>9. PICK m : m = more
    OBVIOUS
  <1>11. Blame(author, m)'
    BY <1>2, <1>6, <1>7, <1>8, <1>9 DEF Blame
  <1>10. dropped' \in Nat /\ \A v \in Workers : workers'[v].tries \in 0..1
    BY <1>3 DEF RivalsInv
  <1> QED BY <1>10, <1>11 DEF RivalsInv

\* A row that got its number: no other worker that is about to write has read
\* so far, and none can blame it yet.
LEMMA RivalsWrite ==
  ASSUME IInv, RivalsInv, NEW w \in Workers, NEW row,
         log' = Append(log, row), Emitted(w), UNCHANGED dropped
  PROVE  RivalsInv'
  <1>1. PICK author, blamed : Blame(author, blamed)
    BY DEF RivalsInv
  <1> DEFINE n == Len(log) + 1
             next == [i \in 1..n |-> IF i = n THEN w ELSE author[i]]
  <1>2. Len(log) \in Nat /\ Len(log') = n /\ log \in Seq(Rows)
    BY LenProperties DEF IInv, TypeOK
  <1>3. /\ workers'[w].tries = 0 /\ workers'[w].pc # "insert"
        /\ \A v \in Workers : v # w => workers'[v] = workers[v]
    BY EmittedQuits
  <1>4. IsFiniteSet(Retrying) /\ Retrying' \subseteq Retrying
    BY <1>3, RetryingFinite DEF Retrying
  <1>5. /\ Cardinality(Retrying') <= Cardinality(Retrying)
        /\ Cardinality(Retrying') \in Nat /\ Cardinality(Retrying) \in Nat
    BY <1>4, FS_Subset, FS_CardinalityType
  <1>6. Cardinality(blamed) \in Nat
    BY <1>1, <1>2, BlamedFinite DEF Blame
  <1>7. next \in [1..n -> Workers] /\ \A i \in 1..Len(log) : next[i] = author[i]
    BY <1>1, <1>2 DEF Blame
  <1>8. blamed \in SUBSET (Workers \X (1..n)) /\ \A v \in Workers : <<v, n>> \notin blamed
    BY <1>1, <1>2 DEF Blame
  <1>9. next[n] = w /\ \A i \in 1..n : i = n \/ i \in 1..Len(log)
    BY <1>2
  <1> HIDE DEF n, next
  <1>10. \A v \in Workers, i \in 1..n : <<v, i>> \in blamed => next[i] # v
    BY <1>1, <1>7, <1>8, <1>9 DEF Blame
  <1>11. \A v \in Workers : workers'[v].pc = "insert" =>
           \A i \in 1..n : i > workers'[v].read => next[i] # v /\ <<v, i>> \notin blamed
    BY <1>1, <1>3, <1>7, <1>8, <1>9 DEF Blame
  <1>12. Cardinality(blamed) >= 2 * dropped' + Cardinality(Retrying')
    BY <1>1, <1>5, <1>6 DEF Blame, RivalsInv
  <1>15. PICK m, written : m = n /\ written = next
    OBVIOUS
  <1>13. Blame(written, blamed)'
    BY <1>2, <1>7, <1>8, <1>10, <1>11, <1>12, <1>15 DEF Blame
  <1>14. \A v \in Workers : workers'[v].tries \in 0..1
    BY <1>3 DEF RivalsInv
  <1> QED BY <1>13, <1>14 DEF RivalsInv

LEMMA NextRivals == IInv /\ RivalsInv /\ [Next]_vars => RivalsInv'
  <1> SUFFICES ASSUME IInv, RivalsInv, [Next]_vars PROVE RivalsInv'
    OBVIOUS
  <1>1. /\ workers \in [Workers -> WorkerStates] /\ MaxSeq = Len(log)
        /\ \A w \in Workers : workers[w].tries \in 0..1 /\ workers[w] \in WorkerStates
    BY NumbersTaken DEF IInv, TypeOK, RivalsInv
  <1>2. Idle.tries = 0 /\ Idle.pc = "idle"
    BY DEF Idle
  <1>3. \A w \in Workers : Ended(w).tries = 0 /\ Ended(w).pc # "insert"
    BY DEF Ended, Idle
  <1>4. ASSUME NEW w \in Workers, NEW n, Launch(w, n) PROVE RivalsInv'
    BY <1>1, <1>4, RivalsFrame DEF Launch, Idle
  <1>5. ASSUME NEW w \in Workers, EnterNode(w) PROVE RivalsInv'
    <2>1. /\ workers'[w].pc # "insert" /\ workers'[w].tries \in {0, workers[w].tries}
          /\ \A v \in Workers : v # w => workers'[v] = workers[v]
      <3>1. CASE workers' = [workers EXCEPT ![w] = Ended(w)]
        BY <1>1, <1>3, <3>1
      <3>2. CASE workers' = [workers EXCEPT ![w].pc = "emit", ![w].todo = NodeEvents(workers[w].at)]
        BY <1>1, <3>2 DEF WorkerStates
      <3> QED BY <1>5, <3>1, <3>2 DEF EnterNode
    <2>2. UNCHANGED <<log, dropped>>
      BY <1>5 DEF EnterNode
    <2> QED BY <2>1, <2>2, RivalsFrame
  <1>6. ASSUME NEW w \in Workers, ReadMax(w) PROVE RivalsInv'
    BY <1>1, <1>6, RivalsFrame DEF ReadMax, WorkerStates
  <1>7. ASSUME NEW w \in Workers, Insert(w) PROVE RivalsInv'
    <2>1. CASE /\ log' = Append(log, Row(workers[w].read + 1, Head(workers[w].todo)))
               /\ Emitted(w) /\ UNCHANGED dropped
      BY <2>1, RivalsWrite
    <2>2. CASE /\ workers[w].read + 1 \in Seqs /\ workers[w].tries + 1 < SeqRetries
               /\ workers' = [workers EXCEPT ![w].tries = @ + 1, ![w].pc = "emit"]
               /\ UNCHANGED <<log, dropped>>
      BY <1>7, <2>2, RivalsRetry DEF Insert
    <2>3. CASE /\ workers[w].read + 1 \in Seqs /\ workers[w].tries + 1 = SeqRetries
               /\ dropped' = dropped + 1 /\ Emitted(w) /\ UNCHANGED log
      BY <1>7, <2>3, RivalsGiveUp DEF Insert
    <2> QED BY <1>7, <2>1, <2>2, <2>3 DEF Insert
  <1>8. ASSUME NEW w \in Workers, StoreFails(w) PROVE RivalsInv'
    <2>1. Emitted(w) /\ UNCHANGED <<log, dropped>>
      BY <1>8 DEF StoreFails
    <2> QED BY <1>1, <2>1, EmittedQuits, RivalsFrame
  <1>9. ASSUME NEW w \in Workers, NodeFails(w) PROVE RivalsInv'
    BY <1>1, <1>9, RivalsFrame DEF NodeFails, WorkerStates
  <1>10. ASSUME NEW w \in Workers, Save(w) PROVE RivalsInv'
    BY <1>1, <1>10, RivalsFrame DEF Save, WorkerStates
  <1>11. ASSUME NEW w \in Workers, Return(w) PROVE RivalsInv'
    BY <1>1, <1>2, <1>11, RivalsFrame DEF Return
  <1>12. ASSUME NEW w \in Workers, Expire(w) PROVE RivalsInv'
    BY <1>1, <1>12, RivalsFrame DEF Expire, WorkerStates
  <1>13. CASE UNCHANGED <<log, workers, dropped>>
    BY <1>13, RivalsFrame
  <1>14. ListAfter \/ ReadState \/ Receive \/ Miss => UNCHANGED <<log, workers, dropped>>
    BY DEF ListAfter, ReadState, Receive, Miss
  <1> QED BY <1>4, <1>5, <1>6, <1>7, <1>8, <1>9, <1>10, <1>11, <1>12, <1>13, <1>14
      DEF Next, Progress, Fault, Start, Resume, vars

\* However many workers write at once, each event given up stands for two rows
\* of other workers: none is lost while one worker runs (repositories.py, "One
\* retry absorbs the only realistic seq race").
THEOREM LostOnlyToRivals == Spec => []DroppedToRivals
  <1>1. IInv /\ RivalsInv => DroppedToRivals
    BY RivalsBound
  <1> QED BY <1>1, InitInv, StepKeeps, InitRivals, NextRivals, PTL DEF Spec
=============================================================================
