------------------------------ MODULE Delivery ------------------------------
(***************************************************************************)
(* From a turn in the bot to a card in somebody's chat: the bot that drops *)
(* redelivered activities (bot/court_bot.py), the notices of the service   *)
(* about one trial (court_service.py), the three channels they fan out to  *)
(* (adapters/notifiers: the activity feed, the bot's cards, the evidence   *)
(* webhook), and the sender that drains the queue of cards on the event    *)
(* loop (bot/proactive.py).                                                *)
(*                                                                         *)
(* A turn is handled in one go: nothing is awaited between taking the      *)
(* activity in and handing its cards to the loop.  What the votes decide   *)
(* is Court's business: here a vote concludes the trial or does not.       *)
(***************************************************************************)
EXTENDS Integers, Sequences, SequencesExt, FiniteSets, Functions

CONSTANTS
  Requester,     \* who opens the trial
  Approvers,     \* the others who can decide it, in the order of their identities
  Activities,    \* the activities of the channel: id -> [by, tool]
  Capacity,      \* _SEEN_ACTIVITY_CAPACITY
  Addressable,   \* the bot's own identity and channel URL are configured
  MaxArrivals,   \* bound: activities delivered and redelivered
  MaxRestarts    \* bound: deaths of the process

Ids == DOMAIN Activities
People == {Requester} \cup Range(Approvers)

ASSUME DeliveryAssumption ==
  /\ Approvers \in Seq(People)
  /\ Requester \notin Range(Approvers)
  /\ \A a \in Ids : Activities[a].by \in People /\ Activities[a].tool \in {"text", "send", "decide"}
  /\ Capacity \in Nat \ {0} /\ Addressable \in BOOLEAN
  /\ MaxArrivals \in Nat /\ MaxRestarts \in Nat

VARIABLES
  seen,       \* the bot: the ids it remembers, the least recent first
  references, \* conversation store: who can be reached
  phase,      \* the trial
  voters,     \* approval events: the approvers who voted
  toasted,    \* activity feed: the notices that landed in it
  packets,    \* webhook: the packets posted to it
  callbacks,  \* event loop: jobs handed to it and not yet in the queue
  queue,      \* the sender's queue
  sender,     \* the sender: idle, out (delivering a job), done
  chats,      \* the cards that landed in a chat
  running,    \* the server takes requests
  met,        \* history: the ids that arrived since the start, by last arrival
  acted,      \* history: how often an activity was acted upon
  notices,    \* history: who was to be told what
  carded,     \* history: the cards handed to the sender
  arrivals,   \* history: activities delivered
  restarts    \* history: deaths of the process

bot == <<seen, met, acted, arrivals>>
loop == <<callbacks, queue, sender>>
court == <<phase, voters>>
feeds == <<toasted, packets>>
vars == <<bot, references, court, feeds, loop, chats, running, notices, carded, restarts>>

Init ==
  /\ seen = <<>> /\ met = <<>> /\ acted = [a \in Ids |-> 0] /\ arrivals = 0
  /\ references = {} /\ phase = "absent" /\ voters = {}
  /\ toasted = {} /\ packets = {} /\ notices = {} /\ carded = {} /\ chats = {}
  /\ callbacks = <<>> /\ queue = <<>> /\ sender = [pc |-> "idle"]
  /\ running = TRUE /\ restarts = 0

-----------------------------------------------------------------------------
(***************************************************************************)
(* The notifiers.                                                          *)
(***************************************************************************)
Notice(event, p) == [event |-> event, to |-> p]
Shutdown == [kind |-> "sentinel"]
Job(event, p, known) ==
  [kind |-> "card", notice |-> Notice(event, p), known |-> known]

Told(event, people) == {Notice(event, p) : p \in Range(people)}

\* Whom the activity feed tells: the analysis of a change asks nobody to act.
Toasted(event, people) == IF event = "analyzed" THEN <<>> ELSE people

\* The bot's channel: one job a recipient, with the conversation known for
\* them by now.  An acknowledgement or an analysis has no card.
Uncarded == {"acknowledged", "analyzed"}

Cards(event, people) ==
  IF event \in Uncarded THEN <<>>
  ELSE [i \in DOMAIN people |-> Job(event, people[i], people[i] \in references')]

\* The webhook: one packet an event, with the trial as it reads by now.  Whether
\* it arrives changes nothing on this side.
Packet(event) == [event |-> event, shows |-> phase']

Post(event) == packets' = packets \cup {Packet(event)}

\* A composite that lets a channel's failure through.
Fanout_Unguarded(event, people) ==
  LET told == Toasted(event, people) IN
  \E n \in 0..Len(told) :
    /\ toasted' = toasted \cup Told(event, SubSeq(told, 1, n))
    /\ callbacks' = callbacks \o IF n < Len(told) THEN <<>> ELSE Cards(event, people)
    /\ IF n < Len(told) THEN UNCHANGED packets ELSE Post(event)

\* The feed is told one recipient after the other until one of the posts fails;
\* the bot's channel and the webhook come after it, whatever became of it.
Fanout(event, people) ==
  LET told == Toasted(event, people) IN
  /\ \E n \in 0..Len(told) : toasted' = toasted \cup Told(event, SubSeq(told, 1, n))
  /\ callbacks' = callbacks \o Cards(event, people)
  /\ Post(event)

Notify(event, people) ==
  /\ Fanout(event, people)
  /\ notices' = notices \cup Told(event, people)
  /\ carded' = carded \cup {callbacks'[i].notice : i \in (Len(callbacks) + 1)..Len(callbacks')}

Quiet == UNCHANGED <<feeds, callbacks, notices, carded>>

\* Who can decide is asked to, if there is anybody; the requester is told what
\* was decided.
RequestApproval ==
  IF Approvers = <<>> THEN Quiet ELSE Notify("approval_requested", Approvers)
TellRequester == Notify("decided", <<Requester>>)

\* The acknowledgement goes to those who decided, if anybody but its author did,
\* in the order of their identities.
TellDeciders ==
  IF voters = {} THEN Quiet
  ELSE LET n == Cardinality(voters) IN
       \E at \in [1..n -> DOMAIN Approvers] :
         /\ \A i, j \in 1..n : i < j => at[i] < at[j]
         /\ {Approvers[at[i]] : i \in 1..n} = voters
         /\ Notify("acknowledged", [i \in 1..n |-> Approvers[at[i]]])

TellAnalysis == Notify("analyzed", <<Requester>>)

-----------------------------------------------------------------------------
(***************************************************************************)
(* The bot's turns.                                                        *)
(***************************************************************************)
Forget(s, a) ==
  IF a \in Range(s) THEN RemoveAt(s, CHOOSE i \in DOMAIN s : s[i] = a) ELSE s

\* A memory that forgets in the order of first arrival.
Remember_Fifo(a) ==
  LET all == Append(seen, a) IN
  IF a \in Range(seen) THEN seen ELSE IF Len(all) > Capacity THEN Tail(all) ELSE all

\* _already_handled: an id seen is moved to the end; a new one is added there,
\* and the first is forgotten if that is one too many.
Remember(a) ==
  LET all == Append(Forget(seen, a), a) IN
  IF a \notin Range(seen) /\ Len(all) > Capacity THEN Tail(all) ELSE all

\* What the tool does to the trial, and whom the service tells of it.
Apply(by, tool) ==
  \/ /\ tool = "text" /\ phase = "absent"
     /\ phase' = "review" /\ UNCHANGED voters /\ Quiet
  \/ /\ tool = "send" /\ by = Requester /\ phase = "review"
     /\ UNCHANGED voters
     /\ \/ phase' = "waiting" /\ RequestApproval
        \/ phase' = "concluded" /\ Quiet
  \/ /\ tool = "decide" /\ by # Requester /\ phase = "waiting"
     /\ voters' = voters \cup {by}
     /\ \/ phase' = "concluded" /\ TellRequester
        \/ UNCHANGED phase /\ Quiet

\* A text that comes again opens a trial of its own; a button that is no
\* longer good is answered with the reason.
OutOfPlace(by, tool) ==
  /\ CASE tool = "text" -> phase # "absent"
       [] tool = "send" -> by # Requester \/ phase # "review"
       [] OTHER -> by = Requester \/ phase # "waiting"
  /\ UNCHANGED court /\ Quiet

Arrive(a) ==
  LET by == Activities[a].by  tool == Activities[a].tool IN
  /\ running /\ arrivals < MaxArrivals
  /\ arrivals' = arrivals + 1
  /\ references' = references \cup {by}
  /\ seen' = Remember(a) /\ met' = Append(Forget(met, a), a)
  /\ \/ a \in Range(seen) /\ UNCHANGED <<acted, court>> /\ Quiet
     \/ /\ a \notin Range(seen)
        /\ acted' = [acted EXCEPT ![a] = @ + 1]
        /\ Apply(by, tool) \/ OutOfPlace(by, tool)
  /\ UNCHANGED <<queue, sender, chats, running, restarts>>

\* Analysed only, or acknowledged, on another surface.
Analyze ==
  /\ running /\ phase = "absent"
  /\ phase' = "analyzed"
  /\ UNCHANGED <<voters, references>>
  /\ TellAnalysis
  /\ UNCHANGED <<bot, queue, sender, chats, running, restarts>>

Acknowledge ==
  /\ running /\ phase = "concluded"
  /\ phase' = "acknowledged"
  /\ UNCHANGED <<voters, references>>
  /\ TellDeciders
  /\ UNCHANGED <<bot, queue, sender, chats, running, restarts>>

-----------------------------------------------------------------------------
(***************************************************************************)
(* The sender.                                                             *)
(***************************************************************************)
\* The loop gets to a callback: put_nowait.
Put ==
  /\ callbacks # <<>>
  /\ queue' = Append(queue, Head(callbacks)) /\ callbacks' = Tail(callbacks)
  /\ UNCHANGED <<bot, references, court, feeds, sender, chats, running, notices, carded, restarts>>

Take ==
  /\ sender.pc = "idle" /\ queue # <<>>
  /\ queue' = Tail(queue)
  /\ sender' = IF Head(queue) = Shutdown THEN [pc |-> "done"]
               ELSE [pc |-> "out", job |-> Head(queue)]
  /\ UNCHANGED <<bot, references, court, feeds, callbacks, chats, running, notices, carded, restarts>>

\* The card is sent into the conversation known when it was handed over, or
\* into one created for it, which is kept before the card is sent.
Land ==
  /\ sender.pc = "out"
  /\ sender.job.known \/ Addressable
  /\ chats' = chats \cup {sender.job.notice}
  /\ references' = references \cup (IF sender.job.known THEN {} ELSE {sender.job.notice.to})
  /\ sender' = [pc |-> "idle"]
  /\ UNCHANGED <<bot, court, feeds, callbacks, queue, running, notices, carded, restarts>>

\* The send fails, or there is nobody to address it to: the card is dropped.
Drop ==
  /\ sender.pc = "out"
  /\ sender' = [pc |-> "idle"]
  /\ \/ UNCHANGED references
     \/ ~sender.job.known /\ Addressable
          /\ references' = references \cup {sender.job.notice.to}
  /\ UNCHANGED <<bot, court, feeds, callbacks, queue, chats, running, notices, carded, restarts>>

\* A sentinel that is put in the queue at once.
Stop_Jumps ==
  /\ running /\ running' = FALSE
  /\ queue' = Append(queue, Shutdown)
  /\ UNCHANGED <<bot, references, court, feeds, callbacks, sender, chats, notices, carded, restarts>>

\* The server is shut down: no more turns, and the sentinel after the jobs.
Stop ==
  /\ running /\ running' = FALSE
  /\ callbacks' = Append(callbacks, Shutdown)
  /\ UNCHANGED <<bot, references, court, feeds, queue, sender, chats, notices, carded, restarts>>

\* The process dies: all that was in memory is gone.
Restart ==
  /\ restarts < MaxRestarts /\ restarts' = restarts + 1
  /\ seen' = <<>> /\ met' = <<>>
  /\ callbacks' = <<>> /\ queue' = <<>> /\ sender' = [pc |-> "idle"]
  /\ running' = TRUE
  /\ UNCHANGED <<acted, arrivals, references, court, feeds, chats, notices, carded>>

Next ==
  \/ \E a \in Ids : Arrive(a)
  \/ Analyze \/ Acknowledge \/ Put \/ Take \/ Land \/ Drop \/ Stop \/ Restart

Spec == Init /\ [][Next]_vars

\* The loop runs its callbacks and the sender; a send ends, one way or the other.
Fairness == WF_vars(Put) /\ WF_vars(Take) /\ WF_vars(Land \/ Drop)

FairSpec == Spec /\ Fairness

-----------------------------------------------------------------------------
(***************************************************************************)
(* Properties.                                                             *)
(***************************************************************************)

\* An activity the channel delivers again is not acted upon again, unless the
\* process died in between or as many others as the memory holds came since it
\* last arrived (court_bot.py, "LRU of activity ids already answered").
ActedUponOnce ==
  [][\A a \in Ids : acted'[a] > acted[a] /\ a \in Range(met) =>
       Cardinality({i \in DOMAIN met : \E k \in 1..(i - 1) : met[k] = a}) >= Capacity]_vars

\* What a packet says happened, the trial it is read from shows.
Shows == [approval_requested |-> "waiting", decided |-> "concluded",
          acknowledged |-> "acknowledged", analyzed |-> "analyzed"]

\* Everyone who is to get a card has one handed to the sender, and the webhook is
\* posted one packet of each event, of a trial that is as far as the event says,
\* whatever the activity feed did with the same notice (composite_notifier.py,
\* "one channel's failure never suppresses the others").
ChannelsIndependent ==
  /\ carded = {n \in notices : n.event \notin Uncarded}
  /\ {k.event : k \in packets} = {n.event : n \in notices}
  /\ \A k \in packets : k.shows = Shows[k.event]

\* Cards handed over do not stay behind, in the queue or on the way to it, not
\* even when the server is shut down right after (proactive.py, "shutdown never
\* abandons an already-enqueued card").
EveryCardSettles == <>[](callbacks = <<>> /\ queue = <<>> /\ sender.pc # "out")
=============================================================================
