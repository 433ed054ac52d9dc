--------------------------- MODULE DeliveryProofs ---------------------------
(***************************************************************************)
(* That the channels of a notice are independent of one another, and that  *)
(* the bot does not act again on what it remembers: for any people and     *)
(* activities, any memory of the bot and any number of deaths.             *)
(***************************************************************************)
EXTENDS Delivery, SequenceTheorems, FiniteSetTheorems, TLAPS

Events == DOMAIN Shows

Jobs ==
  {Shutdown} \cup [kind : {"card"}, notice : [event : Events, to : People], known : BOOLEAN]

\* What is on its way to the queue is a card or the end of the service.
ChannelsInv == callbacks \in Seq(Jobs) /\ ChannelsIndependent

LEMMA EventsNamed ==
  Events = {"approval_requested", "decided", "acknowledged", "analyzed"}
  BY DEF Events, Shows

-----------------------------------------------------------------------------
(***************************************************************************)
(* A notice.                                                               *)
(***************************************************************************)

\* One packet more, of an event that has a notice.
LEMMA PacketKept ==
  ASSUME ChannelsIndependent, NEW event \in Events, NEW people, people # <<>>,
         Range(people) # {}, Notify(event, people), phase' = Shows[event]
  PROVE  /\ {k.event : k \in packets'} = {n.event : n \in notices'}
         /\ \A k \in packets' : k.shows = Shows[k.event]
  <1>2. {n.event : n \in notices'} = {n.event : n \in notices} \cup {event}
    <2>1. notices' = notices \cup Told(event, people)
      BY DEF Notify
    <2>2. \A n \in Told(event, people) : n.event = event
      BY DEF Told, Notice
    <2>3. Told(event, people) # {}
      BY DEF Told
    <2> QED BY <2>1, <2>2, <2>3
  <1> DEFINE packet == [event |-> event, shows |-> Shows[event]]
  <1>3. packet.event = event /\ packet.shows = Shows[event]
    OBVIOUS
  <1>1. packets' = packets \cup {packet}
    BY DEF Notify, Fanout, Post, Packet
  <1> HIDE DEF packet
  <1>4. {k.event : k \in packets'} = {k.event : k \in packets} \cup {event}
    BY <1>1, <1>3
  <1>5. \A k \in packets' : k.shows = Shows[k.event]
    BY <1>1, <1>3 DEF ChannelsIndependent
  <1> QED BY <1>2, <1>4, <1>5 DEF ChannelsIndependent

\* A notice with cards: one for each recipient, and no other.
LEMMA CardedNotice ==
  ASSUME ChannelsInv, NEW event \in Events \ Uncarded, NEW people \in Seq(People),
         people # <<>>, Notify(event, people), phase' = Shows[event]
  PROVE  ChannelsInv'
  <1> DEFINE cards == Cards(event, people)
             more == callbacks \o cards
  <1>1. Len(people) \in Nat /\ DOMAIN people = 1..Len(people) /\ Range(people) # {}
    <2>1. Len(people) \in Nat \ {0} /\ DOMAIN people = 1..Len(people)
      BY EmptySeq, LenProperties
    <2> QED BY <2>1 DEF Range
  <1>2. cards = [i \in 1..Len(people) |-> Job(event, people[i], people[i] \in references')]
    BY <1>1 DEF Cards
  <1>3. \A i \in 1..Len(people) : cards[i] \in Jobs /\ cards[i].notice = Notice(event, people[i])
    <2> SUFFICES ASSUME NEW i \in 1..Len(people)
                 PROVE  cards[i] \in Jobs /\ cards[i].notice = Notice(event, people[i])
      OBVIOUS
    <2> DEFINE known == people[i] \in references'
    <2>1. cards[i] = Job(event, people[i], known)
      BY <1>2
    <2>2. people[i] \in People /\ event \in Events /\ known \in BOOLEAN
      BY <1>1
    <2> HIDE DEF known, cards
    <2> QED BY <2>1, <2>2 DEF Job, Jobs, Notice
  <1>4. cards \in Seq(Jobs) /\ Len(cards) = Len(people)
    <2>1. cards \in [1..Len(people) -> Jobs]
      BY <1>2, <1>3
    <2> HIDE DEF cards
    <2> QED BY <1>1, <2>1, IsASeq, LenProperties
  <1> HIDE DEF cards
  <1>5. /\ more \in Seq(Jobs) /\ Len(more) = Len(callbacks) + Len(cards)
        /\ \A i \in 1..Len(cards) : more[Len(callbacks) + i] = cards[i]
    <2>1. Len(callbacks) \in Nat /\ Len(cards) \in Nat
      BY <1>4, LenProperties DEF ChannelsInv
    <2>2. /\ more \in Seq(Jobs) /\ Len(more) = Len(callbacks) + Len(cards)
          /\ \A i \in 1..Len(callbacks) + Len(cards) :
               more[i] = IF i <= Len(callbacks) THEN callbacks[i] ELSE cards[i - Len(callbacks)]
      BY <1>4, ConcatProperties DEF ChannelsInv
    <2> HIDE DEF more
    <2> QED BY <2>1, <2>2
  <1>6. callbacks' = more
    BY DEF Notify, Fanout, cards
  <1> HIDE DEF more
  <1>7. {callbacks'[i].notice : i \in (Len(callbacks) + 1)..Len(callbacks')} = Told(event, people)
    <2>1. Len(callbacks) \in Nat
      BY DEF ChannelsInv
    <2>2. ASSUME NEW i \in (Len(callbacks) + 1)..Len(callbacks')
          PROVE  callbacks'[i].notice \in Told(event, people)
      <3>1. i - Len(callbacks) \in 1..Len(people) /\ i = Len(callbacks) + (i - Len(callbacks))
        BY <1>1, <1>4, <1>5, <1>6, <2>1
      <3>2. callbacks'[i].notice = Notice(event, people[i - Len(callbacks)])
        BY <1>3, <1>4, <1>5, <1>6, <3>1
      <3> QED BY <1>1, <3>1, <3>2 DEF Told, Range
    <2>3. ASSUME NEW p \in Range(people)
          PROVE  \E i \in (Len(callbacks) + 1)..Len(callbacks') :
                   callbacks'[i].notice = Notice(event, p)
      <3>1. PICK j \in 1..Len(people) : people[j] = p
        BY <1>1 DEF Range
      <3>2. Len(callbacks) + j \in (Len(callbacks) + 1)..Len(callbacks')
        BY <1>1, <1>4, <1>5, <1>6, <2>1
      <3>3. callbacks'[Len(callbacks) + j].notice = Notice(event, p)
        BY <1>3, <1>4, <1>5, <1>6, <3>1
      <3> QED BY <3>2, <3>3
    <2> QED BY <2>2, <2>3 DEF Told
  <1>8. carded' = {n \in notices' : n.event \notin Uncarded}
    <2>1. carded' = carded \cup Told(event, people) /\ notices' = notices \cup Told(event, people)
      BY <1>7 DEF Notify
    <2>2. \A n \in Told(event, people) : n.event \notin Uncarded
      BY DEF Told, Notice
    <2> QED BY <2>1, <2>2 DEF ChannelsInv, ChannelsIndependent
  <1> QED BY <1>1, <1>5, <1>6, <1>8, PacketKept DEF ChannelsInv, ChannelsIndependent

\* A notice without cards, whoever it is for.
LEMMA UncardedNotice ==
  ASSUME ChannelsInv, NEW event \in Uncarded, NEW people, people # <<>>,
         Range(people) # {}, Notify(event, people), phase' = Shows[event]
  PROVE  ChannelsInv'
  <1>1. event \in Events
    BY EventsNamed DEF Uncarded
  <1>2. callbacks' = callbacks
    BY ConcatEmptySeq DEF Notify, Fanout, Cards, ChannelsInv
  <1>3. carded' = carded
    <2>1. (Len(callbacks) + 1)..Len(callbacks') = {}
      BY <1>2 DEF ChannelsInv
    <2> QED BY <2>1 DEF Notify
  <1>4. {n \in notices' : n.event \notin Uncarded} = {n \in notices : n.event \notin Uncarded}
    BY DEF Notify, Told, Notice
  <1> QED BY <1>1, <1>2, <1>3, <1>4, PacketKept DEF ChannelsInv, ChannelsIndependent

LEMMA QuietKeeps ==
  ASSUME ChannelsInv, Quiet
  PROVE  ChannelsInv'
  BY DEF Quiet, feeds, ChannelsInv, ChannelsIndependent

-----------------------------------------------------------------------------
(***************************************************************************)
(* What the service tells.                                                 *)
(***************************************************************************)

\* The approvers are a list.
LEMMA ApplyKeeps ==
  ASSUME ChannelsInv, Approvers \in Seq(People), NEW by \in People, NEW tool, Apply(by, tool)
  PROVE  ChannelsInv'
  <1> USE EventsNamed DEF Shows
  <1>1. CASE Quiet
    BY <1>1, QuietKeeps
  <1>2. CASE phase' = "waiting" /\ RequestApproval
    BY <1>1, <1>2, CardedNotice DEF RequestApproval, Uncarded
  <1>3. CASE phase' = "concluded" /\ TellRequester
    <2>1. <<Requester>> \in Seq(People) /\ <<Requester>> # <<>>
      BY DEF People
    <2> QED BY <1>3, <2>1, CardedNotice DEF TellRequester, Uncarded
  <1> QED BY <1>1, <1>2, <1>3 DEF Apply

LEMMA AcknowledgeKeeps ==
  ASSUME ChannelsInv, Acknowledge
  PROVE  ChannelsInv'
  <1>1. CASE voters = {}
    BY <1>1, QuietKeeps DEF Acknowledge, TellDeciders
  <1>2. CASE voters # {}
    <2> DEFINE n == Cardinality(voters)
    <2>1. PICK at \in [1..n -> DOMAIN Approvers] :
            /\ {Approvers[at[i]] : i \in 1..n} = voters
            /\ Notify("acknowledged", [i \in 1..n |-> Approvers[at[i]]])
      BY <1>2 DEF Acknowledge, TellDeciders
    <2> DEFINE deciders == [i \in 1..n |-> Approvers[at[i]]]
    <2>2. Range(deciders) = voters
      BY <2>1 DEF Range
    <2>3. deciders # <<>>
      BY <1>2, <2>2 DEF Range
    <2>4. phase' = Shows["acknowledged"] /\ "acknowledged" \in Uncarded
      BY DEF Acknowledge, Shows, Uncarded
    <2> HIDE DEF deciders
    <2>5. Notify("acknowledged", deciders)
      BY <2>1 DEF deciders
    <2> QED BY <1>2, <2>2, <2>3, <2>4, <2>5, UncardedNotice
  <1> QED BY <1>1, <1>2

LEMMA AnalyzeKeeps ==
  ASSUME ChannelsInv, Analyze
  PROVE  ChannelsInv'
  <1>1. <<Requester>> # <<>> /\ Range(<<Requester>>) # {}
    BY DEF Range
  <1>2. phase' = Shows["analyzed"] /\ "analyzed" \in Uncarded
    BY DEF Analyze, Shows, Uncarded
  <1> QED BY <1>1, <1>2, UncardedNotice DEF Analyze, TellAnalysis

-----------------------------------------------------------------------------
LEMMA InitChannels == Init => ChannelsInv
  BY DEF Init, ChannelsInv, ChannelsIndependent

LEMMA NextChannels ==
  Approvers \in Seq(People) /\ ChannelsInv /\ [Next]_vars => ChannelsInv'
  <1> SUFFICES ASSUME Approvers \in Seq(People), ChannelsInv, [Next]_vars PROVE ChannelsInv'
    OBVIOUS
  <1>1. ASSUME NEW a \in Ids, Arrive(a) PROVE ChannelsInv'
    <2>1. CASE Quiet
      BY <2>1, QuietKeeps
    <2>2. CASE Apply(Activities[a].by, Activities[a].tool)
      BY <2>2, ApplyKeeps, DeliveryAssumption
    <2> QED BY <1>1, <2>1, <2>2 DEF Arrive, OutOfPlace
  <1>2. CASE Analyze
    BY <1>2, AnalyzeKeeps
  <1>3. CASE Acknowledge
    BY <1>3, AcknowledgeKeeps
  <1>4. CASE Put
    <2>1. callbacks' = Tail(callbacks) /\ callbacks # <<>>
      BY <1>4 DEF Put
    <2>2. callbacks' \in Seq(Jobs)
      BY <2>1, HeadTailProperties DEF ChannelsInv
    <2> QED BY <1>4, <2>2 DEF Put, feeds, ChannelsInv, ChannelsIndependent
  <1>5. CASE Stop
    <2>1. callbacks' = Append(callbacks, Shutdown) /\ Shutdown \in Jobs
      BY <1>5 DEF Stop, Jobs
    <2>2. callbacks' \in Seq(Jobs)
      BY <2>1, AppendProperties DEF ChannelsInv
    <2> QED BY <1>5, <2>2 DEF Stop, feeds, ChannelsInv, ChannelsIndependent
  <1>6. CASE Take \/ Land \/ Drop
    BY <1>6 DEF Take, Land, Drop, feeds, ChannelsInv, ChannelsIndependent
  <1>7. CASE Restart
    <2>1. callbacks' \in Seq(Jobs)
      BY <1>7, EmptySeq DEF Restart
    <2>2. ChannelsIndependent'
      BY <1>7 DEF Restart, feeds, ChannelsInv, ChannelsIndependent
    <2> QED BY <2>1, <2>2 DEF ChannelsInv
  <1>8. CASE UNCHANGED vars
    BY <1>8 DEF vars, feeds, loop, ChannelsInv, ChannelsIndependent
  <1> QED BY <1>1, <1>2, <1>3, <1>4, <1>5, <1>6, <1>7, <1>8 DEF Next

\* A channel that fails keeps nothing from the others: everyone who is to get a
\* card has one handed to the sender, and the webhook has its packet of each
\* event, of a trial that is as far as the event says (CompositeNotifier).
THEOREM OthersAreTold == Spec => []ChannelsIndependent
  <1>1. Approvers \in Seq(People)
    BY DeliveryAssumption
  <1>2. ChannelsInv => ChannelsIndependent
    BY DEF ChannelsInv
  <1> QED BY <1>1, <1>2, InitChannels, NextChannels, PTL DEF Spec

-----------------------------------------------------------------------------
(***************************************************************************)
(* The memory of the bot.                                                  *)
(***************************************************************************)

Distinct(s) == \A i, j \in 1..Len(s) : s[i] = s[j] => i = j

\* How many of the ids that arrived are forgotten.
Forgotten == Len(met) - Len(seen)

\* The bot remembers the ids that arrived last, as many as fit.
MemoryInv ==
  /\ met \in Seq(Ids) /\ seen \in Seq(Ids) /\ acted \in [Ids -> Nat]
  /\ Distinct(met)
  /\ Len(seen) <= Len(met) /\ Len(seen) <= Capacity
  /\ Forgotten > 0 => Len(seen) = Capacity
  /\ \A i \in 1..Len(seen) : seen[i] = met[i + Forgotten]

\* s without its element p.
Closed(rest, s, p) ==
  /\ Len(rest) = Len(s) - 1
  /\ \A i \in 1..(Len(s) - 1) : rest[i] = IF i < p THEN s[i] ELSE s[i + 1]

LEMMA ForgetKeepsOrder ==
  ASSUME NEW S, NEW s \in Seq(S), Distinct(s), NEW p \in 1..Len(s), NEW a, s[p] = a
  PROVE  Forget(s, a) \in Seq(S) /\ Closed(Forget(s, a), s, p)
  <1>1. Len(s) \in Nat /\ DOMAIN s = 1..Len(s) /\ \A i \in 1..Len(s) : s[i] \in S
    BY LenProperties, ElementOfSeq
  <1>2. (CHOOSE i \in DOMAIN s : s[i] = a) = p
    BY <1>1 DEF Distinct
  <1> DEFINE left == SubSeq(s, 1, p - 1)
             right == SubSeq(s, p + 1, Len(s))
  <1>3. Forget(s, a) = left \o right
    BY <1>1, <1>2 DEF Forget, RemoveAt, Range
  <1>4. /\ left \in Seq(S) /\ Len(left) = p - 1
        /\ \A i \in 1..(p - 1) : left[i] = s[i]
    BY <1>1, SubSeqProperties
  <1>5. /\ right \in Seq(S) /\ Len(right) = Len(s) - p
        /\ \A i \in 1..(Len(s) - p) : right[i] = s[i + p]
    <2>1. p + 1 \in Int /\ Len(s) \in Int /\ \A i \in (p + 1)..Len(s) : s[i] \in S
      BY <1>1
    <2>2. /\ right \in Seq(S)
          /\ Len(right) = IF p + 1 <= Len(s) THEN Len(s) - (p + 1) + 1 ELSE 0
          /\ \A i \in 1..Len(s) - (p + 1) + 1 : right[i] = s[p + 1 + i - 1]
      BY <2>1, SubSeqProperties
    <2> HIDE DEF right
    <2>3. ASSUME NEW i \in 1..(Len(s) - p) PROVE right[i] = s[i + p]
      <3>1. i \in 1..Len(s) - (p + 1) + 1 /\ p + 1 + i - 1 = i + p
        BY <1>1
      <3> QED BY <2>2, <3>1
    <2>4. Len(right) = Len(s) - p
      <3>1. CASE p + 1 <= Len(s)
        BY <1>1, <2>2, <3>1
      <3>2. CASE ~(p + 1 <= Len(s))
        <4>1. Len(right) = 0
          BY <2>2, <3>2
        <4>2. p \in Int /\ p <= Len(s) /\ Len(s) \in Int
          BY <1>1
        <4>3. p = Len(s)
          BY <3>2, <4>2
        <4> QED BY <4>1, <4>2, <4>3
      <3> QED BY <3>1, <3>2
    <2> QED BY <2>2, <2>3, <2>4
  <1> HIDE DEF left, right
  <1>6. /\ left \o right \in Seq(S) /\ Len(left \o right) = Len(left) + Len(right)
        /\ \A i \in 1..Len(left) + Len(right) :
             (left \o right)[i] = IF i <= Len(left) THEN left[i] ELSE right[i - Len(left)]
    BY <1>4, <1>5, ConcatProperties
  <1> DEFINE rest == Forget(s, a)
  <1>7. rest \in Seq(S) /\ Len(rest) = Len(s) - 1
    BY <1>1, <1>3, <1>4, <1>5, <1>6
  <1>8. ASSUME NEW i \in 1..(Len(s) - 1)
        PROVE  rest[i] = IF i < p THEN s[i] ELSE s[i + 1]
    <2>1. i \in 1..Len(left) + Len(right)
      BY <1>1, <1>4, <1>5
    <2>2. CASE i < p
      BY <1>3, <1>4, <1>6, <2>1, <2>2
    <2>3. CASE ~(i < p)
      <3>1. rest[i] = right[i - (p - 1)] /\ i - (p - 1) \in 1..(Len(s) - p)
        BY <1>1, <1>3, <1>4, <1>6, <2>1, <2>3
      <3>2. rest[i] = s[i - (p - 1) + p]
        BY <1>5, <3>1
      <3> QED BY <1>1, <2>3, <3>2
    <2> QED BY <2>2, <2>3
  <1> HIDE DEF rest
  <1>9. Closed(rest, s, p)
    BY <1>7, <1>8 DEF Closed
  <1> QED BY <1>7, <1>9 DEF rest

\* What arrives moves to the end of what arrived, and of what is remembered.
LEMMA ArrivalRemembered ==
  ASSUME MemoryInv, NEW a \in Ids, seen' = Remember(a), met' = Append(Forget(met, a), a),
         acted' \in [Ids -> Nat]
  PROVE  MemoryInv'
  <1> DEFINE n == Len(seen)
             m == Len(met)
             d == m - n
  <1>1. /\ n \in Nat /\ m \in Nat /\ Capacity \in Nat \ {0} /\ d \in Nat /\ n + d = m
        /\ DOMAIN seen = 1..n /\ DOMAIN met = 1..m
        /\ n <= Capacity /\ (d > 0 => n = Capacity)
        /\ \A i \in 1..n : seen[i] = met[i + d]
    BY LenProperties, DeliveryAssumption DEF MemoryInv, Forgotten
  <1>2. \A i, j \in 1..m : met[i] = met[j] => i = j
    BY DEF MemoryInv, Distinct
  <1> HIDE DEF n, m, d
  <1>3. Distinct(met) /\ Distinct(seen) /\ met \in Seq(Ids) /\ seen \in Seq(Ids)
    <2>1. ASSUME NEW i \in 1..n, NEW j \in 1..n, seen[i] = seen[j] PROVE i = j
      <3>1. i + d \in 1..m /\ j + d \in 1..m
        BY <1>1
      <3>2. met[i + d] = met[j + d]
        BY <1>1, <2>1
      <3>3. i + d = j + d
        BY <1>2, <3>1, <3>2
      <3> QED BY <1>1, <3>3
    <2> QED BY <2>1 DEF MemoryInv, Distinct, n
  \* With the id at the end, and the first forgotten or not.
  <1>4. ASSUME NEW s \in Seq(Ids)
        PROVE  LET t == Append(s, a) IN
               /\ t \in Seq(Ids) /\ Len(t) = Len(s) + 1 /\ t[Len(s) + 1] = a
               /\ \A i \in 1..Len(s) : t[i] = s[i]
               /\ Tail(t) \in Seq(Ids) /\ Len(Tail(t)) = Len(s)
               /\ \A i \in 1..Len(s) : Tail(t)[i] = t[i + 1]
    <2> DEFINE t == Append(s, a)
    <2>1. /\ t \in Seq(Ids) /\ Len(t) = Len(s) + 1 /\ t[Len(s) + 1] = a
          /\ \A i \in 1..Len(s) : t[i] = s[i]
      BY AppendProperties
    <2>2. Len(s) \in Nat
      BY LenProperties
    <2> HIDE DEF t
    <2>3. t # <<>>
      BY <2>1, <2>2, EmptySeq
    <2>4. /\ Tail(t) \in Seq(Ids) /\ Len(Tail(t)) = Len(t) - 1
          /\ \A i \in 1..Len(Tail(t)) : Tail(t)[i] = t[i + 1]
      BY <2>1, <2>3, HeadTailProperties
    <2>5. Len(Tail(t)) = Len(s)
      BY <2>1, <2>2, <2>4
    <2>6. t \in Seq(Ids) /\ Tail(t) \in Seq(Ids) /\ \A i \in 1..Len(s) : Tail(t)[i] = t[i + 1]
      BY <2>1, <2>4, <2>5
    <2> QED BY <2>1, <2>5, <2>6 DEF t
  <1> DEFINE gone == Forget(met, a)
             kept == Forget(seen, a)
             full == Append(kept, a)
  <1>5. CASE \A i \in 1..m : met[i] # a
    <2>1. gone = met
      BY <1>1, <1>5 DEF Forget, Range
    <2>2. \A i \in 1..n : seen[i] # a
      BY <1>1, <1>5
    <2>3. kept = seen /\ a \notin Range(seen)
      BY <1>1, <2>2 DEF Forget, Range
    <2>4. /\ met' \in Seq(Ids) /\ Len(met') = m + 1 /\ met'[m + 1] = a
          /\ \A i \in 1..m : met'[i] = met[i]
      BY <1>3, <1>4, <2>1 DEF m
    <2>5. Distinct(met)'
      BY <1>1, <1>2, <1>5, <2>4 DEF Distinct
    <2>6. /\ full \in Seq(Ids) /\ Len(full) = n + 1 /\ full[n + 1] = a
          /\ \A i \in 1..n : full[i] = seen[i]
          /\ Tail(full) \in Seq(Ids) /\ Len(Tail(full)) = n
          /\ \A i \in 1..n : Tail(full)[i] = full[i + 1]
      BY <1>3, <1>4, <2>3 DEF n
    <2>7. seen' = IF n + 1 > Capacity THEN Tail(full) ELSE full
      BY <2>3, <2>6 DEF Remember
    <2> HIDE DEF gone, kept, full
    <2>8. CASE n + 1 > Capacity
      <3>1. seen' = Tail(full) /\ Len(seen') = n /\ n = Capacity
        BY <1>1, <2>6, <2>7, <2>8
      <3>2. ASSUME NEW i \in 1..n PROVE seen'[i] = met'[i + (d + 1)]
        <4>1. seen'[i] = full[i + 1]
          BY <2>6, <3>1
        <4>2. CASE i = n
          <5>1. i + 1 = n + 1 /\ i + (d + 1) = m + 1
            BY <1>1, <4>2
          <5> QED BY <2>4, <2>6, <4>1, <5>1
        <4>3. CASE i # n
          <5>1. i + 1 \in 1..n /\ i + (d + 1) \in 1..m /\ i + (d + 1) = i + 1 + d
            BY <1>1, <4>3
          <5>2. seen'[i] = seen[i + 1]
            BY <2>6, <4>1, <5>1
          <5>3. seen[i + 1] = met[i + 1 + d]
            BY <1>1, <5>1
          <5>4. met'[i + (d + 1)] = met[i + (d + 1)]
            BY <2>4, <5>1
          <5> QED BY <5>1, <5>2, <5>3, <5>4
        <4> QED BY <4>2, <4>3
      <3>3. Forgotten' = d + 1
        <4>1. Len(met') = m + 1 /\ Len(seen') = n /\ (m + 1) - n = d + 1
          BY <1>1, <2>4, <3>1
        <4> QED BY <4>1 DEF Forgotten
      <3>4. Len(seen') <= Len(met') /\ Len(seen') <= Capacity /\ Len(seen') = Capacity
        BY <1>1, <2>4, <3>1
      <3> QED BY <2>4, <2>5, <2>6, <3>1, <3>2, <3>3, <3>4 DEF MemoryInv
    <2>9. CASE ~(n + 1 > Capacity)
      <3>1. seen' = full /\ Len(seen') = n + 1 /\ d = 0
        BY <1>1, <2>6, <2>7, <2>9
      <3>2. ASSUME NEW i \in 1..(n + 1) PROVE seen'[i] = met'[i]
        <4>1. n = m
          BY <1>1, <3>1
        <4>2. CASE i = n + 1
          BY <2>4, <2>6, <3>1, <4>1, <4>2
        <4>3. CASE i # n + 1
          <5>1. i \in 1..n /\ i + d = i
            BY <1>1, <3>1, <4>3
          <5> QED BY <1>1, <2>4, <2>6, <3>1, <4>1, <5>1
        <4> QED BY <4>2, <4>3
      <3>3. Forgotten' = 0
        BY <1>1, <2>4, <3>1 DEF Forgotten
      <3>4. Len(seen') <= Len(met') /\ Len(seen') <= Capacity
        BY <1>1, <2>4, <2>9, <3>1
      <3>5. ASSUME NEW i \in 1..Len(seen') PROVE seen'[i] = met'[i + Forgotten']
        <4>1. i \in 1..(n + 1) /\ i + 0 = i
          BY <1>1, <3>1
        <4> QED BY <3>2, <3>3, <4>1
      <3> QED BY <2>4, <2>5, <2>6, <3>1, <3>3, <3>4, <3>5 DEF MemoryInv
    <2> QED BY <2>8, <2>9
  <1>6. ASSUME NEW p \in 1..m, met[p] = a PROVE MemoryInv'
    <2>1. /\ gone \in Seq(Ids) /\ Len(gone) = m - 1
          /\ \A i \in 1..(m - 1) : gone[i] = IF i < p THEN met[i] ELSE met[i + 1]
      <3>1. p \in 1..Len(met)
        BY <1>6 DEF m
      <3>2. gone \in Seq(Ids) /\ Closed(gone, met, p)
        BY <1>3, <1>6, <3>1, ForgetKeepsOrder
      <3> HIDE DEF gone
      <3> QED BY <3>2 DEF m, Closed
    <2>2. /\ met' \in Seq(Ids) /\ Len(met') = m /\ met'[m] = a
          /\ \A i \in 1..(m - 1) : met'[i] = IF i < p THEN met[i] ELSE met[i + 1]
      <3>1. /\ met' \in Seq(Ids) /\ Len(met') = Len(gone) + 1 /\ met'[Len(gone) + 1] = a
            /\ \A i \in 1..Len(gone) : met'[i] = gone[i]
        BY <1>4, <2>1
      <3> HIDE DEF gone
      <3> QED BY <1>1, <2>1, <3>1
    <2>3. Distinct(met)'
      <3>1. ASSUME NEW i \in 1..(m - 1)
            PROVE  \E k \in 1..m : met'[i] = met[k] /\ k # p /\ k = IF i < p THEN i ELSE i + 1
        <4>1. CASE i < p
          <5>1. i \in 1..m /\ i # p
            BY <1>1, <4>1
          <5>2. met'[i] = met[i]
            BY <2>2, <4>1
          <5> QED BY <4>1, <5>1, <5>2
        <4>2. CASE ~(i < p)
          <5>1. i + 1 \in 1..m /\ i + 1 # p /\ met'[i] = met[i + 1]
            BY <1>1, <2>2, <4>2
          <5> QED BY <4>2, <5>1
        <4> QED BY <4>1, <4>2
      <3>2. ASSUME NEW i \in 1..m, NEW j \in 1..m, met'[i] = met'[j], i < j PROVE FALSE
        <4>1. i \in 1..(m - 1)
          BY <1>1, <3>2
        <4>2. PICK k \in 1..m : met'[i] = met[k] /\ k # p /\ k = IF i < p THEN i ELSE i + 1
          BY <3>1, <4>1
        <4>3. CASE j = m
          <5>1. met[k] = met[p]
            BY <1>6, <2>2, <3>2, <4>2, <4>3
          <5> QED BY <1>2, <4>2, <5>1
        <4>4. CASE j # m
          <5>1. j \in 1..(m - 1)
            BY <1>1, <4>4
          <5>2. PICK l \in 1..m : met'[j] = met[l] /\ l # p /\ l = IF j < p THEN j ELSE j + 1
            BY <3>1, <5>1
          <5>3. k = l
            BY <1>2, <3>2, <4>2, <5>2
          <5> QED BY <1>1, <3>2, <4>2, <5>2, <5>3
        <4> QED BY <4>3, <4>4
      <3> QED BY <1>1, <2>2, <3>2 DEF Distinct
    <2>4. CASE p <= d
      <3>1. \A i \in 1..n : seen[i] # a
        <4> SUFFICES ASSUME NEW i \in 1..n, seen[i] = a PROVE FALSE
          OBVIOUS
        <4>1. i + d \in 1..m /\ met[i + d] = a
          BY <1>1
        <4> QED BY <1>1, <1>2, <1>6, <2>4, <4>1
      <3>2. kept = seen /\ a \notin Range(seen)
        BY <1>1, <3>1 DEF Forget, Range
      <3>3. /\ full \in Seq(Ids) /\ Len(full) = n + 1 /\ full[n + 1] = a
            /\ \A i \in 1..n : full[i] = seen[i]
            /\ Tail(full) \in Seq(Ids) /\ Len(Tail(full)) = n
            /\ \A i \in 1..n : Tail(full)[i] = full[i + 1]
        BY <1>3, <1>4, <3>2 DEF n
      <3>4. n = Capacity
        BY <1>1, <2>4
      <3>5. seen' = Tail(full)
        BY <1>1, <3>2, <3>3, <3>4 DEF Remember
      <3> HIDE DEF gone, kept, full
      <3>6. ASSUME NEW i \in 1..n PROVE seen'[i] = met'[i + d]
        <4>1. CASE i = n
          BY <1>1, <2>2, <3>3, <3>5, <4>1
        <4>2. CASE i # n
          <5>1. i + 1 \in 1..n /\ i + d \in 1..(m - 1) /\ ~(i + d < p)
            BY <1>1, <2>4, <4>2
          <5>2. seen'[i] = met[i + 1 + d]
            BY <1>1, <3>3, <3>5, <5>1
          <5> QED BY <1>1, <2>2, <5>1, <5>2
        <4> QED BY <4>1, <4>2
      <3>7. Len(seen') = n /\ seen' \in Seq(Ids) /\ Forgotten' = d
        <4>1. Len(seen') = n /\ seen' \in Seq(Ids)
          BY <3>3, <3>5
        <4>2. Len(met') - n = d
          BY <1>1, <2>2
        <4> QED BY <4>1, <4>2 DEF Forgotten
      <3>8. Len(seen') <= Len(met') /\ Len(seen') <= Capacity /\ Len(seen') = Capacity
        BY <1>1, <2>2, <3>4, <3>7
      <3> QED BY <2>2, <2>3, <3>6, <3>7, <3>8 DEF MemoryInv
    <2>5. CASE ~(p <= d)
      <3> DEFINE q == p - d
      <3>1. q \in 1..n /\ q + d = p
        BY <1>1, <1>6, <2>5
      <3> HIDE DEF q
      <3>7. seen[q] = a
        BY <1>1, <1>6, <3>1
      <3>2. /\ kept \in Seq(Ids) /\ Len(kept) = n - 1
            /\ \A i \in 1..(n - 1) : kept[i] = IF i < q THEN seen[i] ELSE seen[i + 1]
        <4>1. q \in 1..Len(seen)
          BY <3>1 DEF n
        <4>2. kept \in Seq(Ids) /\ Closed(kept, seen, q)
          BY <1>3, <3>7, <4>1, ForgetKeepsOrder
        <4> HIDE DEF kept
        <4> QED BY <4>2 DEF n, Closed
      <3>3. /\ full \in Seq(Ids) /\ Len(full) = n /\ full[n] = a
            /\ \A i \in 1..(n - 1) : full[i] = IF i < q THEN seen[i] ELSE seen[i + 1]
        <4>1. /\ full \in Seq(Ids) /\ Len(full) = Len(kept) + 1 /\ full[Len(kept) + 1] = a
              /\ \A i \in 1..Len(kept) : full[i] = kept[i]
          BY <1>4, <3>2
        <4> HIDE DEF kept, full
        <4> QED BY <1>1, <3>2, <4>1
      <3>4. seen' = full
        BY <1>1, <3>1, <3>7 DEF Remember, Range
      <3> HIDE DEF gone, kept, full
      <3>5. ASSUME NEW i \in 1..n PROVE seen'[i] = met'[i + d]
        <4>1. CASE i = n
          BY <1>1, <2>2, <3>3, <3>4, <4>1
        <4>2. CASE i # n
          <5>1. i \in 1..(n - 1) /\ i + d \in 1..(m - 1)
            BY <1>1, <4>2
          <5>2. i < q <=> i + d < p
            BY <1>1, <3>1, <5>1
          <5>3. CASE i < q
            BY <1>1, <2>2, <3>3, <3>4, <5>1, <5>2, <5>3
          <5>4. CASE ~(i < q)
            <6>1. seen'[i] = seen[i + 1] /\ met'[i + d] = met[i + d + 1]
              BY <1>1, <2>2, <3>3, <3>4, <5>1, <5>2, <5>4
            <6>2. seen[i + 1] = met[i + 1 + d] /\ i + 1 + d = i + d + 1
              BY <1>1, <5>1
            <6> QED BY <6>1, <6>2
          <5> QED BY <5>3, <5>4
        <4> QED BY <4>1, <4>2
      <3>8. Len(seen') = n /\ seen' \in Seq(Ids) /\ Forgotten' = d
        BY <1>1, <2>2, <3>3, <3>4 DEF Forgotten
      <3>9. Len(seen') <= Len(met') /\ Len(seen') <= Capacity /\ (d > 0 => Len(seen') = Capacity)
        BY <1>1, <2>2, <3>8
      <3> QED BY <2>2, <2>3, <3>5, <3>8, <3>9 DEF MemoryInv
    <2> QED BY <2>4, <2>5
  <1> QED BY <1>5, <1>6

LEMMA InitMemory == Init => MemoryInv
  BY DeliveryAssumption DEF Init, MemoryInv, Distinct, Forgotten

LEMMA MemoryKept ==
  ASSUME MemoryInv, UNCHANGED <<seen, met, acted>>
  PROVE  MemoryInv'
  BY DEF MemoryInv, Distinct, Forgotten

LEMMA NextMemory == MemoryInv /\ [Next]_vars => MemoryInv'
  <1> SUFFICES ASSUME MemoryInv, [Next]_vars PROVE MemoryInv'
    OBVIOUS
  <1>1. ASSUME NEW a \in Ids, Arrive(a) PROVE MemoryInv'
    <2>1. acted' \in [Ids -> Nat]
      BY <1>1 DEF Arrive, MemoryInv
    <2> QED BY <1>1, <2>1, ArrivalRemembered DEF Arrive
  <1>2. CASE Restart
    <2>1. seen' = <<>> /\ met' = <<>> /\ acted' = acted
      BY <1>2 DEF Restart
    <2> QED BY <2>1, DeliveryAssumption DEF MemoryInv, Distinct, Forgotten
  <1>3. CASE Analyze \/ Acknowledge \/ Put \/ Take \/ Land \/ Drop \/ Stop \/ UNCHANGED vars
    BY <1>3, MemoryKept DEF Analyze, Acknowledge, Put, Take, Land, Drop, Stop, vars, bot
  <1> QED BY <1>1, <1>2, <1>3 DEF Next

\* An id that arrived and is not remembered had a whole memory of others after it.
LEMMA ForgottenLongAgo ==
  ASSUME MemoryInv, NEW a, a \in Range(met), a \notin Range(seen)
  PROVE  Cardinality({i \in DOMAIN met : \E k \in 1..(i - 1) : met[k] = a}) >= Capacity
  <1> DEFINE n == Len(seen)
             m == Len(met)
             d == m - n
  <1>1. /\ n \in Nat /\ m \in Nat /\ d \in Nat /\ n + d = m /\ Capacity \in Nat
        /\ DOMAIN seen = 1..n /\ DOMAIN met = 1..m
        /\ (d > 0 => n = Capacity) /\ \A i \in 1..n : seen[i] = met[i + d]
        /\ \A i, j \in 1..m : met[i] = met[j] => i = j
    <2>1. n \in Nat /\ m \in Nat /\ DOMAIN seen = 1..n /\ DOMAIN met = 1..m
      BY LenProperties DEF MemoryInv
    <2>2. /\ n <= m /\ Capacity \in Nat /\ (d > 0 => n = Capacity)
          /\ \A i \in 1..n : seen[i] = met[i + d]
      BY DeliveryAssumption DEF MemoryInv, Forgotten
    <2>3. \A i, j \in 1..m : met[i] = met[j] => i = j
      BY DEF MemoryInv, Distinct
    <2>4. d \in Nat /\ n + d = m
      <3> HIDE DEF n, m
      <3> QED BY <2>1, <2>2
    <2> QED BY <2>1, <2>2, <2>3, <2>4
  <1> HIDE DEF n, m, d
  <1>2. PICK p \in 1..m : met[p] = a
    BY <1>1 DEF Range
  <1>3. p <= d
    <2> SUFFICES ASSUME p > d PROVE FALSE
      BY <1>1
    <2>1. p - d \in 1..n /\ seen[p - d] = a
      BY <1>1, <1>2
    <2> QED BY <1>1, <2>1 DEF Range
  <1>4. {i \in DOMAIN met : \E k \in 1..(i - 1) : met[k] = a} = (p + 1)..m
    <2>1. ASSUME NEW i \in DOMAIN met, NEW k \in 1..(i - 1), met[k] = a PROVE i \in (p + 1)..m
      <3>1. k \in 1..m /\ k < i /\ i \in 1..m
        BY <1>1
      <3>2. k = p
        BY <1>1, <1>2, <2>1, <3>1
      <3> QED BY <1>1, <3>1, <3>2
    <2>2. ASSUME NEW i \in (p + 1)..m
          PROVE  i \in DOMAIN met /\ p \in 1..(i - 1) /\ met[p] = a
      BY <1>1, <1>2
    <2> QED BY <2>1, <2>2
  <1>5. Cardinality((p + 1)..m) = m - p
    <2>1. p + 1 \in Int /\ m \in Int /\ p + 1 <= m + 1
      BY <1>1
    <2>2. Cardinality((p + 1)..m) = IF p + 1 > m THEN 0 ELSE m - (p + 1) + 1
      BY <2>1, FS_Interval
    <2> QED BY <1>1, <2>1, <2>2
  <1>6. m - p >= Capacity
    BY <1>1, <1>2, <1>3
  <1> QED BY <1>4, <1>5, <1>6

\* An activity that comes again is not acted upon again while the bot remembers
\* it, and it is forgotten only after as many others as fit, or with the process
\* (_already_handled).
THEOREM RedeliveriesDropped == Spec => ActedUponOnce
  <1> DEFINE Step ==
        \A a \in Ids : acted'[a] > acted[a] /\ a \in Range(met) =>
          Cardinality({i \in DOMAIN met : \E k \in 1..(i - 1) : met[k] = a}) >= Capacity
  <1>1. MemoryInv /\ [Next]_vars => [Step]_vars
    <2> SUFFICES ASSUME MemoryInv, [Next]_vars, NEW a \in Ids, acted'[a] > acted[a],
                        a \in Range(met)
                 PROVE  a \notin Range(seen)
      BY ForgottenLongAgo
    <2>1. acted' # acted
      BY DEF MemoryInv
    <2>2. PICK b \in Ids : Arrive(b)
      BY <2>1 DEF Next, Analyze, Acknowledge, Put, Take, Land, Drop, Stop, Restart, vars, bot
    <2>3. b \notin Range(seen) /\ acted' = [acted EXCEPT ![b] = @ + 1]
      BY <2>1, <2>2 DEF Arrive
    <2>4. a = b
      BY <2>3 DEF MemoryInv
    <2> QED BY <2>3, <2>4
  <1> QED BY <1>1, InitMemory, NextMemory, PTL DEF Spec, ActedUponOnce
=============================================================================
