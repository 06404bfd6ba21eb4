-------------------------- MODULE ReportingProofs --------------------------
(***************************************************************************)
(* Theorems about the reports, for any chats, any settings in the file and *)
(* any number of packets and starts.                                       *)
(***************************************************************************)
EXTENDS Reporting, SequenceTheorems, FiniteSetTheorems, WellFoundedInduction,
        TLAPS

Kinds == {"status", "message"}

PlaceInv ==
  /\ spc \in {"check", "accept", "serve", "store", "push", "ended"}
  /\ bpc \in {"top", "status", "drain", "message", "poll", "ended"}
  /\ proc \in {"up", "saving", "off", "dead"}
  /\ proc # "up" => spc = "ended" /\ bpc = "ended"
  /\ reports \in Nat /\ packet \in Nat /\ status \in Nat /\ out \in Nat
  /\ spc \in {"store", "push"} => packet = reports
  /\ unpublished \in BOOLEAN /\ msgQueue \in Seq(Nat)
  /\ broadcastChats \subseteq Chats /\ left \subseteq Chats
  /\ config.chats \subseteq Chats /\ file.chats \subseteq Chats
  /\ proc = "up" => config.chats \subseteq broadcastChats
  /\ received \in [Chats -> Seq(Kinds \X Nat)]

----------------------------------------------------------------------------
LEMMA MinOfNats ==
  ASSUME NEW S, S \subseteq Nat, S # {}
  PROVE  Min(S) \in S
<1>1. PICK x \in S : \A y \in S : ~ (<<y, x>> \in OpToRel(<, Nat))
  BY NatLessThanWellFounded, WFMin
<1>2. \A y \in S : x <= y
  <2> TAKE y \in S
  <2>1. <<y, x>> \in Nat \X Nat
    OBVIOUS
  <2>2. ~ (y < x)
    BY <1>1, <2>1 DEF OpToRel
  <2> QED
    BY <2>2
<1> QED
  BY <1>2 DEF Min

LEMMA FirstOfLeft ==
  ASSUME left \subseteq Chats, left # {}
  PROVE  Min(left) \in left /\ Min(left) \in Chats
BY MinOfNats, ReportingAssumption

LEMMA NothingReceived == [c \in Chats |-> <<>>] \in [Chats -> Seq(Kinds \X Nat)]
BY EmptySeq

LEMMA InitPlace == RepInit => PlaceInv
<1> SUFFICES ASSUME RepInit PROVE PlaceInv
  OBVIOUS
<1>1. file \in FileType /\ config = file
  BY ReportingAssumption DEF RepInit
<1>2. file.chats \subseteq Chats
  BY <1>1 DEF FileType
<1>3. msgQueue \in Seq(Nat)
  BY EmptySeq DEF RepInit
<1>4. received \in [Chats -> Seq(Kinds \X Nat)]
  BY NothingReceived DEF RepInit
<1> QED
  BY <1>1, <1>2, <1>3, <1>4 DEF RepInit, PlaceInv

LEMMA StepPlace ==
  ASSUME PlaceInv, [RepNext]_repVars
  PROVE  PlaceInv'
<1> USE DEF board, server, shared, users, bot, main, failure, heard
<1>1. CASE UNCHANGED repVars
  BY <1>1 DEF repVars, PlaceInv
<1>2. CASE CheckRunning \/ Accept \/ ReadRequest \/ Close
  BY <1>2 DEF CheckRunning, Accept, ReadRequest, Close, PlaceInv
<1>3. CASE ReadStatus \/ ReadMessage \/ ReadFailure
  BY <1>3 DEF ReadStatus, ReadMessage, ReadFailure, Receive, PlaceInv
<1>4. CASE StoreStatus
  BY <1>4 DEF StoreStatus, PlaceInv
<1>5. CASE PushMessage
  <2>1. msgQueue' \in Seq(Nat)
    BY <1>5, AppendProperties DEF PushMessage, PlaceInv
  <2> QED
    BY <1>5, <2>1 DEF PushMessage, PlaceInv
<1>6. CASE BotEnds \/ SendDone \/ PollEnds \/ Edit \/ CommitSettings
  BY <1>6
  DEF BotEnds, SendDone, PollEnds, Edit, CommitSettings, Sending, PlaceInv
<1>7. CASE Publish
  BY <1>7 DEF Publish, PlaceInv
<1>8. CASE SendNext
  <2> DEFINE m == Min(left)
             e == <<bpc, out>>
  <2>1. m \in Chats /\ received[m] \in Seq(Kinds \X Nat)
    BY <1>8, FirstOfLeft DEF SendNext, PlaceInv
  <2>2. e \in Kinds \X Nat
    BY <1>8 DEF SendNext, Sending, Kinds, PlaceInv
  <2>3. received' = [received EXCEPT ![m] = Append(received[m], e)]
    BY <1>8 DEF SendNext, Got
  <2> HIDE DEF m, e
  <2>4. Append(received[m], e) \in Seq(Kinds \X Nat)
    BY <2>1, <2>2, AppendProperties
  <2>5. received' \in [Chats -> Seq(Kinds \X Nat)]
    BY <2>1, <2>3, <2>4 DEF PlaceInv
  <2>6. left' \subseteq Chats
    BY <1>8 DEF SendNext, PlaceInv
  <2>7. UNCHANGED <<spc, bpc, proc, reports, packet, status, out, unpublished,
                    msgQueue, broadcastChats, config, file>>
    BY <1>8 DEF SendNext
  <2> QED
    BY <2>5, <2>6, <2>7 DEF PlaceInv
<1>9. CASE Drain
  <2>1. msgQueue # <<>> =>
          Head(msgQueue) \in Nat /\ Tail(msgQueue) \in Seq(Nat)
    BY HeadTailProperties DEF PlaceInv
  <2> QED
    BY <1>9, <2>1 DEF Drain, PlaceInv
<1>10. CASE \E c \in Chats : Command(c)
  BY <1>10 DEF Command, PlaceInv
<1>11. CASE SignalHandler
  BY <1>11 DEF SignalHandler, PlaceInv
<1>12. CASE Join
  BY <1>12 DEF Join, Broken, Config, PlaceInv
<1>13. CASE WriteConfig
  BY <1>13 DEF WriteConfig, Config, PlaceInv
<1>14. CASE SendThrows \/ Kill
  <2>1. Dies
    BY <1>14 DEF SendThrows, Kill
  <2>2. <<>> \in Seq(Nat)
    BY EmptySeq
  <2> QED
    BY <2>1, <2>2, NothingReceived DEF Dies, Blank, PlaceInv
<1>15. CASE Start
  <2>2. <<>> \in Seq(Nat)
    BY EmptySeq
  <2> QED
    BY <1>15, <2>2, NothingReceived DEF Start, Blank, PlaceInv
<1> QED
  BY <1>1, <1>2, <1>3, <1>4, <1>5, <1>6, <1>7, <1>8, <1>9, <1>10, <1>11, <1>12,
     <1>13, <1>14, <1>15 DEF RepNext, ServerStep, BotStep, UserStep, MainStep

----------------------------------------------------------------------------
(***************************************************************************)
(* No message is lost.  The property is inductive once the places of both  *)
(* threads are known.                                                      *)
(***************************************************************************)
\* What is sent to a chat is added to what it has got.
LEMMA SendAdds ==
  ASSUME PlaceInv, SendNext
  PROVE  \E m \in left :
           /\ m \in Chats /\ left' = left \ {m}
           /\ received' \in [Chats -> Seq(Kinds \X Nat)]
           /\ <<bpc, out>> \in Kinds \X Nat
           /\ Len(received'[m]) = Len(received[m]) + 1
           /\ Len(received[m]) \in Nat
           /\ received'[m][Len(received[m]) + 1] = <<bpc, out>>
           /\ \A i \in 1 .. Len(received[m]) : received'[m][i] = received[m][i]
           /\ \A c \in Chats \ {m} : received'[c] = received[c]
<1> DEFINE m == Min(left)
           e == <<bpc, out>>
<1>1. m \in left /\ m \in Chats /\ received[m] \in Seq(Kinds \X Nat)
  BY FirstOfLeft DEF SendNext, PlaceInv
<1>2. e \in Kinds \X Nat
  BY DEF SendNext, Sending, Kinds, PlaceInv
<1>3. received' = [received EXCEPT ![m] = Append(received[m], e)]
  BY DEF SendNext, Got
<1>4. left' = left \ {m}
  BY DEF SendNext
<1> HIDE DEF m, e
<1>5. /\ Append(received[m], e) \in Seq(Kinds \X Nat)
      /\ Len(Append(received[m], e)) = Len(received[m]) + 1
      /\ \A i \in 1 .. Len(received[m]) :
           Append(received[m], e)[i] = received[m][i]
      /\ Append(received[m], e)[Len(received[m]) + 1] = e
  BY <1>1, <1>2, AppendProperties
<1>6. received'[m] = Append(received[m], e)
      /\ \A c \in Chats \ {m} : received'[c] = received[c]
  BY <1>1, <1>3 DEF PlaceInv
<1>7. received' \in [Chats -> Seq(Kinds \X Nat)]
  BY <1>1, <1>3, <1>5 DEF PlaceInv
<1>8. Len(received[m]) \in Nat
  BY <1>1, LenProperties
<1>9. /\ m \in left /\ m \in Chats /\ left' = left \ {m}
      /\ received' \in [Chats -> Seq(Kinds \X Nat)]
      /\ e \in Kinds \X Nat
      /\ Len(received'[m]) = Len(received[m]) + 1
      /\ Len(received[m]) \in Nat
      /\ received'[m][Len(received[m]) + 1] = e
      /\ \A i \in 1 .. Len(received[m]) : received'[m][i] = received[m][i]
      /\ \A c \in Chats \ {m} : received'[c] = received[c]
  BY <1>1, <1>2, <1>4, <1>5, <1>6, <1>7, <1>8
<1> QED
  BY <1>9 DEF e

LEMMA InitLost == RepInit => NoMessageLost
BY DEF RepInit, NoMessageLost

LEMMA StepLost ==
  ASSUME PlaceInv, NoMessageLost, [RepNext]_repVars
  PROVE  NoMessageLost'
<1> USE DEF board, server, shared, users, bot, main, failure, heard
<1> DEFINE Waits(n) == \E i \in DOMAIN msgQueue : msgQueue[i] = n
           Reaches(n) ==
             \A c \in config.chats :
               Heard(c, "message", n)
                 \/ (bpc = "message" /\ out = n /\ c \in left)
<1>0. proc = "up" => \A n \in pushed : Waits(n) \/ Reaches(n)
  BY DEF NoMessageLost
<1>1. CASE UNCHANGED repVars
  BY <1>1 DEF repVars, NoMessageLost, Heard
<1>2. CASE CheckRunning \/ Accept \/ ReadRequest \/ Close
  BY <1>2 DEF CheckRunning, Accept, ReadRequest, Close, NoMessageLost, Heard
<1>3. CASE ReadStatus \/ ReadMessage \/ ReadFailure
  <2>1. UNCHANGED <<proc, pushed, msgQueue, config, received, bpc, out, left>>
    BY <1>3 DEF ReadStatus, ReadMessage, ReadFailure
  <2> QED
    BY <2>1 DEF NoMessageLost, Heard
<1>4. CASE StoreStatus
  BY <1>4 DEF StoreStatus, NoMessageLost, Heard
<1>5. CASE PushMessage
  <2>1. /\ msgQueue' \in Seq(Nat) /\ Len(msgQueue') = Len(msgQueue) + 1
        /\ \A i \in 1 .. Len(msgQueue) : msgQueue'[i] = msgQueue[i]
        /\ msgQueue'[Len(msgQueue) + 1] = packet
    BY <1>5, AppendProperties DEF PushMessage, PlaceInv
  <2>2. /\ Len(msgQueue) \in Nat /\ DOMAIN msgQueue = 1 .. Len(msgQueue)
        /\ DOMAIN msgQueue' = 1 .. Len(msgQueue) + 1
    BY <2>1, LenProperties DEF PlaceInv
  <2>3. \A n : Waits(n) => Waits(n)'
    BY <2>1, <2>2
  <2>4. ASSUME NEW n, n = packet
        PROVE  Waits(n)'
    BY <2>1, <2>2, <2>4
  <2>5. \A n : Reaches(n) => Reaches(n)'
    BY <1>5 DEF PushMessage, Heard
  <2>6. proc' = "up" => \A n \in pushed' : Waits(n)' \/ Reaches(n)'
    BY <1>0, <1>5, <2>3, <2>4, <2>5 DEF PushMessage
  <2> QED
    BY <2>6 DEF NoMessageLost
<1>6. CASE BotEnds \/ PollEnds \/ Edit \/ CommitSettings
  BY <1>6 DEF BotEnds, PollEnds, Edit, CommitSettings, NoMessageLost, Heard
<1>7. CASE SendDone
  BY <1>7 DEF SendDone, NoMessageLost, Heard
<1>8. CASE Publish
  BY <1>8 DEF Publish, NoMessageLost, Heard
<1>9. CASE SendNext
  <2>1. PICK m \in left :
           /\ m \in Chats /\ left' = left \ {m}
           /\ received' \in [Chats -> Seq(Kinds \X Nat)]
           /\ <<bpc, out>> \in Kinds \X Nat
           /\ Len(received'[m]) = Len(received[m]) + 1
           /\ Len(received[m]) \in Nat
           /\ received'[m][Len(received[m]) + 1] = <<bpc, out>>
           /\ \A i \in 1 .. Len(received[m]) : received'[m][i] = received[m][i]
           /\ \A c \in Chats \ {m} : received'[c] = received[c]
    BY <1>9, SendAdds
  <2>2. /\ DOMAIN received[m] = 1 .. Len(received[m])
        /\ DOMAIN received'[m] = 1 .. Len(received[m]) + 1
    <3>1. received[m] \in Seq(Kinds \X Nat) /\ received'[m] \in Seq(Kinds \X Nat)
      BY <2>1 DEF PlaceInv
    <3> QED
      BY <2>1, <3>1, LenProperties
  <2>3. ASSUME NEW c \in Chats, NEW n, Heard(c, "message", n)
        PROVE  Heard(c, "message", n)'
    <3>1. CASE c # m
      BY <2>1, <2>3, <3>1 DEF Heard
    <3>2. CASE c = m
      <4>1. PICK i \in 1 .. Len(received[m]) : received[m][i] = <<"message", n>>
        BY <2>2, <2>3, <3>2 DEF Heard
      <4>2. i \in DOMAIN received'[m] /\ received'[m][i] = <<"message", n>>
        BY <2>1, <2>2, <4>1
      <4> QED
        BY <3>2, <4>2 DEF Heard
    <3> QED
      BY <3>1, <3>2
  <2>4. ASSUME NEW n, bpc = "message", out = n
        PROVE  Heard(m, "message", n)'
    BY <2>1, <2>2, <2>4 DEF Heard
  <2>5. /\ UNCHANGED <<proc, config, pushed, msgQueue, bpc, out>>
        /\ config.chats \subseteq Chats
    BY <1>9 DEF SendNext, PlaceInv
  <2>6. ASSUME NEW n, Reaches(n)
        PROVE  Reaches(n)'
    <3> SUFFICES ASSUME NEW c \in config.chats
                 PROVE  \/ Heard(c, "message", n)'
                        \/ bpc = "message" /\ out = n /\ c \in left'
      BY <2>5
    <3>1. CASE Heard(c, "message", n)
      BY <2>3, <2>5, <3>1
    <3>2. CASE bpc = "message" /\ out = n /\ c \in left
      BY <2>1, <2>4, <3>2
    <3> QED
      BY <2>6, <3>1, <3>2
  <2>7. \A n : Waits(n) => Waits(n)'
    BY <2>5
  <2>8. proc' = "up" => \A n \in pushed' : Waits(n)' \/ Reaches(n)'
    BY <1>0, <2>5, <2>6, <2>7
  <2> QED
    BY <2>8 DEF NoMessageLost
<1>10. CASE Drain
  <2>1. CASE ~(running /\ msgQueue # <<>>)
    BY <1>10, <2>1 DEF Drain, NoMessageLost, Heard
  <2>2. CASE running /\ msgQueue # <<>>
    <3>1. /\ bpc = "drain" /\ bpc' = "message" /\ out' = Head(msgQueue)
          /\ msgQueue' = Tail(msgQueue) /\ left' = broadcastChats
          /\ UNCHANGED <<proc, config, pushed, received>>
      BY <1>10, <2>2 DEF Drain
    <3>2. /\ Len(msgQueue) \in Nat \ {0} /\ DOMAIN msgQueue = 1 .. Len(msgQueue)
      BY <2>2, EmptySeq, LenProperties DEF PlaceInv
    <3>3. /\ msgQueue' \in Seq(Nat) /\ Len(msgQueue') = Len(msgQueue) - 1
          /\ \A i \in 1 .. Len(msgQueue') : msgQueue'[i] = msgQueue[i + 1]
      BY <2>2, <3>1, HeadTailProperties DEF PlaceInv
    <3>4. DOMAIN msgQueue' = 1 .. Len(msgQueue) - 1
      BY <3>3, LenProperties
    <3>5. Head(msgQueue) = msgQueue[1]
      BY <2>2 DEF PlaceInv
    <3>6. ASSUME NEW n, Waits(n), n # Head(msgQueue)
          PROVE  Waits(n)'
      <4>1. PICK i \in 1 .. Len(msgQueue) : msgQueue[i] = n
        BY <3>2, <3>6
      <4>2. i - 1 \in 1 .. Len(msgQueue) - 1
        BY <3>2, <3>5, <3>6, <4>1
      <4>3. msgQueue'[i - 1] = n
        BY <3>3, <4>1, <4>2
      <4> QED
        BY <3>4, <4>2, <4>3
    <3>7. ASSUME proc = "up", NEW n, n = Head(msgQueue)
          PROVE  Reaches(n)'
      BY <3>1, <3>7 DEF PlaceInv
    <3>8. \A n : Reaches(n) => Reaches(n)'
      BY <3>1 DEF Heard
    <3>9. proc' = "up" => \A n \in pushed' : Waits(n)' \/ Reaches(n)'
      BY <1>0, <3>1, <3>6, <3>7, <3>8
    <3> QED
      BY <3>9 DEF NoMessageLost
  <2> QED
    BY <2>1, <2>2
<1>11. CASE \E c \in Chats : Command(c)
  BY <1>11 DEF Command, NoMessageLost, Heard
<1>12. CASE SignalHandler
  BY <1>12 DEF SignalHandler, NoMessageLost, Heard
<1>13. CASE Join \/ WriteConfig
  BY <1>13 DEF Join, WriteConfig, NoMessageLost
<1>14. CASE SendThrows \/ Kill
  BY <1>14 DEF SendThrows, Kill, Dies, NoMessageLost
<1>15. CASE Start
  BY <1>15 DEF Start, Blank, NoMessageLost
<1> QED
  BY <1>1, <1>2, <1>3, <1>4, <1>5, <1>6, <1>7, <1>8, <1>9, <1>10, <1>11, <1>12,
     <1>13, <1>14, <1>15 DEF RepNext, ServerStep, BotStep, UserStep, MainStep

----------------------------------------------------------------------------
(***************************************************************************)
(* Order.  The order of what a chat has got follows from where its entries *)
(* stand relative to what is still on the way.  Numbers are taken before   *)
(* the packet in the server's hand, if it has one that is worth reporting. *)
(***************************************************************************)
Taken(n) == IF spc \in {"store", "push"} THEN n < reports ELSE n <= reports

\* A status c has got: before the one to come, and at most the one being sent.
StatusPast(c, n) ==
  /\ Taken(n) /\ n <= status /\ (unpublished => n < status)
  /\ bpc = "status" => n <= out /\ (c \in left => n < out)

\* A message c has got: before those in the queue, at most the one being sent.
MessagePast(c, n) ==
  /\ Taken(n) /\ (\A i \in 1 .. Len(msgQueue) : n < msgQueue[i])
  /\ bpc = "message" => n <= out /\ (c \in left => n < out)

WayInv ==
  /\ Taken(status)
  /\ bpc = "status" => out <= status /\ (unpublished => out < status)
  /\ \A i \in 1 .. Len(msgQueue) : Taken(msgQueue[i])
  /\ \A i, j \in 1 .. Len(msgQueue) : i < j => msgQueue[i] < msgQueue[j]
  /\ bpc = "message" =>
       Taken(out) /\ \A i \in 1 .. Len(msgQueue) : out < msgQueue[i]

PastInv ==
  \A c \in Chats : \A i \in 1 .. Len(received[c]) :
    /\ received[c][i][1] = "status" => StatusPast(c, received[c][i][2])
    /\ received[c][i][1] = "message" => MessagePast(c, received[c][i][2])

OrderInv == WayInv /\ PastInv /\ HeardInOrder

LEMMA Entries ==
  ASSUME PlaceInv
  PROVE  /\ \A c \in Chats : Len(received[c]) \in Nat
         /\ \A c \in Chats : DOMAIN received[c] = 1 .. Len(received[c])
         /\ \A c \in Chats : \A i \in 1 .. Len(received[c]) :
              received[c][i][1] \in Kinds /\ received[c][i][2] \in Nat
         /\ Len(msgQueue) \in Nat
         /\ \A i \in 1 .. Len(msgQueue) : msgQueue[i] \in Nat
<1>1. \A c \in Chats : received[c] \in Seq(Kinds \X Nat)
  BY DEF PlaceInv
<1>2. ASSUME NEW c \in Chats, NEW i \in 1 .. Len(received[c])
      PROVE  received[c][i][1] \in Kinds /\ received[c][i][2] \in Nat
  <2>1. received[c][i] \in Kinds \X Nat
    BY <1>1, ElementOfSeq
  <2> QED
    BY <2>1
<1> QED
  BY <1>1, <1>2, LenProperties, ElementOfSeq DEF PlaceInv

LEMMA InitOrder == RepInit => OrderInv
<1> SUFFICES ASSUME RepInit PROVE OrderInv
  OBVIOUS
<1>1. Len(msgQueue) = 0 /\ \A c \in Chats : Len(received[c]) = 0
  BY DEF RepInit
<1>2. \A c \in Chats : DOMAIN received[c] = {}
  BY DEF RepInit
<1>3. WayInv
  BY <1>1 DEF RepInit, WayInv, Taken
<1>4. PastInv
  BY <1>1 DEF PastInv
<1> QED
  BY <1>2, <1>3, <1>4 DEF OrderInv, HeardInOrder

(***************************************************************************)
(* As long as nothing is sent, what was got stays in order, and it stays   *)
(* past if every number that was past still is.                            *)
(***************************************************************************)
LEMMA KeepOrder ==
  ASSUME PlaceInv, OrderInv, UNCHANGED received, WayInv',
         \A c \in Chats, n \in Nat :
           /\ StatusPast(c, n) => StatusPast(c, n)'
           /\ MessagePast(c, n) => MessagePast(c, n)'
  PROVE  OrderInv'
<1>1. PastInv'
  BY Entries DEF OrderInv, PastInv
<1>2. HeardInOrder'
  BY DEF OrderInv, HeardInOrder
<1> QED
  BY <1>1, <1>2 DEF OrderInv

LEMMA StepOrder ==
  ASSUME PlaceInv, OrderInv, [RepNext]_repVars
  PROVE  OrderInv'
<1> USE DEF board, server, shared, users, bot, main, failure, heard
<1>0. /\ WayInv /\ PastInv /\ HeardInOrder
      /\ reports \in Nat /\ out \in Nat /\ status \in Nat
      /\ spc \in {"store", "push"} => packet = reports
  BY DEF OrderInv, PlaceInv
<1>a. Len(msgQueue) \in Nat /\ \A i \in 1 .. Len(msgQueue) : msgQueue[i] \in Nat
  BY Entries
<1>1. CASE UNCHANGED repVars
  <2>1. WayInv'
    BY <1>0, <1>1 DEF repVars, WayInv, Taken
  <2> QED
    BY <1>1, <2>1, KeepOrder DEF repVars, StatusPast, MessagePast, Taken
\* Nothing moves but the places of the threads, to where they hold nothing.
<1>2. ASSUME UNCHANGED <<reports, status, unpublished, msgQueue, received>>,
             spc' = spc \/ spc' \notin {"store", "push"},
             \/ UNCHANGED <<bpc, out, left>>
             \/ bpc' \notin {"status", "message"}
      PROVE  OrderInv'
  <2>1. \A n \in Nat : Taken(n) => Taken(n)'
    BY <1>0, <1>2 DEF Taken
  <2>2. WayInv'
    BY <1>0, <1>a, <1>2, <2>1 DEF WayInv
  <2>3. \A c \in Chats, n \in Nat :
           /\ StatusPast(c, n) => StatusPast(c, n)'
           /\ MessagePast(c, n) => MessagePast(c, n)'
    BY <1>2, <2>1 DEF StatusPast, MessagePast
  <2> QED
    BY <1>2, <2>2, <2>3, KeepOrder
<1>3. CASE CheckRunning \/ Accept \/ ReadRequest \/ Close \/ BotEnds \/ SendDone
             \/ PollEnds \/ Edit \/ CommitSettings
             \/ (\E c \in Chats : Command(c)) \/ SignalHandler \/ Join
             \/ WriteConfig
  <2>1. /\ UNCHANGED <<reports, status, unpublished, msgQueue, received>>
        /\ spc' = spc \/ spc' \notin {"store", "push"}
        /\ UNCHANGED <<bpc, out, left>> \/ bpc' \notin {"status", "message"}
    BY <1>3 DEF CheckRunning, Accept, ReadRequest, Close, BotEnds, SendDone,
       PollEnds, Edit, CommitSettings, Command, SignalHandler, Join, WriteConfig
  <2> QED
    BY <1>2, <2>1
<1>4. CASE ReadStatus \/ ReadMessage \/ ReadFailure
  <2>1. /\ UNCHANGED <<status, unpublished, msgQueue, received, bpc, out, left>>
        /\ reports' = reports + 1 /\ spc = "serve"
    BY <1>4 DEF ReadStatus, ReadMessage, ReadFailure, Receive
  <2>2. \A n \in Nat : Taken(n) => Taken(n)'
    BY <1>0, <2>1 DEF Taken
  <2>3. WayInv'
    BY <1>0, <1>a, <2>1, <2>2 DEF WayInv
  <2>4. \A c \in Chats, n \in Nat :
           /\ StatusPast(c, n) => StatusPast(c, n)'
           /\ MessagePast(c, n) => MessagePast(c, n)'
    BY <2>1, <2>2 DEF StatusPast, MessagePast
  <2> QED
    BY <2>1, <2>3, <2>4, KeepOrder
<1>5. CASE StoreStatus
  <2>1. /\ UNCHANGED <<reports, msgQueue, received, bpc, out, left>>
        /\ spc = "store" /\ spc' = "serve" /\ status' = reports /\ unpublished'
    BY <1>0, <1>5 DEF StoreStatus
  <2>2. /\ \A n \in Nat : Taken(n) => Taken(n)' /\ n < status'
        /\ (Taken(status))'
    BY <1>0, <2>1 DEF Taken
  <2>3. WayInv'
    <3>1. bpc = "status" => out < status'
      BY <1>0, <2>1, <2>2 DEF WayInv, Taken
    <3> QED
      BY <1>0, <1>a, <2>1, <2>2, <3>1 DEF WayInv
  <2>4. \A c \in Chats, n \in Nat :
           /\ StatusPast(c, n) => StatusPast(c, n)'
           /\ MessagePast(c, n) => MessagePast(c, n)'
    BY <1>0, <2>1, <2>2 DEF StatusPast, MessagePast
  <2> QED
    BY <2>1, <2>3, <2>4, KeepOrder
<1>6. CASE PushMessage
  <2>1. /\ UNCHANGED <<reports, status, unpublished, received, bpc, out, left>>
        /\ spc = "push" /\ spc' = "serve"
        /\ Len(msgQueue') = Len(msgQueue) + 1
        /\ \A i \in 1 .. Len(msgQueue) : msgQueue'[i] = msgQueue[i]
        /\ msgQueue'[Len(msgQueue) + 1] = reports
    BY <1>0, <1>6, AppendProperties DEF PushMessage, PlaceInv
  <2>2. \A n \in Nat : Taken(n) => Taken(n)' /\ n < reports
    BY <1>0, <2>1 DEF Taken
  <2>3. \A i \in 1 .. Len(msgQueue) + 1 :
          \/ i \in 1 .. Len(msgQueue) /\ msgQueue'[i] = msgQueue[i]
          \/ i = Len(msgQueue) + 1 /\ msgQueue'[i] = reports
    BY <1>a, <2>1
  <2>4. WayInv'
    <3>1. (Taken(reports))' /\ (Taken(status))'
      BY <1>0, <2>1, <2>2 DEF Taken, WayInv
    <3>2. bpc = "status" => out <= status /\ (unpublished => out < status)
      BY <1>0 DEF WayInv
    <3>3. \A i \in 1 .. Len(msgQueue') : msgQueue'[i] <= reports
      BY <1>0, <1>a, <2>1, <2>2, <2>3 DEF WayInv
    <3>4. \A i \in 1 .. Len(msgQueue') : (Taken(msgQueue[i]))'
      BY <2>1, <3>3 DEF Taken
    <3>5. \A i, j \in 1 .. Len(msgQueue') : i < j => msgQueue'[i] < msgQueue'[j]
      BY <1>0, <1>a, <2>1, <2>2, <2>3 DEF WayInv
    <3>6. bpc = "message" =>
            (Taken(out))' /\ \A i \in 1 .. Len(msgQueue') : out < msgQueue'[i]
      BY <1>0, <1>a, <2>1, <2>2, <2>3 DEF WayInv, Taken
    <3> QED
      BY <2>1, <3>1, <3>2, <3>4, <3>5, <3>6 DEF WayInv
  <2>5. \A c \in Chats, n \in Nat :
           /\ StatusPast(c, n) => StatusPast(c, n)'
           /\ MessagePast(c, n) => MessagePast(c, n)'
    BY <1>a, <2>1, <2>2, <2>3 DEF StatusPast, MessagePast
  <2> QED
    BY <2>1, <2>4, <2>5, KeepOrder
<1>7. CASE Publish
  <2>1. CASE ~unpublished
    <3>1. /\ UNCHANGED <<reports, status, msgQueue, received, spc>>
          /\ bpc' = "drain" /\ unpublished' = FALSE
      BY <1>7, <2>1 DEF Publish
    <3>2. WayInv'
      BY <1>0, <3>1 DEF WayInv, Taken
    <3>3. \A c \in Chats, n \in Nat :
             /\ StatusPast(c, n) => StatusPast(c, n)'
             /\ MessagePast(c, n) => MessagePast(c, n)'
      BY <3>1 DEF StatusPast, MessagePast, Taken
    <3> QED
      BY <3>1, <3>2, <3>3, KeepOrder
  <2>2. CASE unpublished
    <3>1. /\ UNCHANGED <<reports, status, msgQueue, received, spc>>
          /\ bpc' = "status" /\ out' = status /\ unpublished' = FALSE
      BY <1>7, <2>2 DEF Publish
    <3>2. WayInv'
      BY <1>0, <3>1 DEF WayInv, Taken
    <3>3. \A c \in Chats, n \in Nat :
             /\ StatusPast(c, n) => StatusPast(c, n)'
             /\ MessagePast(c, n) => MessagePast(c, n)'
      BY <2>2, <3>1 DEF StatusPast, MessagePast, Taken
    <3> QED
      BY <3>1, <3>2, <3>3, KeepOrder
  <2> QED
    BY <2>1, <2>2
<1>8. CASE Drain
  <2>1. CASE ~(running /\ msgQueue # <<>>)
    <3>1. /\ UNCHANGED <<reports, status, unpublished, msgQueue, received, spc>>
          /\ bpc' = "poll"
      BY <1>8, <2>1 DEF Drain
    <3> QED
      BY <1>2, <3>1
  <2>2. CASE running /\ msgQueue # <<>>
    <3>1. /\ UNCHANGED <<reports, status, unpublished, received, spc>>
          /\ bpc' = "message" /\ out' = Head(msgQueue)
          /\ msgQueue' = Tail(msgQueue)
      BY <1>8, <2>2 DEF Drain
    <3>2. /\ Len(msgQueue') = Len(msgQueue) - 1 /\ Len(msgQueue) >= 1
          /\ \A i \in 1 .. Len(msgQueue) - 1 : msgQueue'[i] = msgQueue[i + 1]
      BY <1>a, <2>2, <3>1, EmptySeq, HeadTailProperties DEF PlaceInv
    <3>3. out' = msgQueue[1] /\ out' \in Nat
      BY <1>a, <2>2, <3>1, <3>2 DEF PlaceInv
    <3>4. \A n : Taken(n)' <=> Taken(n)
      BY <3>1 DEF Taken
    <3>5. WayInv'
      <4>1. \A i \in 1 .. Len(msgQueue') : i + 1 \in 1 .. Len(msgQueue)
        BY <1>a, <3>2
      <4>2. ASSUME NEW i \in 1 .. Len(msgQueue')
            PROVE  Taken(msgQueue'[i]) /\ out' < msgQueue'[i]
        <5>1. /\ i + 1 \in 1 .. Len(msgQueue) /\ 1 \in 1 .. Len(msgQueue)
              /\ 1 < i + 1 /\ msgQueue'[i] = msgQueue[i + 1]
          BY <1>a, <3>2, <4>1
        <5> QED
          BY <1>0, <3>3, <5>1 DEF WayInv
      <4>3. ASSUME NEW i \in 1 .. Len(msgQueue'), NEW j \in 1 .. Len(msgQueue'),
                   i < j
            PROVE  msgQueue'[i] < msgQueue'[j]
        <5>1. /\ i + 1 \in 1 .. Len(msgQueue) /\ j + 1 \in 1 .. Len(msgQueue)
              /\ i + 1 < j + 1 /\ msgQueue'[i] = msgQueue[i + 1]
              /\ msgQueue'[j] = msgQueue[j + 1]
          BY <1>a, <3>2, <4>1, <4>3
        <5> QED
          BY <1>0, <5>1 DEF WayInv
      <4>4. Taken(out')
        BY <1>0, <1>a, <3>2, <3>3 DEF WayInv
      <4>5. /\ (Taken(status))' /\ (Taken(out))'
            /\ \A i \in 1 .. Len(msgQueue') : (Taken(msgQueue[i]))'
        BY <1>0, <3>1, <4>2, <4>4 DEF Taken, WayInv
      <4> QED
        BY <3>1, <4>2, <4>3, <4>5 DEF WayInv
    <3>6. \A c \in Chats, n \in Nat :
             /\ StatusPast(c, n) => StatusPast(c, n)'
             /\ MessagePast(c, n) => MessagePast(c, n)'
      BY <1>a, <3>1, <3>2, <3>3, <3>4 DEF StatusPast, MessagePast
    <3> QED
      BY <3>1, <3>5, <3>6, KeepOrder
  <2> QED
    BY <2>1, <2>2
<1>9. CASE SendThrows \/ Kill \/ Start
  <2>1. /\ msgQueue' = <<>> /\ received' = [c \in Chats |-> <<>>]
        /\ status' = 0 /\ spc' \in {"ended", "check"} /\ bpc' \in {"ended", "top"}
        /\ reports' = reports /\ unpublished' = FALSE
    BY <1>9 DEF SendThrows, Kill, Dies, Start, Blank
  <2>2. /\ Len(msgQueue') = 0 /\ \A c \in Chats : Len(received'[c]) = 0
        /\ \A c \in Chats : DOMAIN received'[c] = {}
    BY <2>1
  <2>3. WayInv'
    BY <1>0, <2>1, <2>2 DEF WayInv, Taken
  <2>4. PastInv' /\ HeardInOrder'
    BY <2>2 DEF PastInv, HeardInOrder
  <2> QED
    BY <2>3, <2>4 DEF OrderInv
<1>10. CASE SendNext
  <2>1. PICK m \in left :
           /\ m \in Chats /\ left' = left \ {m}
           /\ received' \in [Chats -> Seq(Kinds \X Nat)]
           /\ <<bpc, out>> \in Kinds \X Nat
           /\ Len(received'[m]) = Len(received[m]) + 1
           /\ Len(received[m]) \in Nat
           /\ received'[m][Len(received[m]) + 1] = <<bpc, out>>
           /\ \A i \in 1 .. Len(received[m]) : received'[m][i] = received[m][i]
           /\ \A c \in Chats \ {m} : received'[c] = received[c]
    BY <1>10, SendAdds
  <2>2. /\ UNCHANGED <<spc, bpc, reports, status, unpublished, msgQueue, out>>
        /\ bpc \in {"status", "message"}
    BY <1>10 DEF SendNext, Sending
  <2>3. WayInv'
    BY <1>0, <2>2 DEF WayInv, Taken
  <2>4. \A n : (Taken(n))' <=> Taken(n)
    BY <2>2 DEF Taken
  <2>5. \A c \in Chats, n \in Nat :
           /\ StatusPast(c, n) => (StatusPast(c, n))'
           /\ MessagePast(c, n) => (MessagePast(c, n))'
    BY <2>1, <2>2, <2>4 DEF StatusPast, MessagePast
  <2>6. ASSUME NEW c \in Chats, NEW i \in 1 .. Len(received'[c])
        PROVE  \/ /\ i \in 1 .. Len(received[c])
                  /\ received'[c][i] = received[c][i]
               \/ /\ c = m /\ i = Len(received[m]) + 1
                  /\ received'[c][i][1] = bpc /\ received'[c][i][2] = out
    <3>1. CASE c # m
      BY <2>1, <2>6, <3>1
    <3>2. CASE c = m
      BY <2>1, <2>6, <3>2
    <3> QED
      BY <3>1, <3>2
  \* What is sent now is past now.
  <2>7. /\ bpc = "status" => (StatusPast(m, out))'
        /\ bpc = "message" => (MessagePast(m, out))'
    BY <1>0, <2>1, <2>2, <2>4 DEF WayInv, StatusPast, MessagePast, Taken
  <2>8. PastInv'
    <3> SUFFICES ASSUME NEW c \in Chats, NEW i \in 1 .. Len(received'[c])
                 PROVE  /\ received'[c][i][1] = "status" =>
                             (StatusPast(c, received[c][i][2]))'
                        /\ received'[c][i][1] = "message" =>
                             (MessagePast(c, received[c][i][2]))'
      BY DEF PastInv
    <3>1. CASE i \in 1 .. Len(received[c]) /\ received'[c][i] = received[c][i]
      <4>1. received[c][i][2] \in Nat
        BY <3>1, Entries
      <4>2. /\ received[c][i][1] = "status" => StatusPast(c, received[c][i][2])
            /\ received[c][i][1] = "message" => MessagePast(c, received[c][i][2])
        BY <1>0, <3>1 DEF PastInv
      <4> DEFINE n == received[c][i][2]
      <4>3. received'[c][i][2] = n
        BY <3>1
      <4>4. \A k \in Nat : /\ StatusPast(c, k) => (StatusPast(c, k))'
                           /\ MessagePast(c, k) => (MessagePast(c, k))'
        BY <2>5
      <4> QED
        BY <3>1, <4>1, <4>2, <4>3, <4>4 DEF StatusPast, MessagePast, Taken
    <3>2. CASE /\ c = m /\ i = Len(received[m]) + 1
               /\ received'[c][i][1] = bpc /\ received'[c][i][2] = out
      BY <2>2, <2>7, <3>2 DEF StatusPast, MessagePast, Taken
    <3> QED
      BY <2>6, <3>1, <3>2
  <2>9. HeardInOrder'
    <3> SUFFICES ASSUME NEW c \in Chats, NEW i \in DOMAIN received'[c],
                        NEW j \in DOMAIN received'[c], i < j,
                        received'[c][i][1] = received'[c][j][1]
                 PROVE  received'[c][i][2] < received'[c][j][2]
      BY DEF HeardInOrder
    <3>1. DOMAIN received'[c] = 1 .. Len(received'[c])
          /\ Len(received'[c]) \in Nat
      BY <2>1, LenProperties
    <3>a. i \in 1 .. Len(received'[c]) /\ j \in 1 .. Len(received'[c]) /\ i < j
      BY <3>1
    <3>b. c = m => i \in 1 .. Len(received[m]) + 1
                     /\ j \in 1 .. Len(received[m]) + 1
      BY <2>1, <3>a
    <3>c. i \in Int /\ j \in Int
      BY <3>a
    <3>2. /\ DOMAIN received[c] = 1 .. Len(received[c])
          /\ Len(received[c]) \in Nat
      BY Entries
    <3>3. CASE c # m
      BY <1>0, <2>1, <3>3 DEF HeardInOrder
    <3>4. CASE c = m /\ j \in 1 .. Len(received[m])
      <4>1. i \in 1 .. Len(received[m])
        BY <2>1, <3>a, <3>b, <3>c, <3>4
      <4>2. received'[c][i] = received[c][i] /\ received'[c][j] = received[c][j]
        BY <2>1, <3>4, <4>1
      <4> QED
        BY <1>0, <3>2, <3>4, <4>1, <4>2 DEF HeardInOrder
    <3>5. CASE c = m /\ j \notin 1 .. Len(received[m])
      <4>1. j = Len(received[m]) + 1 /\ i \in 1 .. Len(received[m])
        BY <2>1, <3>a, <3>b, <3>c, <3>5
      <4>2. received'[c][j][1] = bpc /\ received'[c][j][2] = out
            /\ received'[c][i] = received[c][i]
        BY <2>1, <3>5, <4>1
      <4>3. received[c][i][1] = bpc /\ received[c][i][2] \in Nat
        BY <3>5, <4>1, <4>2, Entries
      <4>4. received[c][i][2] < out
        BY <1>0, <2>1, <2>2, <3>5, <4>1, <4>3 DEF PastInv, StatusPast, MessagePast
      <4> QED
        BY <4>2, <4>4
    <3> QED
      BY <3>3, <3>4, <3>5
  <2> QED
    BY <2>3, <2>8, <2>9 DEF OrderInv
<1> QED
  BY <1>1, <1>3, <1>4, <1>5, <1>6, <1>7, <1>8, <1>9, <1>10
  DEF RepNext, ServerStep, BotStep, UserStep, MainStep

----------------------------------------------------------------------------
(***************************************************************************)
(* The failure flag: it is with the settings once the server has some, and *)
(* with the board until then; the file has it when the process is off, and *)
(* so has a snapshot that was taken after the failure.                     *)
(***************************************************************************)
HasFlag(s) == "hardwareFailure" \in DOMAIN s /\ s.hardwareFailure \in BOOLEAN

FlagInv ==
  /\ HasFlag(settings) /\ boardFailed \in BOOLEAN
  /\ valid \in BOOLEAN /\ reported \in BOOLEAN /\ outdated \in BOOLEAN
  /\ snapshot # NoSnapshot =>
       /\ HasFlag(snapshot) /\ valid
       /\ reported /\ ~outdated => snapshot.hardwareFailure
  /\ IsReadable(file.node) => HasFlag(Decode(file.node.settings))
  /\ reported => IF valid THEN settings.hardwareFailure ELSE boardFailed
  /\ proc \in {"up", "saving"} /\ ~valid => ~IsReadable(config.node)
  /\ proc = "off" =>
       /\ IsReadable(file.node) <=> valid
       /\ valid => Decode(file.node.settings).hardwareFailure
                     = settings.hardwareFailure
  /\ proc = "dead" => ~reported

\* Encoding and decoding leave the flag alone.
LEMMA FlagIsWritten ==
  ASSUME NEW s, HasFlag(s)
  PROVE  /\ IsReadable(NodeOf(s))
         /\ HasFlag(Decode(NodeOf(s).settings))
         /\ Decode(NodeOf(s).settings).hardwareFailure = s.hardwareFailure
<1>1. IsReadable(NodeOf(s)) /\ NodeOf(s).settings = Encode(s)
  BY DEF NodeOf, IsReadable
<1>2. DOMAIN Encode(s) = DOMAIN s /\ Encode(s).hardwareFailure = s.hardwareFailure
  BY DEF Encode, HasFlag
<1>3. /\ DOMAIN Decode(Encode(s)) = DOMAIN Encode(s)
      /\ Decode(Encode(s)).hardwareFailure = Encode(s).hardwareFailure
  <2> DEFINE t == Encode(s)
  <2>1. "hardwareFailure" \in DOMAIN t
    BY <1>2 DEF HasFlag
  <2> HIDE DEF t
  <2>2. DOMAIN Decode(t) = DOMAIN t /\ Decode(t).hardwareFailure = t.hardwareFailure
    BY <2>1 DEF Decode
  <2> QED
    BY <2>2 DEF t
<1> QED
  BY <1>1, <1>2, <1>3 DEF HasFlag

LEMMA UnreadableNodes == ~IsReadable(NoNode) /\ ~IsReadable(OldNode)
BY DEF IsReadable, NoNode, OldNode

LEMMA SettingsHaveFlag == \A s \in Settings : HasFlag(s)
BY DEF Settings, HasFlag

LEMMA InitFlag == RepInit => FlagInv
<1> SUFFICES ASSUME RepInit PROVE FlagInv
  OBVIOUS
<1>1. file \in FileType /\ config = file /\ valid = IsReadable(file.node)
  BY ReportingAssumption DEF RepInit
<1>2. file.node \in {NoNode, OldNode} \cup {NodeOf(s) : s \in Settings}
  BY <1>1 DEF FileType
<1>3. IsReadable(file.node) => HasFlag(Decode(file.node.settings))
  BY <1>2, UnreadableNodes, FlagIsWritten, SettingsHaveFlag
<1>4. HasFlag(settings)
  <2>1. settings = ReadFrom(file.node)
    BY DEF RepInit
  <2> QED
    BY <1>3, <2>1, SettingsHaveFlag, ReportingAssumption DEF ReadFrom
<1>5. valid \in BOOLEAN /\ snapshot = NoSnapshot
  BY <1>1 DEF IsReadable, RepInit
<1> QED
  BY <1>1, <1>3, <1>4, <1>5 DEF RepInit, FlagInv

LEMMA StepFlag ==
  ASSUME PlaceInv, FlagInv, [RepNext]_repVars
  PROVE  FlagInv'
<1> USE DEF board, server, shared, users, bot, main, failure, heard
\* Steps that leave the settings, the flags, the process and the file alone.
<1>1. ASSUME UNCHANGED <<boardFailed, settings, valid, snapshot, failure, proc,
                         file, config>>
      PROVE  FlagInv'
  BY <1>1 DEF FlagInv, HasFlag
<1>2. CASE UNCHANGED repVars
  BY <1>1, <1>2 DEF repVars
<1>3. CASE CheckRunning \/ Accept \/ ReadStatus \/ StoreStatus \/ ReadMessage
             \/ PushMessage \/ Close \/ BotEnds \/ Publish \/ SendNext
             \/ SendDone \/ Drain \/ PollEnds \/ (\E c \in Chats : Command(c))
             \/ SignalHandler
  BY <1>1, <1>3
  DEF CheckRunning, Accept, ReadStatus, StoreStatus, ReadMessage, PushMessage,
      Close, BotEnds, Publish, SendNext, SendDone, Drain, PollEnds, Command,
      SignalHandler
<1>4. CASE ReadFailure
  <2>1. /\ HasFlag(settings') /\ settings'.hardwareFailure = TRUE
        /\ boardFailed' = TRUE /\ reported' = TRUE
        /\ outdated' = (snapshot # NoSnapshot)
        /\ UNCHANGED <<valid, snapshot, proc, file, config>> /\ proc = "up"
    BY <1>4 DEF ReadFailure, Receive, FlagInv, HasFlag, PlaceInv
  <2> QED
    BY <2>1 DEF FlagInv
<1>5. CASE ReadRequest
  <2>1. /\ UNCHANGED <<snapshot, failure, proc, file, config>>
        /\ proc = "up" /\ valid' = TRUE
    BY <1>5 DEF ReadRequest, PlaceInv
  <2>2. CASE valid
    <3>1. boardFailed' = settings.hardwareFailure /\ UNCHANGED settings
      BY <1>5, <2>2 DEF ReadRequest
    <3> QED
      BY <2>1, <2>2, <3>1 DEF FlagInv, HasFlag
  <2>3. CASE ~valid
    <3>1. /\ settings' = [BoardSettings EXCEPT !.hardwareFailure = boardFailed]
          /\ UNCHANGED boardFailed
      BY <1>5, <2>3 DEF ReadRequest
    <3>2. HasFlag(BoardSettings)
      BY SettingsHaveFlag, ReportingAssumption
    <3>3. HasFlag(settings') /\ settings'.hardwareFailure = boardFailed
      BY <3>1, <3>2 DEF FlagInv, HasFlag
    <3> QED
      BY <2>1, <2>3, <3>1, <3>3 DEF FlagInv
  <2> QED
    BY <2>2, <2>3
<1>6. CASE CommitSettings
  <2>1. /\ UNCHANGED <<boardFailed, valid, proc, file, config>>
        /\ proc = "up" /\ snapshot # NoSnapshot
        /\ snapshot' = NoSnapshot /\ outdated' = FALSE
    BY <1>6 DEF CommitSettings, PlaceInv
  <2>2. PICK debug \in BOOLEAN, cleared \in BOOLEAN :
          /\ settings' = [snapshot EXCEPT !.debug = debug,
                                          !.hardwareFailure = @ /\ ~cleared]
          /\ reported' = (reported /\ ~cleared /\ ~outdated)
    BY <1>6 DEF CommitSettings
  <2> DEFINE f == snapshot.hardwareFailure /\ ~cleared
             t == [snapshot EXCEPT !.debug = debug]
  <2>3. /\ DOMAIN t = DOMAIN snapshot
        /\ t.hardwareFailure = snapshot.hardwareFailure
    BY <2>1 DEF FlagInv, HasFlag
  <2>4. settings' = [t EXCEPT !.hardwareFailure = f]
    BY <2>2, <2>3
  <2>5. f \in BOOLEAN
    OBVIOUS
  <2>6. reported' \in BOOLEAN /\ (reported' => f)
    BY <2>1, <2>2 DEF FlagInv
  <2> HIDE DEF f, t
  <2>7. HasFlag(settings') /\ settings'.hardwareFailure = f
    BY <2>1, <2>3, <2>4, <2>5 DEF FlagInv, HasFlag
  <2> QED
    BY <2>1, <2>6, <2>7 DEF FlagInv
<1>7. CASE Join
  BY <1>7, UnreadableNodes DEF Join, Broken, Config, FlagInv, HasFlag
<1>8. CASE WriteConfig
  <2>1. /\ UNCHANGED <<boardFailed, settings, valid, snapshot, failure>>
        /\ proc = "saving" /\ proc' = "off"
        /\ file'.node = IF valid THEN NodeOf(settings) ELSE config.node
    BY <1>8 DEF WriteConfig, Config
  <2>2. CASE valid
    BY <2>1, <2>2, FlagIsWritten DEF FlagInv
  <2>3. CASE ~valid
    BY <2>1, <2>3 DEF FlagInv
  <2> QED
    BY <2>2, <2>3
<1>9. CASE SendThrows \/ Kill
  BY <1>9 DEF SendThrows, Kill, Dies, Blank, FlagInv, HasFlag
<1>10. CASE Start
  <2>1. /\ UNCHANGED <<boardFailed, file, reported>>
        /\ config' = file /\ proc' = "up" /\ proc \in {"off", "dead"}
        /\ valid' = IsReadable(file.node) /\ settings' = ReadFrom(file.node)
        /\ snapshot' = NoSnapshot /\ outdated' = FALSE
    BY <1>10 DEF Start, Blank
  <2>2. valid' \in BOOLEAN
    BY <2>1 DEF IsReadable
  <2>3. CASE IsReadable(file.node)
    <3>1. settings' = Decode(file.node.settings)
      BY <2>1, <2>3 DEF ReadFrom
    <3> QED
      BY <2>1, <2>2, <2>3, <3>1 DEF FlagInv
  <2>4. CASE ~IsReadable(file.node)
    <3>1. settings' = BoardSettings /\ HasFlag(BoardSettings)
      BY <2>1, <2>4, SettingsHaveFlag, ReportingAssumption DEF ReadFrom
    <3> QED
      BY <2>1, <2>2, <2>4, <3>1 DEF FlagInv
  <2> QED
    BY <2>3, <2>4
<1>11. CASE Edit
  <2>1. /\ UNCHANGED <<boardFailed, settings, valid, reported, proc, file, config>>
        /\ valid /\ snapshot' = settings /\ outdated' = FALSE
    BY <1>11 DEF Edit
  <2>2. /\ HasFlag(snapshot') /\ valid'
        /\ reported' => snapshot'.hardwareFailure
    BY <2>1 DEF FlagInv, HasFlag
  <2> QED
    BY <2>1, <2>2 DEF FlagInv
<1> QED
  BY <1>2, <1>3, <1>4, <1>5, <1>6, <1>7, <1>8, <1>9, <1>10, <1>11
  DEF RepNext, ServerStep, BotStep, UserStep, MainStep

----------------------------------------------------------------------------
(***************************************************************************)
(* The file: what is written and read back are the same settings, as the   *)
(* bits beyond the last plant are zero; and an end writes what is there.   *)
(***************************************************************************)
QueueFits ==
  Len(msgQueue) <= IF spc \in {"store", "push"} THEN reports - 1 ELSE reports

KeptInv ==
  /\ RepTypeOK /\ QueueFits
  /\ proc \in {"up", "saving"} /\ IsReadable(config.node) => valid
  /\ proc = "off" =>
       /\ file.chats = broadcastChats /\ (file.listed <=> broadcastChats # {})
       /\ valid <=> IsReadable(file.node)
       /\ valid => file.node = NodeOf(settings)

\* Where a bit is: in which byte, and which of its bits.
LEMMA BitPlaces ==
  ASSUME NEW b \in Nat, NEW k \in Bits
  PROVE  /\ (b * BitsPerByte + k) \div BitsPerByte = b
         /\ (b * BitsPerByte + k) % BitsPerByte = k
BY ConfigAssumption DEF Bits

LEMMA BitmapsSurvive ==
  ASSUME NEW bitmap \in Bitmaps
  PROVE  Packed([i \in Plants |-> IsSet(bitmap, i)]) = bitmap
<1> DEFINE list == [i \in Plants |-> IsSet(bitmap, i)]
           Of(b) == {j \in Plants : j \div BitsPerByte = b /\ list[j]}
           Byte(b) == {i % BitsPerByte : i \in Of(b)}
<1>1. /\ bitmap \in [Bytes -> SUBSET Bits]
      /\ \A b \in Bytes : \A k \in bitmap[b] : b * BitsPerByte + k \in Plants
  BY DEF Bitmaps
<1>2. ASSUME NEW b \in Bytes
      PROVE  Byte(b) = bitmap[b]
  <2>1. b \in Nat
    BY DEF Bytes
  <2>2. ASSUME NEW k \in bitmap[b]
        PROVE  k \in Byte(b)
    <3> DEFINE i == b * BitsPerByte + k
    <3>1. i \in Plants /\ k \in Bits
      BY <1>1, <2>2
    <3>2. i \div BitsPerByte = b /\ i % BitsPerByte = k
      BY <2>1, <3>1, BitPlaces
    <3> HIDE DEF i
    <3>3. list[i]
      BY <2>2, <3>1, <3>2 DEF IsSet
    <3> QED
      BY <3>1, <3>2, <3>3
  <2>3. ASSUME NEW k \in Byte(b)
        PROVE  k \in bitmap[b]
    <3>1. PICK i \in Plants : i \div BitsPerByte = b /\ list[i]
                              /\ k = i % BitsPerByte
      BY <2>3
    <3> QED
      BY <3>1 DEF IsSet
  <2> QED
    BY <2>2, <2>3
<1>3. Packed(list) = [b \in Bytes |-> Byte(b)]
  BY DEF Packed
<1> QED
  BY <1>1, <1>2, <1>3

(***************************************************************************)
(* What writeSettings() writes of any settings, readSettings() reads back  *)
(* as the same ones.                                                       *)
(***************************************************************************)
THEOREM SettingsSurviveTheFile ==
  \A s \in Settings : IsReadable(NodeOf(s)) /\ Decode(NodeOf(s).settings) = s
<1> SUFFICES ASSUME NEW s \in Settings
             PROVE  IsReadable(NodeOf(s)) /\ Decode(NodeOf(s).settings) = s
  OBVIOUS
<1> DEFINE water == [i \in Plants |-> IsSet(s.moistSensToWaterSensBitmap, i)]
           skip  == [i \in Plants |-> IsSet(s.skipBitmap, i)]
<1>1. IsReadable(NodeOf(s)) /\ NodeOf(s).settings = Encode(s)
  BY DEF NodeOf, IsReadable
<1>2. /\ Packed(water) = s.moistSensToWaterSensBitmap
      /\ Packed(skip) = s.skipBitmap
  BY BitmapsSurvive DEF Settings
<1>3. Encode(s) = [s EXCEPT !.moistSensToWaterSensBitmap = water,
                            !.skipBitmap = skip]
  BY DEF Encode
<1> HIDE DEF water, skip
<1>4. Encode(s) =
        [numbers |-> s.numbers, moistSensToWaterSensBitmap |-> water,
         skipBitmap |-> skip, hardwareFailure |-> s.hardwareFailure,
         debug |-> s.debug]
  BY <1>3 DEF Settings
<1> DEFINE t == [numbers |-> s.numbers, moistSensToWaterSensBitmap |-> water,
                 skipBitmap |-> skip, hardwareFailure |-> s.hardwareFailure,
                 debug |-> s.debug]
           first == [t EXCEPT !.moistSensToWaterSensBitmap = Packed(water)]
<1>5. Decode(t) =
        [numbers |-> s.numbers, moistSensToWaterSensBitmap |-> Packed(water),
         skipBitmap |-> Packed(skip), hardwareFailure |-> s.hardwareFailure,
         debug |-> s.debug]
  <2>1. t.moistSensToWaterSensBitmap = water /\ first.skipBitmap = skip
    OBVIOUS
  <2>2. Decode(t) = [first EXCEPT !.skipBitmap = Packed(first.skipBitmap)]
    BY <2>1, Zenon DEF Decode
  <2> QED
    BY <2>1, <2>2
<1>6. s = [numbers |-> s.numbers,
           moistSensToWaterSensBitmap |-> s.moistSensToWaterSensBitmap,
           skipBitmap |-> s.skipBitmap, hardwareFailure |-> s.hardwareFailure,
           debug |-> s.debug]
  BY DEF Settings
<1> QED
  BY <1>1, <1>2, <1>4, <1>5, <1>6

LEMMA FlagsOfSettings ==
  ASSUME NEW s \in Settings, NEW d \in BOOLEAN, NEW f \in BOOLEAN
  PROVE  /\ [s EXCEPT !.hardwareFailure = f] \in Settings
         /\ [s EXCEPT !.debug = d, !.hardwareFailure = f] \in Settings
BY DEF Settings

\* What a start reads of a file, and what an end writes, has the right type.
LEMMA FileContents ==
  /\ \A f \in FileType : ReadFrom(f.node) \in Settings
  /\ \A chats \in SUBSET Chats, listed \in BOOLEAN :
       /\ \A s \in Settings : Config(chats, listed, NodeOf(s)) \in FileType
       /\ \A f \in FileType : Config(chats, listed, f.node) \in FileType
  /\ Broken \in FileType
<1>1. ASSUME NEW f \in FileType
      PROVE  ReadFrom(f.node) \in Settings
  <2>1. f.node \in {NoNode, OldNode} \cup {NodeOf(s) : s \in Settings}
    BY DEF FileType
  <2> QED
    BY <2>1, UnreadableNodes, SettingsSurviveTheFile, ReportingAssumption
    DEF ReadFrom, NodeOf
<1> QED
  BY <1>1 DEF FileType, Config, Broken

LEMMA InitKept == RepInit => KeptInv
<1> SUFFICES ASSUME RepInit PROVE KeptInv
  OBVIOUS
<1>1. /\ file \in FileType /\ config = file
      /\ broadcastChats = file.chats /\ broadcastChats \subseteq Chats
  BY ReportingAssumption DEF RepInit, FileType
<1>2. settings \in Settings /\ valid \in BOOLEAN
  BY <1>1, FileContents DEF RepInit, IsReadable
<1>3. /\ msgQueue \in Seq(Number) /\ Len(msgQueue) = 0
      /\ \A c \in Chats : received[c] \in Seq(Kinds \X Number)
  BY EmptySeq DEF RepInit
<1>4. 0 \in Number /\ 0 \in 0 .. MaxStarts /\ 0 <= MaxPackets
  BY ReportingAssumption DEF Number
<1>5. RepTypeOK
  BY <1>1, <1>2, <1>3, <1>4 DEF RepInit, RepTypeOK, Kinds
<1> QED
  BY <1>1, <1>3, <1>5 DEF RepInit, KeptInv, QueueFits

LEMMA StepKept ==
  ASSUME PlaceInv, KeptInv, [RepNext]_repVars
  PROVE  KeptInv'
<1> USE DEF board, server, shared, users, bot, main, failure, heard
<1>0. /\ Len(msgQueue) \in Nat /\ MaxPackets \in Nat /\ reports \in Nat
      /\ MaxStarts \in Nat /\ reports <= MaxPackets
  BY LenProperties, ReportingAssumption DEF KeptInv, RepTypeOK, Number
<1>1. CASE UNCHANGED repVars
  BY <1>1 DEF repVars, KeptInv, RepTypeOK, QueueFits
<1>2. CASE CheckRunning \/ Accept \/ Close \/ StoreStatus
  <2>1. /\ spc' \in {"check", "accept", "serve", "ended"}
        /\ status' \in Number /\ unpublished' \in BOOLEAN
        /\ UNCHANGED <<boardFailed, reports, packet, settings, valid, msgQueue,
                       running, bpc, out, left, broadcastChats, proc, config,
                       file, starts, pushed, received, snapshot, failure>>
    BY <1>2
    DEF CheckRunning, Accept, Close, StoreStatus, KeptInv, RepTypeOK
  <2>2. Len(msgQueue) <= reports
    BY <1>0 DEF KeptInv, QueueFits
  <2>3. QueueFits'
    BY <2>1, <2>2 DEF QueueFits
  <2>4. RepTypeOK'
    BY <2>1 DEF KeptInv, RepTypeOK
  <2> QED
    BY <2>1, <2>3, <2>4 DEF KeptInv
<1>3. CASE ReadStatus \/ ReadMessage \/ ReadFailure
  <2>1. /\ reports' = reports + 1 /\ packet' = reports' /\ reports < MaxPackets
        /\ spc = "serve"
    BY <1>3 DEF ReadStatus, ReadMessage, ReadFailure, Receive
  <2>2. reports' \in Number
    BY <1>0, <2>1 DEF Number
  <2>3. /\ spc' \in {"store", "serve", "push"}
        /\ boardFailed' \in BOOLEAN /\ {reported', outdated'} \subseteq BOOLEAN
        /\ UNCHANGED <<valid, status, unpublished, msgQueue, running, bpc, out,
                       left, broadcastChats, snapshot, proc, config, file, starts,
                       pushed, received>>
    BY <1>3 DEF ReadStatus, ReadMessage, ReadFailure, KeptInv, RepTypeOK
  <2>4. settings' \in Settings
    BY <1>3, FlagsOfSettings
    DEF ReadStatus, ReadMessage, ReadFailure, KeptInv, RepTypeOK
  <2>5. QueueFits'
    BY <1>0, <2>1, <2>3 DEF QueueFits, KeptInv
  <2>6. proc = "up"
    BY <2>1 DEF PlaceInv
  <2>7. RepTypeOK'
    BY <2>1, <2>2, <2>3, <2>4 DEF KeptInv, RepTypeOK
  <2> QED
    BY <2>3, <2>5, <2>6, <2>7 DEF KeptInv
<1>4. CASE PushMessage
  <2>1. /\ spc = "push" /\ spc' = "serve" /\ pushed' = pushed \cup {packet}
        /\ msgQueue' = Append(msgQueue, packet)
        /\ UNCHANGED <<boardFailed, reports, packet, settings, valid, status,
                       unpublished, running, bpc, out, left, broadcastChats,
                       proc, config, file, starts, received, snapshot, failure>>
    BY <1>4 DEF PushMessage
  <2>2. msgQueue' \in Seq(Number) /\ Len(msgQueue') = Len(msgQueue) + 1
    BY <2>1, AppendProperties DEF KeptInv, RepTypeOK
  <2>3. QueueFits' /\ Len(msgQueue') <= MaxPackets
    BY <1>0, <2>1, <2>2 DEF QueueFits, KeptInv
  <2>4. RepTypeOK'
    BY <2>1, <2>2, <2>3 DEF KeptInv, RepTypeOK
  <2>5. proc = "up"
    BY <2>1 DEF PlaceInv
  <2> QED
    BY <2>1, <2>3, <2>4, <2>5 DEF KeptInv
<1>5. CASE ReadRequest
  <2>1. /\ spc = "serve" /\ valid' = TRUE
        /\ UNCHANGED <<reports, spc, packet, status, unpublished, msgQueue,
                       running, bpc, out, left, broadcastChats, proc, config,
                       file, starts, pushed, received, snapshot, failure>>
    BY <1>5 DEF ReadRequest
  <2>2. settings' \in Settings /\ boardFailed' \in BOOLEAN
    <3>1. settings.hardwareFailure \in BOOLEAN
      BY DEF KeptInv, RepTypeOK, Settings
    <3> QED
      BY <1>5, <3>1, FlagsOfSettings, ReportingAssumption
      DEF ReadRequest, KeptInv, RepTypeOK
  <2>3. proc = "up"
    BY <2>1 DEF PlaceInv
  <2>4. RepTypeOK' /\ QueueFits'
    BY <2>1, <2>2 DEF KeptInv, RepTypeOK, QueueFits
  <2> QED
    BY <2>1, <2>3, <2>4 DEF KeptInv
<1>6. CASE BotEnds \/ SendDone \/ PollEnds \/ Publish
  <2>1. /\ bpc' \in {"top", "status", "drain", "message", "poll", "ended"}
        /\ unpublished' \in BOOLEAN /\ out' \in Number
        /\ left' \subseteq broadcastChats
        /\ UNCHANGED <<boardFailed, reports, spc, packet, settings, valid,
                       status, msgQueue, running, broadcastChats, proc, config,
                       file, starts, pushed, received, snapshot, failure>>
    BY <1>6 DEF BotEnds, SendDone, PollEnds, Publish, KeptInv, RepTypeOK
  <2>2. RepTypeOK' /\ QueueFits'
    BY <2>1 DEF KeptInv, RepTypeOK, QueueFits
  <2> QED
    BY <2>1, <2>2 DEF KeptInv
<1>7. CASE SendNext
  <2> DEFINE m == Min(left)
             e == <<bpc, out>>
  <2>1. m \in Chats /\ received[m] \in Seq(Kinds \X Number)
    BY <1>7, FirstOfLeft DEF SendNext, PlaceInv, KeptInv, RepTypeOK, Kinds
  <2>2. e \in Kinds \X Number
    BY <1>7 DEF SendNext, Sending, Kinds, KeptInv, RepTypeOK
  <2>3. received' = [received EXCEPT ![m] = Append(received[m], e)]
    BY <1>7 DEF SendNext, Got
  <2>4. /\ left' \subseteq left
        /\ UNCHANGED <<boardFailed, reports, spc, packet, settings, valid,
                       status, unpublished, msgQueue, running, bpc, out,
                       broadcastChats, proc, config, file, starts, pushed,
                       snapshot, failure>>
    BY <1>7 DEF SendNext
  <2> HIDE DEF m, e
  <2>5. Append(received[m], e) \in Seq(Kinds \X Number)
    BY <2>1, <2>2, AppendProperties
  <2>6. \A c \in Chats : received'[c] \in Seq(Kinds \X Number)
    BY <2>1, <2>3, <2>5 DEF PlaceInv, KeptInv, RepTypeOK, Kinds
  <2>7. RepTypeOK' /\ QueueFits'
    BY <2>4, <2>6 DEF KeptInv, RepTypeOK, QueueFits, Kinds
  <2> QED
    BY <2>4, <2>7 DEF KeptInv
<1>8. CASE Drain
  <2>1. /\ bpc = "drain" /\ bpc' \in {"message", "poll"}
        /\ left' \subseteq broadcastChats
        /\ \/ UNCHANGED <<out, msgQueue>>
           \/ /\ msgQueue # <<>>
              /\ out' = Head(msgQueue) /\ msgQueue' = Tail(msgQueue)
        /\ UNCHANGED <<boardFailed, reports, spc, packet, settings, valid,
                       status, unpublished, running, broadcastChats, proc,
                       config, file, starts, pushed, received, snapshot, failure>>
    BY <1>8 DEF Drain, KeptInv, RepTypeOK
  <2>2. /\ out' \in Number /\ msgQueue' \in Seq(Number)
        /\ Len(msgQueue') \in Nat /\ Len(msgQueue') <= Len(msgQueue)
    <3>1. msgQueue \in Seq(Number) /\ out \in Number
      BY DEF KeptInv, RepTypeOK
    <3>2. CASE UNCHANGED <<out, msgQueue>>
      BY <1>0, <3>1, <3>2
    <3>3. CASE /\ msgQueue # <<>>
               /\ out' = Head(msgQueue) /\ msgQueue' = Tail(msgQueue)
      <4>1. /\ Head(msgQueue) \in Number /\ Tail(msgQueue) \in Seq(Number)
            /\ Len(Tail(msgQueue)) = Len(msgQueue) - 1
        BY <3>1, <3>3, HeadTailProperties
      <4>2. Len(msgQueue) # 0
        BY <3>1, <3>3, EmptySeq
      <4> QED
        BY <1>0, <3>3, <4>1, <4>2
    <3> QED
      BY <2>1, <3>2, <3>3
  <2>3. QueueFits' /\ Len(msgQueue') <= MaxPackets
    BY <1>0, <2>1, <2>2 DEF QueueFits, KeptInv
  <2>4. RepTypeOK'
    BY <2>1, <2>2, <2>3 DEF KeptInv, RepTypeOK
  <2>5. proc = "up"
    BY <2>1 DEF PlaceInv
  <2> QED
    BY <2>1, <2>3, <2>4, <2>5 DEF KeptInv
<1>9. CASE \E c \in Chats : Command(c)
  <2>1. /\ bpc = "poll" /\ broadcastChats' \subseteq Chats
        /\ broadcastChats \subseteq broadcastChats'
        /\ UNCHANGED <<board, server, shared, bpc, out, left, snapshot, main, heard>>
    BY <1>9 DEF Command, KeptInv, RepTypeOK
  <2>2. proc = "up"
    BY <2>1 DEF PlaceInv
  <2>3. RepTypeOK' /\ QueueFits'
    BY <2>1 DEF KeptInv, RepTypeOK, QueueFits
  <2> QED
    BY <2>1, <2>2, <2>3 DEF KeptInv
<1>10. CASE Edit \/ CommitSettings
  <2>1. /\ bpc = "poll" /\ snapshot' \in {NoSnapshot, settings}
        /\ outdated' = FALSE
        /\ UNCHANGED <<board, server, valid, status, unpublished, msgQueue, bpc,
                       out, left, broadcastChats, main, pushed, received>>
    BY <1>10 DEF Edit, CommitSettings
  <2>2. settings' \in Settings /\ reported' \in BOOLEAN
    <3>1. CASE Edit
      BY <3>1 DEF Edit, KeptInv, RepTypeOK
    <3>2. CASE CommitSettings
      <4>1. PICK debug \in BOOLEAN, cleared \in BOOLEAN :
              /\ settings' = [snapshot EXCEPT !.debug = debug,
                                              !.hardwareFailure = @ /\ ~cleared]
              /\ reported' = (reported /\ ~cleared /\ ~outdated)
        BY <3>2 DEF CommitSettings
      <4>2. snapshot \in Settings
        BY <3>2 DEF CommitSettings, KeptInv, RepTypeOK
      <4> DEFINE f == snapshot.hardwareFailure /\ ~cleared
      <4>3. settings' = [snapshot EXCEPT !.debug = debug, !.hardwareFailure = f]
        BY <4>1, <4>2 DEF Settings
      <4>4. f \in BOOLEAN /\ reported' \in BOOLEAN
        BY <4>1
      <4> HIDE DEF f
      <4> QED
        BY <4>2, <4>3, <4>4, FlagsOfSettings
    <3> QED
      BY <1>10, <3>1, <3>2
  <2>3. RepTypeOK' /\ QueueFits'
    BY <2>1, <2>2 DEF KeptInv, RepTypeOK, QueueFits
  <2>4. proc = "up"
    BY <2>1 DEF PlaceInv
  <2> QED
    BY <2>1, <2>3, <2>4 DEF KeptInv
<1>11. CASE SignalHandler
  BY <1>11 DEF SignalHandler, KeptInv, RepTypeOK, QueueFits
<1>12. CASE Join
  <2>1. /\ proc' = "saving" /\ proc = "up" /\ file' = Broken /\ running' = FALSE
        /\ UNCHANGED <<board, server, shared, bot, config, starts, heard>>
    BY <1>12 DEF Join
  <2>2. RepTypeOK' /\ QueueFits'
    BY <2>1, FileContents DEF KeptInv, RepTypeOK, QueueFits
  <2> QED
    BY <2>1, <2>2 DEF KeptInv
<1>13. CASE WriteConfig
  <2>1. /\ proc = "saving" /\ proc' = "off" /\ file' = config'
        /\ config' = Config(broadcastChats, broadcastChats # {},
                            IF valid THEN NodeOf(settings) ELSE config.node)
        /\ UNCHANGED <<board, server, shared, bot, running, starts, heard>>
    BY <1>13 DEF WriteConfig
  <2>2. settings \in Settings /\ config \in FileType /\ broadcastChats \subseteq Chats
    BY DEF KeptInv, RepTypeOK
  <2>3. file' \in FileType
    BY <2>1, <2>2, FileContents
  <2>4. RepTypeOK' /\ QueueFits'
    BY <2>1, <2>3 DEF KeptInv, RepTypeOK, QueueFits
  <2>5. /\ file'.chats = broadcastChats
        /\ file'.listed <=> broadcastChats # {}
        /\ valid => file'.node = NodeOf(settings)
        /\ ~valid => file'.node = config.node
    BY <2>1 DEF Config
  <2>6. valid <=> IsReadable(file'.node)
    BY <2>1, <2>2, <2>5, SettingsSurviveTheFile DEF KeptInv
  <2> QED
    BY <2>1, <2>4, <2>5, <2>6 DEF KeptInv
<1>14. CASE SendThrows \/ Kill
  <2>1. Dies
    BY <1>14 DEF SendThrows, Kill
  <2>2. /\ <<>> \in Seq(Number) /\ Len(<<>>) = 0 /\ 0 \in Number
        /\ <<>> \in Seq(Kinds \X Number)
    BY <1>0, EmptySeq DEF Number
  <2>3. /\ msgQueue' = <<>>
        /\ \A c \in Chats : received'[c] \in Seq(Kinds \X Number)
    BY <2>1, <2>2 DEF Dies, Blank
  <2>4. QueueFits'
    BY <1>0, <2>1, <2>2, <2>3 DEF Dies, QueueFits
  <2>5. /\ packet' = 0 /\ out' = 0 /\ status' = 0 /\ unpublished' = FALSE
        /\ left' = {} /\ broadcastChats' = {} /\ pushed' = {}
        /\ {reported', outdated'} \subseteq BOOLEAN /\ proc' = "dead"
        /\ snapshot' = NoSnapshot
        /\ spc' = "ended" /\ bpc' = "ended"
        /\ UNCHANGED <<boardFailed, reports, settings, valid, running, config,
                       file, starts>>
    BY <2>1 DEF Dies, Blank
  <2>6. msgQueue' \in Seq(Number) /\ Len(msgQueue') <= MaxPackets
    BY <1>0, <2>2, <2>3
  <2>7. RepTypeOK'
    BY <2>2, <2>3, <2>6, <2>5 DEF KeptInv, RepTypeOK, Kinds
  <2> QED
    BY <2>7, <2>4, <2>5 DEF KeptInv
<1>15. CASE Start
  <2>1. /\ starts < MaxStarts /\ starts' = starts + 1
        /\ config' = file /\ broadcastChats' = file.chats
        /\ valid' = IsReadable(file.node) /\ settings' = ReadFrom(file.node)
        /\ Blank /\ spc' = "check" /\ bpc' = "top"
        /\ running' = TRUE /\ proc' = "up"
        /\ UNCHANGED <<file, board, reported>>
    BY <1>15 DEF Start
  <2>2. /\ file \in FileType /\ file.chats \subseteq Chats
        /\ valid' \in BOOLEAN /\ settings' \in Settings
    BY <2>1, FileContents DEF KeptInv, RepTypeOK, FileType, IsReadable
  <2>3. /\ <<>> \in Seq(Number) /\ Len(<<>>) = 0 /\ 0 \in Number
        /\ <<>> \in Seq(Kinds \X Number)
    BY <1>0, EmptySeq DEF Number
  <2>4. starts' \in 0 .. MaxStarts
    BY <1>0, <2>1 DEF KeptInv, RepTypeOK
  <2>5. /\ msgQueue' = <<>>
        /\ \A c \in Chats : received'[c] \in Seq(Kinds \X Number)
    BY <2>1, <2>3 DEF Blank
  <2>6. QueueFits'
    BY <1>0, <2>1, <2>3, <2>5 DEF QueueFits
  <2>7. /\ packet' = 0 /\ out' = 0 /\ status' = 0 /\ unpublished' = FALSE
        /\ left' = {} /\ pushed' = {}
        /\ snapshot' = NoSnapshot /\ outdated' = FALSE
    BY <2>1 DEF Blank
  <2>8. msgQueue' \in Seq(Number) /\ Len(msgQueue') <= MaxPackets
    BY <1>0, <2>3, <2>5
  <2>9. RepTypeOK'
    BY <2>1, <2>2, <2>3, <2>4, <2>5, <2>8, <2>7 DEF KeptInv, RepTypeOK, Kinds
  <2> QED
    BY <2>1, <2>9, <2>6 DEF KeptInv
<1> QED
  BY <1>1, <1>2, <1>3, <1>4, <1>5, <1>6, <1>7, <1>8, <1>9, <1>10, <1>11, <1>12,
     <1>13, <1>14, <1>15 DEF RepNext, ServerStep, BotStep, UserStep, MainStep

----------------------------------------------------------------------------
(***************************************************************************)
(* The end.  How many steps the bot's thread still takes when it has been  *)
(* told to end: it finishes what it is sending and takes nothing new.      *)
(***************************************************************************)
BotLeft ==
  IF bpc \in {"status", "message"} THEN 4 + Cardinality(left)
  ELSE IF bpc = "drain" THEN 3
  ELSE IF bpc = "poll" THEN 2
  ELSE IF bpc = "top" THEN 1
  ELSE 0

LEMMA LeftIsFinite ==
  ASSUME NEW S, S \subseteq Chats
  PROVE  IsFiniteSet(S) /\ Cardinality(S) \in Nat
BY FS_Subset, FS_CardinalityType, ReportingAssumption

LEMMA BotLeftSteps ==
  ASSUME PlaceInv, ~running, BotStep
  PROVE  BotLeft' < BotLeft
<1>1. CASE BotEnds
  BY <1>1 DEF BotEnds, BotLeft
<1>2. CASE Publish
  BY <1>2 DEF Publish
<1>3. CASE SendNext
  <2>1. left \subseteq Chats /\ left # {}
    BY <1>3 DEF SendNext, PlaceInv
  <2>2. Min(left) \in left /\ left' = left \ {Min(left)} /\ bpc' = bpc
    BY <1>3, <2>1, FirstOfLeft DEF SendNext
  <2>3. Cardinality(left') = Cardinality(left) - 1
    BY <2>1, <2>2, LeftIsFinite, FS_RemoveElement
  <2>4. Cardinality(left) \in Nat /\ bpc \in {"status", "message"}
    BY <1>3, <2>1, LeftIsFinite DEF SendNext, Sending
  <2> QED
    BY <2>2, <2>3, <2>4 DEF BotLeft
<1>4. CASE SendDone
  <2>1. Cardinality(left) \in Nat
    BY LeftIsFinite DEF PlaceInv
  <2> QED
    BY <1>4, <2>1 DEF SendDone, Sending, BotLeft
<1>5. CASE Drain
  BY <1>5 DEF Drain, BotLeft
<1>6. CASE PollEnds
  BY <1>6 DEF PollEnds, BotLeft
<1> QED
  BY <1>1, <1>2, <1>3, <1>4, <1>5, <1>6 DEF BotStep

\* Nothing else gives the bot more to do.
LEMMA BotLeftStays ==
  ASSUME PlaceInv, [RepNext]_repVars, ~running, ~BotStep, ~running'
  PROVE  BotLeft' <= BotLeft
<1>1. BotLeft \in Nat
  <2>1. Cardinality(left) \in Nat
    BY LeftIsFinite DEF PlaceInv
  <2> QED
    BY <2>1 DEF BotLeft
<1>2. CASE UNCHANGED <<bpc, left>>
  BY <1>1, <1>2 DEF BotLeft
<1>3. CASE SendThrows \/ Kill
  <2>1. bpc' = "ended"
    BY <1>3 DEF SendThrows, Kill, Dies
  <2> QED
    BY <1>1, <2>1 DEF BotLeft
<1>4. CASE Start
  BY <1>4 DEF Start
<1>5. ServerStep \/ UserStep \/ MainStep \/ SignalHandler \/ UNCHANGED repVars
        => UNCHANGED <<bpc, left>>
  BY DEF ServerStep, CheckRunning, Accept, ReadStatus, StoreStatus, ReadMessage,
         ReadFailure, PushMessage, ReadRequest, Close, UserStep, Edit,
         CommitSettings, Command, MainStep, Join, WriteConfig, SignalHandler,
         repVars, bot
<1> QED
  BY <1>2, <1>3, <1>4, <1>5 DEF RepNext

----------------------------------------------------------------------------
(***************************************************************************)
(* The theorems.                                                           *)
(***************************************************************************)
LEMMA PlacesAreKept == RepSpec => []PlaceInv
<1>1. PlaceInv /\ [RepNext]_repVars => PlaceInv'
  BY StepPlace
<1> QED
  BY InitPlace, <1>1, PTL DEF RepSpec

(***************************************************************************)
(* Since the last start of the server no chat has got a status twice or    *)
(* after a newer status, nor a message twice or after a newer message,     *)
(* though the server's thread stores and pushes (dry_no_more_server.cpp)   *)
(* while the bot's thread sends (telegram_bot.cpp).                        *)
(***************************************************************************)
THEOREM ChatsHearInOrder == RepSpec => []HeardInOrder
<1>1. PlaceInv /\ OrderInv /\ [RepNext]_repVars => OrderInv'
  BY StepOrder
<1>2. OrderInv => HeardInOrder
  BY DEF OrderInv
<1> QED
  BY PlacesAreKept, InitOrder, <1>1, <1>2, PTL DEF RepSpec

(***************************************************************************)
(* A running server has every message in its queue, in its hand, or at all *)
(* the chats it knew when it started, at every step of its threads         *)
(* (telegram_bot.cpp:112, the loop that empties the queue).                *)
(***************************************************************************)
THEOREM MessagesAreKept == RepSpec => []NoMessageLost
<1>1. PlaceInv /\ NoMessageLost /\ [RepNext]_repVars => NoMessageLost'
  BY StepLost
<1> QED
  BY PlacesAreKept, InitLost, <1>1, PTL DEF RepSpec

(***************************************************************************)
(* A failure that was reported can be seen in the settings, and by whoever *)
(* opens /edit after it, orderly ends and starts of the server included,   *)
(* until a commit writes back a snapshot (telegram_bot.cpp:36) in which it *)
(* was cleared or that is older than the failure.                          *)
(***************************************************************************)
THEOREM FailuresAreVisible == RepSpec => []FailureVisible
<1>1. PlaceInv /\ FlagInv /\ [RepNext]_repVars => FlagInv'
  BY StepFlag
<1>2. FlagInv => FailureVisible
  BY DEF FlagInv, FailureVisible
<1> QED
  BY PlacesAreKept, InitFlag, <1>1, <1>2, PTL DEF RepSpec

(***************************************************************************)
(* After an orderly end the file has the chats and the settings as both    *)
(* threads left them (main.cpp of the server: writeSettings() after the    *)
(* threads were joined), and the next start reads exactly these; without   *)
(* valid settings none are written that a start would take for valid.      *)
(***************************************************************************)
THEOREM EndsSaveExactly == RepSpec => []SavedExactly
<1>1. PlaceInv /\ KeptInv /\ [RepNext]_repVars => KeptInv'
  BY StepKept
<1>2. KeptInv => SavedExactly
  BY SettingsSurviveTheFile DEF KeptInv, SavedExactly, RepTypeOK
<1> QED
  BY PlacesAreKept, InitKept, <1>1, <1>2, PTL DEF RepSpec

(***************************************************************************)
(* After a signal the bot's thread comes to its end however full the queue *)
(* is and whatever users and the board do (telegram_bot.cpp:112, the       *)
(* loop's condition): each of its steps leaves fewer to take, and nobody   *)
(* else's adds any.  It is what SignalEnds rests on.                       *)
(***************************************************************************)
THEOREM TheBotRunsOut ==
  RepSpec =>
    /\ [][~running /\ BotStep => BotLeft' < BotLeft]_repVars
    /\ [][~running /\ ~running' => BotLeft' <= BotLeft]_repVars
    /\ [](BotLeft \in Nat /\ (BotLeft = 0 <=> bpc = "ended"))
<1>1. PlaceInv /\ [RepNext]_repVars
        => /\ ~running /\ BotStep => BotLeft' < BotLeft
           /\ ~running /\ ~running' => BotLeft' <= BotLeft
  <2> SUFFICES ASSUME PlaceInv, [RepNext]_repVars, ~running
               PROVE  /\ BotStep => BotLeft' < BotLeft
                      /\ ~running' => BotLeft' <= BotLeft
    OBVIOUS
  <2>1. BotLeft \in Nat /\ (PlaceInv' => BotLeft' \in Nat)
    BY LeftIsFinite DEF PlaceInv, BotLeft
  <2>2. PlaceInv'
    BY StepPlace
  <2> QED
    BY <2>1, <2>2, BotLeftSteps, BotLeftStays
<1>2. PlaceInv => BotLeft \in Nat /\ (BotLeft = 0 <=> bpc = "ended")
  BY LeftIsFinite DEF PlaceInv, BotLeft
<1> QED
  BY PlacesAreKept, <1>1, <1>2, PTL DEF RepSpec
=============================================================================
