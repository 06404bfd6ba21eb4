------------------------- MODULE SettingsSyncProofs -------------------------
(***************************************************************************)
(* Theorems about the exchange of settings, under every set of faults and  *)
(* for every number of edits, connections and restarts.                    *)
(***************************************************************************)
EXTENDS SettingsSync, SequenceTheorems, TLAPS

(***************************************************************************)
(* What may be under way: settings are real settings, answers come from    *)
(* the server, reports from the board.                                     *)
(***************************************************************************)
Real(v) == ~LookAlike => v.ver # Garbage
Sound ==
  {p \in PacketSet : p.type = "settings" => p.whole /\ Real(p.val)}
Answers == {p \in Sound : p.type \in {"settings", "dummy"}}
Reports == {p \in Sound : p.type \in {"status", "error", "failure"}}
Connection == [in : Seq(Sound), eof : BOOLEAN]

PacketsInv ==
  /\ todo \in Seq(Reports) /\ inbox \in Seq(Answers)
  /\ conns \in Seq(Connection)

(***************************************************************************)
(* How many answers there can be: the board asks once, before anything     *)
(* else, and the server answers while it waits.                            *)
(***************************************************************************)
Asked == <<Packet("request")>>

ExchangeInv ==
  /\ link = "up" => conns # <<>>
  /\ mpc \in {"boot", "asleep", "irrigate", "dial"} => link = "down"
  /\ mpc \notin {"await", "fetched"} => inbox = <<>>
  /\ mpc = "request" /\ link = "up" => conns[Last].in = <<>>
  /\ mpc = "await" =>
       \/ inbox = <<>> /\ (link = "up" => conns[Last].in \in {<<>>, Asked})
       \/ Len(inbox) = 1 /\ (link = "up" => conns[Last].in = <<>>)
  /\ mpc = "fetched" => Len(inbox) \in {0, 1}

StateInv ==
  /\ mpc \in {"boot", "asleep", "request", "await", "fetched", "irrigate",
              "dial", "send"}
  /\ mset \in SettingsType /\ Real(mset)
  /\ link \in {"down", "up", "closed"} /\ Last <= MaxConns
  /\ spc \in {"accept", "serve", "await"} /\ (spc # "accept" => conns # <<>>)
  /\ sset \in SettingsType /\ valid \in BOOLEAN /\ (valid => Real(sset))
  /\ disk \in SettingsType /\ (disk # NoSettings => Real(disk))
  /\ editing \in BOOLEAN /\ snap \in SettingsType
  /\ editing => Real(snap)
  /\ lastVer \in 0 .. MaxVer /\ failed \in BOOLEAN /\ clearing \in BOOLEAN
  /\ stops \in 0 .. MaxStops /\ faults \in DOMAIN MaxEdits

SyncInv == StateInv /\ PacketsInv /\ ExchangeInv

----------------------------------------------------------------------------
LEMMA SoundPackets ==
  /\ NoSettings \in SettingsType /\ Defaults \in SettingsType
  /\ Real(Defaults)
  /\ \A t \in PacketType \ {"settings"} : Packet(t) \in Sound
  /\ \A t \in ReadType : Part(t) \in Sound
  /\ \A v \in SettingsType :
       Real(v) => SettingsPacket(v) \in Sound /\ SettingsPacket(v) \in Answers
  /\ Packet("dummy") \in Answers
  /\ \A t \in {"status", "error", "failure"} : Packet(t) \in Reports
<1>1. NoSettings \in SettingsType /\ Defaults \in SettingsType
      /\ Real(Defaults)
  BY SyncAssumption DEF NoSettings, Defaults, Set, Garbage, SettingsType, Real
<1>2. \A t \in PacketType \ {"settings"} :
        Packet(t) \in Sound /\ Packet(t).type = t
  BY <1>1 DEF Sound, Packet, PacketSet
<1>3. \A t \in ReadType : Part(t) \in Sound
  BY <1>1 DEF Sound, Part, PacketSet, PacketType, ReadType
<1>4. \A v \in SettingsType :
        Real(v) => SettingsPacket(v) \in Sound /\ SettingsPacket(v) \in Answers
  BY DEF Sound, Answers, SettingsPacket, PacketSet, PacketType
<1>5. {"dummy", "status", "error", "failure"} \subseteq
        PacketType \ {"settings"}
  BY DEF PacketType, ReadType
<1>6. /\ Packet("dummy") \in Answers
      /\ \A t \in {"status", "error", "failure"} : Packet(t) \in Reports
  BY <1>2, <1>5 DEF Answers, Reports
<1> QED
  BY <1>1, <1>2, <1>3, <1>4, <1>6

LEMMA SoundTypes ==
  ASSUME PacketsInv
  PROVE  /\ todo \in Seq(PacketSet) /\ inbox \in Seq(PacketSet)
         /\ conns \in Seq([in : Seq(PacketSet), eof : BOOLEAN])
         /\ todo \in Seq(Sound) /\ inbox \in Seq(Sound)
<1>1. Sound \subseteq PacketSet /\ Answers \subseteq Sound
      /\ Reports \subseteq Sound
  BY DEF Sound, Answers, Reports
<1>2. Answers \subseteq PacketSet /\ Reports \subseteq PacketSet
  BY <1>1
<1>3. Seq(Sound) \subseteq Seq(PacketSet)
  BY <1>1, SeqMonotonic
<1>4. Connection \subseteq [in : Seq(PacketSet), eof : BOOLEAN]
  BY <1>3 DEF Connection
<1>5. todo \in Seq(PacketSet) /\ inbox \in Seq(PacketSet)
  BY <1>2, SeqMonotonic DEF PacketsInv
<1>6. todo \in Seq(Sound) /\ inbox \in Seq(Sound)
  BY <1>1, SeqMonotonic DEF PacketsInv
<1>7. conns \in Seq([in : Seq(PacketSet), eof : BOOLEAN])
  BY <1>4, SeqMonotonic DEF PacketsInv
<1> QED
  BY <1>5, <1>6, <1>7

\* A part of a packet is something a server may read.
LEMMA PartsAreSound ==
  ASSUME NEW p \in Sound, CanSplit(p)
  PROVE  Part(ReadsAs(p)) \in Sound /\ OtherPart(p) \subseteq Sound
<1>1. ReadsAs(p) \in ReadType \/ ReadsAs(p) = "dummy"
  BY SyncAssumption DEF ReadsAs, Sound, PacketSet, PacketType
<1>2. Part("dummy") \in Sound
  BY SoundPackets DEF Sound, Part, PacketSet, PacketType
<1>3. \A q \in OtherPart(p) : \E t \in ReadType : q = Part(t)
  BY DEF OtherPart, ReadType
<1> QED
  BY <1>1, <1>2, <1>3, SoundPackets

----------------------------------------------------------------------------
(***************************************************************************)
(* What the steps of a connection do to it.                                *)
(***************************************************************************)
LEMMA WriteAppends ==
  ASSUME conns \in Seq(Connection), link = "up" => conns # <<>>,
         NEW p \in Sound, Write(p)
  PROVE  /\ conns' \in Seq(Connection) /\ Len(conns') = Last
         /\ link = "up" =>
              /\ conns[Last].in \in Seq(Sound)
              /\ conns'[Last].in = Append(conns[Last].in, p)
         /\ link # "up" => conns' = conns
<1>1. CASE link # "up"
  BY <1>1 DEF Write, Last
<1>2. CASE link = "up"
  <2>1. Last \in 1 .. Len(conns) /\ conns[Last] \in Connection
    BY <1>2, EmptySeq, ElementOfSeq DEF Last
  <2> DEFINE c == [conns[Last] EXCEPT !.in = Append(@, p)]
  <2>2. conns[Last].in \in Seq(Sound) /\ conns[Last].eof \in BOOLEAN
    BY <2>1 DEF Connection
  <2>3. Append(conns[Last].in, p) \in Seq(Sound)
    BY <2>2, AppendProperties
  <2>4. c \in Connection /\ c.in = Append(conns[Last].in, p)
    BY <2>1, <2>3 DEF Connection
  <2>5. conns' = [conns EXCEPT ![Last] = c]
    BY <1>2 DEF Write
  <2> HIDE DEF c
  <2>6. conns' \in Seq(Connection) /\ Len(conns') = Last /\ conns'[Last] = c
    BY <2>1, <2>4, <2>5, ExceptSeq DEF Last
  <2> QED
    BY <1>2, <2>2, <2>4, <2>6
<1> QED
  BY <1>1, <1>2

LEMMA HangUpCloses ==
  ASSUME conns \in Seq(Connection), link = "up" => conns # <<>>,
         NEW next, HangUp(next)
  PROVE  /\ conns' \in Seq(Connection) /\ Len(conns') = Last
         /\ link' = "down" /\ inbox' = <<>> /\ mpc' = next
<1>1. CASE link # "up"
  BY <1>1 DEF HangUp, Last
<1>2. CASE link = "up"
  <2>1. Last \in 1 .. Len(conns) /\ conns[Last] \in Connection
    BY <1>2, EmptySeq, ElementOfSeq DEF Last
  <2> DEFINE c == [conns[Last] EXCEPT !.eof = TRUE]
  <2>2. c \in Connection
    BY <2>1 DEF Connection
  <2>3. conns' = [conns EXCEPT ![Last] = c]
    BY <1>2 DEF HangUp
  <2> HIDE DEF c
  <2>4. conns' \in Seq(Connection) /\ Len(conns') = Last
    BY <2>1, <2>2, <2>3, ExceptSeq DEF Last
  <2> QED
    BY <2>4 DEF HangUp
<1> QED
  BY <1>1, <1>2

LEMMA DialConnects ==
  ASSUME conns \in Seq(Connection), NEW next, Dial(next)
  PROVE  /\ conns' \in Seq(Connection) /\ Len(conns') = Last + 1
         /\ Len(conns') <= MaxConns
         /\ conns' # <<>> /\ conns'[Len(conns')].in = <<>>
         /\ link' = "up" /\ mpc' = next /\ inbox' = inbox
<1> DEFINE c == [in |-> <<>>, eof |-> FALSE]
<1>1. c \in Connection /\ c.in = <<>>
  BY EmptySeq DEF Connection
<1>2. conns' = Append(conns, c)
  BY DEF Dial
<1> HIDE DEF c
<1>3. /\ conns' \in Seq(Connection) /\ Len(conns') = Len(conns) + 1
      /\ conns' # <<>> /\ conns'[Len(conns) + 1] = c
  BY <1>1, <1>2, AppendProperties
<1>4. Len(conns) \in Nat
  BY LenProperties
<1> QED
  BY <1>1, <1>3, <1>4, SyncAssumption DEF Dial, Last

\* The beginning and the end of a sequence.
LEMMA Pieces ==
  ASSUME NEW S, NEW q \in Seq(S), NEW k \in 0 .. Len(q)
  PROVE  SubSeq(q, 1, k) \in Seq(S) /\ SubSeq(q, k + 1, Len(q)) \in Seq(S)
<1>1. Len(q) \in Nat
  BY LenProperties
<1>2. \A i \in 1 .. k : q[i] \in S
  BY <1>1, ElementOfSeq
<1>3. \A i \in k + 1 .. Len(q) : q[i] \in S
  BY <1>1, ElementOfSeq
<1>4. SubSeq(q, 1, k) \in Seq(S)
  BY <1>1, <1>2, SubSeqProperties
<1>5. SubSeq(q, k + 1, Len(q)) \in Seq(S)
  BY <1>1, <1>3, SubSeqProperties
<1> QED
  BY <1>4, <1>5

\* A read returns whole packets, or a part at the end.
LEMMA ChunkKinds ==
  LET in == conns[1].in
      most == IF "coalesce" \in faults THEN Len(in)
              ELSE IF in = <<>> THEN 0 ELSE 1
      rest(k) == SubSeq(in, k + 1, Len(in))
  IN  \A chunk \in Chunks :
        \/ \E k \in 1 .. most :
              chunk = [got |-> SubSeq(in, 1, k), left |-> rest(k)]
        \/ \E k \in {i \in 1 .. most : CanSplit(in[i])} :
              \E p \in OtherPart(in[k]) :
                chunk = [got  |-> Append(SubSeq(in, 1, k - 1),
                                         Part(ReadsAs(in[k]))),
                         left |-> <<p>> \o rest(k)]
BY Zenon DEF Chunks

\* What a read returns and what it leaves of the packets that have arrived; a
\* lone request is taken as it is.
LEMMA ReadReturns ==
  ASSUME conns \in Seq(Connection), conns # <<>>, NEW chunk \in Chunks
  PROVE  /\ chunk.got \in Seq(Sound) /\ 1 \in 1 .. Len(chunk.got)
         /\ chunk.got[1] \in Sound /\ chunk.left \in Seq(Sound)
         /\ conns[1].in # <<>>
         /\ conns[1].in = Asked => chunk.left = <<>>
<1> DEFINE in == conns[1].in
           most == IF "coalesce" \in faults THEN Len(in)
                   ELSE IF in = <<>> THEN 0 ELSE 1
           rest(k) == SubSeq(in, k + 1, Len(in))
<1>1. in \in Seq(Sound) /\ Len(in) \in Nat /\ (in = <<>> <=> Len(in) = 0)
  <2>1. 1 \in 1 .. Len(conns) /\ conns[1] \in Connection
    BY EmptySeq, ElementOfSeq
  <2> QED
    BY <2>1, LenProperties, EmptySeq DEF Connection
<1>2. most \in Nat /\ most <= Len(in)
  BY <1>1
<1>3. CASE \E k \in 1 .. most :
             chunk = [got |-> SubSeq(in, 1, k), left |-> rest(k)]
  <2>1. PICK k \in 1 .. most :
          chunk.got = SubSeq(in, 1, k) /\ chunk.left = rest(k)
    BY <1>3
  <2>2. k \in 1 .. Len(in) /\ k \in 0 .. Len(in) /\ in # <<>>
    BY <1>1, <1>2, <2>1
  <2>3. chunk.got \in Seq(Sound) /\ chunk.left \in Seq(Sound)
    BY <1>1, <2>1, <2>2, Pieces
  <2>4. Len(chunk.got) = k
    <3>1. \A i \in 1 .. k : in[i] \in Sound
      BY <1>1, <2>2, ElementOfSeq
    <3> QED
      BY <1>1, <2>1, <2>2, <3>1, SubSeqProperties
  <2>5. 1 \in 1 .. Len(chunk.got) /\ chunk.got[1] \in Sound
    BY <1>1, <2>2, <2>3, <2>4, ElementOfSeq
  <2>6. ASSUME in = Asked
        PROVE  chunk.left = <<>>
    <3>1. Len(in) = 1 /\ k = 1
      BY <2>2, <2>6 DEF Asked
    <3>2. \A i \in 2 .. 1 : in[i] \in Sound
      OBVIOUS
    <3>3. Len(chunk.left) = 0
      BY <1>1, <2>1, <3>1, <3>2, SubSeqProperties
    <3> QED
      BY <2>3, <3>3, EmptySeq
  <2> QED
    BY <2>2, <2>3, <2>5, <2>6
<1>4. CASE \E k \in {i \in 1 .. most : CanSplit(in[i])} :
             \E p \in OtherPart(in[k]) :
               chunk = [got  |-> Append(SubSeq(in, 1, k - 1),
                                        Part(ReadsAs(in[k]))),
                        left |-> <<p>> \o rest(k)]
  <2>0. PICK k \in {i \in 1 .. most : CanSplit(in[i])} :
          \E p \in OtherPart(in[k]) :
            chunk = [got  |-> Append(SubSeq(in, 1, k - 1),
                                     Part(ReadsAs(in[k]))),
                     left |-> <<p>> \o rest(k)]
    BY <1>4, Zenon
  <2>1. /\ k \in 1 .. most /\ CanSplit(in[k])
        /\ chunk.got = Append(SubSeq(in, 1, k - 1), Part(ReadsAs(in[k])))
        /\ \E p \in OtherPart(in[k]) : chunk.left = <<p>> \o rest(k)
    <3>1. PICK p \in OtherPart(in[k]) :
            chunk = [got  |-> Append(SubSeq(in, 1, k - 1),
                                     Part(ReadsAs(in[k]))),
                     left |-> <<p>> \o rest(k)]
      BY <2>0, Zenon
    <3> DEFINE g == Append(SubSeq(in, 1, k - 1), Part(ReadsAs(in[k])))
               l == <<p>> \o rest(k)
    <3>2. chunk = [got |-> g, left |-> l]
      BY <3>1
    <3> HIDE DEF g, l
    <3>3. chunk.got = g /\ chunk.left = l
      BY <3>2
    <3> QED
      BY <2>0, <3>1, <3>3 DEF g, l
  <2>2. k \in 1 .. Len(in) /\ k \in 0 .. Len(in) /\ in # <<>>
        /\ k - 1 \in 0 .. Len(in)
    BY <1>1, <1>2, <2>1
  <2>3. in[k] \in Sound
    BY <1>1, <2>2, ElementOfSeq
  <2>4. Part(ReadsAs(in[k])) \in Sound /\ OtherPart(in[k]) \subseteq Sound
    BY <2>1, <2>3, PartsAreSound
  <2> DEFINE front == SubSeq(in, 1, k - 1)
             part == Part(ReadsAs(in[k]))
  <2>5. front \in Seq(Sound) /\ Len(front) \in Nat
    BY <1>1, <2>2, Pieces, LenProperties
  <2>6. rest(k) \in Seq(Sound)
    BY <1>1, <2>2, Pieces
  <2>7. chunk.left \in Seq(Sound)
    <3>1. PICK p \in Sound : chunk.left = <<p>> \o rest(k)
      BY <2>1, <2>4
    <3>2. <<p>> \in Seq(Sound)
      OBVIOUS
    <3> QED
      BY <2>6, <3>1, <3>2, ConcatProperties
  <2> HIDE DEF front, part
  <2>8. chunk.got = Append(front, part) /\ part \in Sound
    BY <2>1, <2>4 DEF front, part
  <2>9. chunk.got \in Seq(Sound) /\ Len(chunk.got) = Len(front) + 1
    BY <2>5, <2>8, AppendProperties
  <2>10. 1 \in 1 .. Len(chunk.got) /\ chunk.got[1] \in Sound
    BY <2>5, <2>9, ElementOfSeq
  <2>11. in # Asked
    <3>1. ASSUME in = Asked
          PROVE  FALSE
      <4>1. in[k] = Packet("request")
        BY <2>2, <3>1 DEF Asked
      <4> QED
        BY <2>1, <4>1 DEF CanSplit, Packet
    <3> QED
      BY <3>1
  <2> QED
    BY <2>2, <2>7, <2>9, <2>10, <2>11
<1>5. \/ \E k \in 1 .. most :
            chunk = [got |-> SubSeq(in, 1, k), left |-> rest(k)]
      \/ \E k \in {i \in 1 .. most : CanSplit(in[i])} :
            \E p \in OtherPart(in[k]) :
              chunk = [got  |-> Append(SubSeq(in, 1, k - 1),
                                       Part(ReadsAs(in[k]))),
                       left |-> <<p>> \o rest(k)]
  BY ChunkKinds, Zenon
<1> QED
  BY <1>3, <1>4, <1>5

\* A read changes the connection it serves only.
LEMMA ReadTakes ==
  ASSUME conns \in Seq(Connection), conns # <<>>,
         NEW chunk \in Chunks, Consume(chunk)
  PROVE  /\ conns' \in Seq(Connection) /\ Len(conns') = Last
         /\ conns'[1].in = chunk.left
         /\ \A i \in 2 .. Last : conns'[i] = conns[i]
<1>1. 1 \in 1 .. Len(conns) /\ conns[1] \in Connection /\ Len(conns) \in Nat
  BY EmptySeq, ElementOfSeq, LenProperties
<1> DEFINE c == [conns[1] EXCEPT !.in = chunk.left]
<1>2. c \in Connection /\ c.in = chunk.left
  BY <1>1, ReadReturns DEF Connection
<1>3. conns' = [conns EXCEPT ![1] = c]
  BY DEF Consume
<1> HIDE DEF c
<1>4. /\ conns' \in Seq(Connection) /\ Len(conns') = Len(conns)
      /\ \A j \in 1 .. Len(conns) : conns'[j] = IF j = 1 THEN c ELSE conns[j]
  BY <1>1, <1>2, <1>3, ExceptSeq
<1>5. conns'[1] = c /\ \A i \in 2 .. Len(conns) : conns'[i] = conns[i]
  BY <1>1, <1>4
<1> QED
  BY <1>2, <1>4, <1>5 DEF Last

----------------------------------------------------------------------------
(***************************************************************************)
(* The invariant holds at the start, implies the property, and every step  *)
(* keeps it.                                                               *)
(***************************************************************************)
LEMMA InitSync == SyncInit => SyncInv
<1> SUFFICES ASSUME SyncInit PROVE SyncInv
  OBVIOUS
<1> USE SyncAssumption, SoundPackets DEF SyncInit
<1>1. conns = <<>> /\ Len(conns) = 0
  OBVIOUS
<1>2. StateInv
  <2>1. 0 \in 0 .. MaxVer /\ 0 \in 0 .. MaxStops /\ 0 <= MaxConns
    OBVIOUS
  <2>2. /\ disk \in SettingsType /\ sset \in SettingsType
        /\ (disk # NoSettings => Real(disk))
        /\ (valid => Real(sset))
    OBVIOUS
  <2>3. valid \in BOOLEAN
    OBVIOUS
  <2> QED
    BY <1>1, <2>1, <2>2, <2>3 DEF StateInv, Last
<1>3. PacketsInv
  BY EmptySeq DEF PacketsInv
<1>4. ExchangeInv
  BY DEF ExchangeInv
<1> QED
  BY <1>2, <1>3, <1>4 DEF SyncInv

LEMMA Lengths ==
  ASSUME PacketsInv, link = "up" => conns # <<>>
  PROVE  /\ Len(inbox) \in Nat /\ Len(todo) \in Nat /\ Last \in Nat
         /\ link = "up" =>
              Last >= 1 /\ Len(conns[Last].in) \in Nat
                /\ conns[Last].in \in Seq(Sound)
         /\ conns # <<>> => Last >= 1
<1>1. Len(inbox) \in Nat /\ Len(todo) \in Nat /\ Last \in Nat
  BY LenProperties DEF PacketsInv, Last
<1>2. conns # <<>> => Last \in 1 .. Len(conns) /\ Last >= 1
  BY <1>1, EmptySeq DEF PacketsInv, Last
<1>3. ASSUME link = "up"
      PROVE  conns[Last].in \in Seq(Sound) /\ Len(conns[Last].in) \in Nat
  <2>1. conns[Last] \in Connection
    BY <1>2, <1>3, ElementOfSeq DEF PacketsInv
  <2>2. conns[Last].in \in Seq(Sound)
    BY <2>1 DEF Connection
  <2> QED
    BY <2>2, LenProperties
<1> QED
  BY <1>1, <1>2, <1>3

LEMMA InboxShort ==
  ASSUME ExchangeInv
  PROVE  Len(inbox) \in {0, 1}
<1>1. Len(<<>>) = 0
  OBVIOUS
<1>2. CASE mpc = "await"
  <2>1. inbox = <<>> \/ Len(inbox) = 1
    BY <1>2 DEF ExchangeInv
  <2> QED
    BY <1>1, <2>1
<1>3. CASE mpc = "fetched"
  BY <1>3 DEF ExchangeInv
<1>4. CASE mpc \notin {"await", "fetched"}
  <2>1. inbox = <<>>
    BY <1>4 DEF ExchangeInv
  <2> QED
    BY <1>1, <2>1
<1> QED
  BY <1>2, <1>3, <1>4

LEMMA SyncGivesNoGarbage == SyncInv => NoGarbage
<1> SUFFICES ASSUME SyncInv PROVE NoGarbage
  OBVIOUS
<1>1. Len(inbox) \in {0, 1}
  BY InboxShort DEF SyncInv
<1>2. SyncTypeOK
  BY <1>1, SoundTypes DEF SyncInv, StateInv, SyncTypeOK
<1> QED
  BY <1>2 DEF SyncInv, StateInv, NoGarbage, Real

LEMMA FetchDialKeeps ==
  ASSUME SyncInv, FetchDial, UNCHANGED faults
  PROVE  SyncInv'
<1> USE DEF SyncInv
<1>1. mpc \in {"boot", "asleep"} /\ link = "down" /\ inbox = <<>>
  BY DEF FetchDial, ExchangeInv
<1>2. ASSUME Dial("request")
      PROVE  SyncInv'
  <2>1. /\ conns' \in Seq(Connection) /\ Len(conns') <= MaxConns
        /\ conns' # <<>> /\ conns'[Len(conns')].in = <<>>
        /\ link' = "up" /\ mpc' = "request" /\ inbox' = inbox
    BY <1>2, DialConnects DEF PacketsInv
  <2>2. StateInv'
    BY <2>1, <1>2 DEF StateInv, FetchDial, server, bot, Last
  <2>3. PacketsInv'
    BY <2>1 DEF PacketsInv, FetchDial
  <2>4. ExchangeInv'
    BY <1>1, <2>1 DEF ExchangeInv, Last
  <2> QED
    BY <2>2, <2>3, <2>4
<1>3. ASSUME mpc' = "irrigate", UNCHANGED network
      PROVE  SyncInv'
  <2>1. StateInv'
    BY <1>3 DEF StateInv, FetchDial, server, bot, network, Last
  <2>2. PacketsInv'
    BY <1>3 DEF PacketsInv, FetchDial, network
  <2>3. ExchangeInv'
    BY <1>1, <1>3 DEF ExchangeInv, network
  <2> QED
    BY <2>1, <2>2, <2>3
<1> QED
  BY <1>2, <1>3 DEF FetchDial

LEMMA RequestKeeps ==
  ASSUME SyncInv, Request, UNCHANGED faults
  PROVE  SyncInv'
<1> USE DEF SyncInv
<1> DEFINE p == Packet("request")
<1>1. p \in Sound
  BY SoundPackets DEF PacketType, ReadType
<1>2. Write(p)
  BY DEF Request
<1> HIDE DEF p
<1>3. /\ conns' \in Seq(Connection) /\ Len(conns') = Last
      /\ link = "up" => /\ conns[Last].in \in Seq(Sound)
                        /\ conns'[Last].in = Append(conns[Last].in, p)
  BY <1>1, <1>2, WriteAppends DEF PacketsInv, ExchangeInv
<1>4. conns' = <<>> => conns = <<>>
  BY <1>3, EmptySeq DEF PacketsInv, Last
<1>5. StateInv'
  BY <1>3, <1>4 DEF StateInv, Request, server, bot, Last
<1>6. PacketsInv'
  BY <1>3 DEF PacketsInv, Request
<1>7. link = "up" => conns'[Last'].in = Asked
  <2>1. link = "up" => conns[Last].in = <<>>
    BY DEF Request, ExchangeInv
  <2> QED
    BY <1>3, <2>1 DEF Asked, Last, p
<1>8. ExchangeInv'
  BY <1>4, <1>7 DEF ExchangeInv, Request
<1> QED
  BY <1>5, <1>6, <1>8

\* One answer at most waits for the board.
LEMMA OneAnswer ==
  ASSUME SyncInv
  PROVE  inbox # <<>> => Len(inbox) = 1 /\ Head(inbox) \in Answers
<1>1. inbox \in Seq(Answers) /\ (inbox = <<>> <=> Len(inbox) = 0)
  BY EmptySeq DEF SyncInv, PacketsInv
<1>2. Len(inbox) \in {0, 1}
  BY InboxShort DEF SyncInv
<1>3. inbox # <<>> => Len(inbox) = 1
  BY <1>1, <1>2
<1>4. inbox # <<>> => Head(inbox) \in Answers
  BY <1>1, HeadTailProperties
<1> QED
  BY <1>3, <1>4

LEMMA ReadAnswerKeeps ==
  ASSUME SyncInv, ReadAnswer, UNCHANGED faults
  PROVE  SyncInv'
<1> USE DEF SyncInv
<1>1. /\ inbox # <<>> /\ Head(inbox) \in Answers /\ Len(inbox) = 1
      /\ mpc = "await" /\ mpc' = "fetched"
      /\ UNCHANGED <<todo, link, inbox, server, disk, bot, failed, stops>>
  BY OneAnswer DEF ReadAnswer
<1> DEFINE p == SettingsPacket(mset)
<1>2. p \in Sound
  BY SoundPackets DEF StateInv
<1>3. PICK amount \in Arrived(Head(inbox)) :
        /\ IF amount = "one byte" THEN Write(p) ELSE UNCHANGED conns
        /\ mset' = IF amount = "all" THEN Head(inbox).val ELSE mset
  BY DEF ReadAnswer
<1>4. mset' \in SettingsType /\ Real(mset')
  <2>1. amount = "all" => Head(inbox).type # "dummy"
    BY DEF Arrived
  <2>2. Head(inbox).type # "dummy" =>
          Head(inbox).val \in SettingsType /\ Real(Head(inbox).val)
    BY <1>1 DEF Answers, Sound, PacketSet
  <2> QED
    BY <1>3, <2>1, <2>2 DEF StateInv
<1>5. conns' \in Seq(Connection) /\ Len(conns') = Last
  <2>1. CASE amount = "one byte"
    <3>1. Write(p)
      BY <1>3, <2>1
    <3> HIDE DEF p
    <3> QED
      BY <1>2, <3>1, WriteAppends DEF PacketsInv, ExchangeInv
  <2>2. CASE amount # "one byte"
    BY <1>3, <2>2 DEF PacketsInv, Last
  <2> QED
    BY <2>1, <2>2
<1>6. conns' = <<>> => conns = <<>>
  BY <1>5, EmptySeq DEF PacketsInv, Last
<1>7. StateInv'
  BY <1>1, <1>4, <1>5, <1>6 DEF StateInv, server, bot, Last
<1>8. PacketsInv'
  BY <1>1, <1>5 DEF PacketsInv
<1>9. ExchangeInv'
  <2>1. link' = "up" => conns' # <<>>
    BY <1>1, <1>6 DEF ExchangeInv
  <2>2. Len(inbox') \in {0, 1} /\ mpc' = "fetched"
    BY <1>1
  <2> QED
    BY <2>1, <2>2 DEF ExchangeInv
<1> QED
  BY <1>7, <1>8, <1>9

LEMMA GiveUpKeeps ==
  ASSUME SyncInv, GiveUp, UNCHANGED faults
  PROVE  SyncInv'
<1> USE DEF SyncInv
<1>1. StateInv' /\ PacketsInv'
  BY DEF StateInv, PacketsInv, GiveUp, server, bot, network, Last
<1>2. Len(<<>>) = 0
  OBVIOUS
<1>3. ExchangeInv'
  BY <1>2 DEF ExchangeInv, GiveUp, network
<1> QED
  BY <1>1, <1>3

LEMMA EndFetchKeeps ==
  ASSUME SyncInv, EndFetch, UNCHANGED faults
  PROVE  SyncInv'
<1> USE DEF SyncInv
<1>1. /\ conns' \in Seq(Connection) /\ Len(conns') = Last
      /\ link' = "down" /\ inbox' = <<>> /\ mpc' = "irrigate"
  BY HangUpCloses DEF EndFetch, PacketsInv, ExchangeInv
<1>2. conns' = <<>> => conns = <<>>
  BY <1>1, EmptySeq DEF PacketsInv, Last
<1>3. StateInv'
  BY <1>1, <1>2 DEF StateInv, EndFetch, server, bot, Last
<1>4. PacketsInv'
  BY <1>1, EmptySeq DEF PacketsInv, EndFetch
<1>5. ExchangeInv'
  BY <1>1 DEF ExchangeInv
<1> QED
  BY <1>3, <1>4, <1>5

\* What a round may report.
LEMMA ReportPackets ==
  \A t \in {<<Packet("status")>>, <<Packet("status"), Packet("error")>>,
            <<Packet("status"), Packet("failure")>>,
            <<Packet("status"), Packet("error"), Packet("failure")>>} :
    t \in Seq(Reports)
<1> DEFINE a == Packet("status")
           b == Packet("error")
           c == Packet("failure")
<1>1. a \in Reports /\ b \in Reports /\ c \in Reports
  BY SoundPackets
<1> HIDE DEF a, b, c
<1>2. /\ <<a>> \in Seq(Reports) /\ <<a, b>> \in Seq(Reports)
      /\ <<a, c>> \in Seq(Reports) /\ <<a, b, c>> \in Seq(Reports)
  BY <1>1
<1> QED
  BY <1>2 DEF a, b, c

LEMMA IrrigateKeeps ==
  ASSUME SyncInv, Irrigate, UNCHANGED faults
  PROVE  SyncInv'
<1> USE DEF SyncInv
<1>1. /\ mpc' \in {"asleep", "dial"} /\ mset' \in SettingsType
      /\ Real(mset') /\ failed' \in BOOLEAN
  BY DEF Irrigate, QuietRound, ReportRound, FailureRound, StateInv,
         SettingsType, Real
<1>2. todo' \in Seq(Reports)
  BY ReportPackets
  DEF Irrigate, QuietRound, ReportRound, FailureRound, PacketsInv
<1>3. StateInv'
  BY <1>1 DEF StateInv, Irrigate, server, bot, network, Last
<1>4. PacketsInv'
  BY <1>2 DEF PacketsInv, Irrigate, network
<1>5. ExchangeInv'
  BY <1>1 DEF ExchangeInv, Irrigate, network
<1> QED
  BY <1>3, <1>4, <1>5

LEMMA ReportDialKeeps ==
  ASSUME SyncInv, ReportDial, UNCHANGED faults
  PROVE  SyncInv'
<1> USE DEF SyncInv
<1>1. mpc = "dial" /\ link = "down" /\ inbox = <<>>
  BY DEF ReportDial, ExchangeInv
<1>2. ASSUME Dial("send"), UNCHANGED todo
      PROVE  SyncInv'
  <2>1. /\ conns' \in Seq(Connection) /\ Len(conns') <= MaxConns
        /\ conns' # <<>> /\ conns'[Len(conns')].in = <<>>
        /\ link' = "up" /\ mpc' = "send" /\ inbox' = inbox
    BY <1>2, DialConnects DEF PacketsInv
  <2>2. StateInv'
    BY <2>1, <1>2 DEF StateInv, ReportDial, server, bot, Last
  <2>3. PacketsInv'
    BY <2>1, <1>2 DEF PacketsInv
  <2>4. ExchangeInv'
    BY <1>1, <2>1 DEF ExchangeInv, Last
  <2> QED
    BY <2>2, <2>3, <2>4
<1>3. ASSUME mpc' = "asleep", todo' = <<>>, UNCHANGED network
      PROVE  SyncInv'
  <2>1. StateInv'
    BY <1>3 DEF StateInv, ReportDial, server, bot, network, Last
  <2>2. PacketsInv'
    BY <1>3, EmptySeq DEF PacketsInv, network
  <2>3. ExchangeInv'
    BY <1>1, <1>3 DEF ExchangeInv, network
  <2> QED
    BY <2>1, <2>2, <2>3
<1> QED
  BY <1>2, <1>3 DEF ReportDial

LEMMA SendKeeps ==
  ASSUME SyncInv, Send, UNCHANGED faults
  PROVE  SyncInv'
<1> USE DEF SyncInv
<1> DEFINE p == Head(todo)
<1>1. p \in Reports /\ p \in Sound /\ todo' \in Seq(Reports)
  <2>1. p \in Reports /\ todo' \in Seq(Reports)
    BY HeadTailProperties DEF Send, PacketsInv
  <2> QED
    BY <2>1 DEF Reports
<1>2. Write(p)
  BY DEF Send
<1> HIDE DEF p
<1>3. /\ conns' \in Seq(Connection) /\ Len(conns') = Last
      /\ link = "up" => conns'[Last].in = Append(conns[Last].in, p)
  BY <1>1, <1>2, WriteAppends DEF PacketsInv, ExchangeInv
<1>4. conns' = <<>> => conns = <<>>
  BY <1>3, EmptySeq DEF PacketsInv, Last
<1>5. StateInv'
  BY <1>3, <1>4 DEF StateInv, Send, server, bot, Last
<1>6. PacketsInv'
  BY <1>1, <1>3 DEF PacketsInv, Send
<1>7. ExchangeInv'
  BY <1>4 DEF ExchangeInv, Send
<1> QED
  BY <1>5, <1>6, <1>7

LEMMA EndReportKeeps ==
  ASSUME SyncInv, EndReport, UNCHANGED faults
  PROVE  SyncInv'
<1> USE DEF SyncInv
<1>1. /\ conns' \in Seq(Connection) /\ Len(conns') = Last
      /\ link' = "down" /\ inbox' = <<>> /\ mpc' = "asleep"
  BY HangUpCloses DEF EndReport, PacketsInv, ExchangeInv
<1>2. conns' = <<>> => conns = <<>>
  BY <1>1, EmptySeq DEF PacketsInv, Last
<1>3. StateInv'
  BY <1>1, <1>2 DEF StateInv, EndReport, server, bot, Last
<1>4. PacketsInv'
  BY <1>1, EmptySeq DEF PacketsInv, EndReport
<1>5. ExchangeInv'
  BY <1>1 DEF ExchangeInv
<1> QED
  BY <1>3, <1>4, <1>5

----------------------------------------------------------------------------
LEMMA BreakKeeps ==
  ASSUME SyncInv, Break, UNCHANGED faults
  PROVE  SyncInv'
<1> USE DEF SyncInv
<1>1. Last \in 1 .. Len(conns) /\ conns[Last] \in Connection
  BY EmptySeq, ElementOfSeq DEF Break, ExchangeInv, PacketsInv, Last
<1> DEFINE buf == conns[Last].in
<1>2. buf \in Seq(Sound) /\ Len(buf) \in Nat
  BY <1>1, LenProperties DEF Connection
<1>3. PICK k \in 0 .. Len(buf), told \in BOOLEAN, torn \in BOOLEAN :
        /\ torn => k < Len(buf) /\ CanSplit(buf[k + 1])
        /\ conns' = [conns EXCEPT ![Last] =
             [in |-> IF torn THEN Append(SubSeq(buf, 1, k),
                                         Part(ReadsAs(buf[k + 1])))
                             ELSE SubSeq(buf, 1, k),
              eof |-> told]]
  BY DEF Break
<1> DEFINE in == IF torn THEN Append(SubSeq(buf, 1, k),
                                     Part(ReadsAs(buf[k + 1])))
                         ELSE SubSeq(buf, 1, k)
           c == [in |-> in, eof |-> told]
<1>4. in \in Seq(Sound)
  <2>1. SubSeq(buf, 1, k) \in Seq(Sound)
    BY <1>2, Pieces
  <2>2. ASSUME torn
        PROVE  Part(ReadsAs(buf[k + 1])) \in Sound
    <3>1. k + 1 \in 1 .. Len(buf)
      BY <1>2, <1>3, <2>2
    <3>2. buf[k + 1] \in Sound
      BY <1>2, <3>1, ElementOfSeq
    <3> QED
      BY <1>3, <2>2, <3>2, PartsAreSound
  <2> QED
    BY <2>1, <2>2, AppendProperties
<1>5. c \in Connection /\ conns' = [conns EXCEPT ![Last] = c]
  BY <1>3, <1>4 DEF Connection
<1> HIDE DEF c
<1>6. conns' \in Seq(Connection) /\ Len(conns') = Len(conns)
  BY <1>1, <1>5, ExceptSeq DEF PacketsInv
<1>7. conns' = <<>> => conns = <<>>
  BY <1>6, EmptySeq DEF PacketsInv
<1>8. StateInv'
  BY <1>6, <1>7 DEF StateInv, Break, mcu, server, bot, Last
<1>9. PacketsInv'
  BY <1>6 DEF PacketsInv, Break, mcu
<1>10. ExchangeInv'
  BY DEF ExchangeInv, Break, mcu
<1> QED
  BY <1>8, <1>9, <1>10

LEMMA RebootKeeps ==
  ASSUME SyncInv, Reboot, UNCHANGED faults
  PROVE  SyncInv'
<1> USE DEF SyncInv
<1>1. stops + 1 \in 0 .. MaxStops
  BY SyncAssumption DEF StateInv, Reboot
<1>2. StateInv'
  BY <1>1, SoundPackets DEF StateInv, Reboot, server, bot, Last
<1>3. PacketsInv'
  BY EmptySeq DEF PacketsInv, Reboot
<1>4. ExchangeInv'
  BY DEF ExchangeInv, Reboot
<1> QED
  BY <1>2, <1>3, <1>4

LEMMA AcceptKeeps ==
  ASSUME SyncInv, Accept, UNCHANGED faults
  PROVE  SyncInv'
<1> USE DEF SyncInv
<1>1. StateInv' /\ PacketsInv'
  BY DEF StateInv, PacketsInv, Accept, mcu, network, bot, Last
<1>2. ExchangeInv'
  BY DEF ExchangeInv, Accept, mcu, network, Last
<1> QED
  BY <1>1, <1>2

\* A read does not disturb what the board has under way, and answers it only
\* while it waits.
LEMMA ReadKeepsExchange ==
  ASSUME SyncInv, conns # <<>>, NEW chunk \in Chunks, Consume(chunk),
         UNCHANGED <<mcu, link>>,
         \/ inbox' = inbox
         \/ /\ Last = 1 /\ link = "up" /\ mpc = "await"
            /\ Len(inbox') = Len(inbox) + 1
  PROVE  ExchangeInv'
<1> USE DEF SyncInv
<1>1. /\ conns' \in Seq(Connection) /\ Len(conns') = Last
      /\ conns'[1].in = chunk.left /\ conns[1].in # <<>>
      /\ conns[1].in = Asked => chunk.left = <<>>
      /\ \A i \in 2 .. Last : conns'[i] = conns[i]
  BY ReadTakes, ReadReturns DEF PacketsInv
<1>2. Len(inbox) \in Nat /\ Last \in Nat /\ Last >= 1 /\ Len(<<>>) = 0
  BY Lengths DEF ExchangeInv
<1>3. conns' # <<>> /\ Last' = Last /\ mpc' = mpc /\ link' = link
  BY <1>1, <1>2, EmptySeq DEF mcu, Last
<1>4. CASE Last # 1
  <2>1. conns'[Last] = conns[Last] /\ inbox' = inbox
    BY <1>1, <1>2, <1>4
  <2> QED
    BY <1>3, <2>1 DEF ExchangeInv
<1>5. CASE Last = 1
  <2>1. ~(mpc = "request" /\ link = "up")
    BY <1>1, <1>5 DEF ExchangeInv
  <2>2. mpc = "await" /\ link = "up" =>
          inbox = <<>> /\ conns'[Last].in = <<>>
    BY <1>1, <1>5 DEF ExchangeInv
  <2>3. mpc = "await" =>
          \/ inbox' = <<>> /\ (link = "up" => conns'[Last].in = <<>>)
          \/ Len(inbox') = 1 /\ (link = "up" => conns'[Last].in = <<>>)
    <3>1. CASE link = "up" /\ mpc = "await"
      <4>1. inbox' = <<>> \/ Len(inbox') = 1
        BY <1>2, <2>2, <3>1
      <4> QED
        BY <2>2, <3>1, <4>1
    <3>2. CASE link # "up" /\ mpc = "await"
      <4>1. inbox' = inbox /\ (inbox = <<>> \/ Len(inbox) = 1)
        BY <3>2 DEF ExchangeInv
      <4> QED
        BY <3>2, <4>1
    <3> QED
      BY <3>1, <3>2
  <2>4. mpc # "await" => inbox' = inbox
    OBVIOUS
  <2> QED
    BY <1>3, <2>1, <2>3, <2>4 DEF ExchangeInv
<1> QED
  BY <1>4, <1>5

LEMMA AnswerAppends ==
  ASSUME inbox \in Seq(Answers), NEW p \in Answers, Answer(p)
  PROVE  /\ inbox' \in Seq(Answers)
         /\ \/ inbox' = inbox
            \/ /\ Last = 1 /\ link = "up" /\ mpc = "await"
               /\ Len(inbox') = Len(inbox) + 1
BY AppendProperties DEF Answer

LEMMA ReadKeeps ==
  ASSUME SyncInv, Read, UNCHANGED faults
  PROVE  SyncInv'
<1> USE DEF SyncInv
<1>1. conns # <<>>
  BY DEF Read, StateInv
<1>2. PICK chunk \in Chunks : Consume(chunk) /\ Process(FirstType(chunk))
  BY DEF Read
<1>3. conns' \in Seq(Connection) /\ Len(conns') = Last
  BY <1>1, <1>2, ReadTakes DEF PacketsInv
<1>4. conns' # <<>>
  BY <1>1, <1>3, EmptySeq DEF PacketsInv, Last
<1>5. /\ sset' \in SettingsType /\ (valid => Real(sset'))
      /\ spc' \in {"serve", "await"}
  BY <1>2 DEF Process, Read, StateInv, SettingsType, Real
<1>6. /\ inbox' \in Seq(Answers)
      /\ \/ inbox' = inbox
         \/ /\ Last = 1 /\ link = "up" /\ mpc = "await"
            /\ Len(inbox') = Len(inbox) + 1
  <2>1. SettingsPacket(sset) \in Answers \/ ~valid
    BY SoundPackets DEF StateInv
  <2>2. Packet("dummy") \in Answers
    BY SoundPackets
  <2> QED
    BY <1>2, <2>1, <2>2, AnswerAppends DEF Process, PacketsInv
<1>7. StateInv'
  BY <1>3, <1>4, <1>5 DEF StateInv, Read, mcu, bot, Last
<1>8. PacketsInv'
  BY <1>3, <1>6 DEF PacketsInv, Read, mcu
<1>9. ExchangeInv'
  BY <1>1, <1>2, <1>6, ReadKeepsExchange DEF Read
<1> QED
  BY <1>7, <1>8, <1>9

LEMMA ReadSettingsKeeps ==
  ASSUME SyncInv, ReadSettings, UNCHANGED faults
  PROVE  SyncInv'
<1> USE DEF SyncInv
<1>1. conns # <<>>
  BY DEF ReadSettings, StateInv
<1>2. PICK chunk \in Chunks : \E fits \in SettingsSize(chunk) :
        /\ Consume(chunk)
        /\ IF fits THEN valid' = TRUE /\ sset' = chunk.got[1].val
                   ELSE UNCHANGED <<valid, sset>>
  BY DEF ReadSettings
<1>2a. PICK fits \in SettingsSize(chunk) :
        /\ Consume(chunk)
        /\ IF fits THEN valid' = TRUE /\ sset' = chunk.got[1].val
                   ELSE UNCHANGED <<valid, sset>>
  BY <1>2
<1>3. conns' \in Seq(Connection) /\ Len(conns') = Last
      /\ chunk.got[1] \in Sound
  BY <1>1, <1>2a, ReadTakes, ReadReturns DEF PacketsInv
<1>4. conns' # <<>>
  BY <1>1, <1>3, EmptySeq DEF PacketsInv, Last
<1>5. fits => Real(chunk.got[1].val)
  <2>1. CASE LookAlike
    BY <2>1 DEF Real
  <2>2. CASE chunk.got = <<SettingsPacket(chunk.got[1].val)>>
    <3>1. chunk.got[1].type = "settings"
      BY <2>2 DEF SettingsPacket
    <3> QED
      BY <1>3, <3>1 DEF Sound
  <2>3. fits => LookAlike \/ chunk.got = <<SettingsPacket(chunk.got[1].val)>>
    BY DEF SettingsSize
  <2> QED
    BY <2>1, <2>2, <2>3
<1>6. /\ sset' \in SettingsType /\ valid' \in BOOLEAN
      /\ (valid' => Real(sset'))
  BY <1>2a, <1>3, <1>5 DEF Sound, PacketSet, StateInv
<1>7. StateInv'
  BY <1>3, <1>4, <1>6 DEF StateInv, ReadSettings, mcu, bot, Last
<1>8. PacketsInv'
  BY <1>3 DEF PacketsInv, ReadSettings, mcu
<1>9. ExchangeInv'
  BY <1>1, <1>2a, ReadKeepsExchange DEF ReadSettings
<1> QED
  BY <1>7, <1>8, <1>9

LEMMA AwaitEndsKeeps ==
  ASSUME SyncInv, AwaitEnds, UNCHANGED faults
  PROVE  SyncInv'
<1> USE DEF SyncInv
<1>1. StateInv' /\ PacketsInv'
  BY DEF StateInv, PacketsInv, AwaitEnds, mcu, network, bot, Last
<1>2. ExchangeInv'
  BY DEF ExchangeInv, AwaitEnds, mcu, network, Last
<1> QED
  BY <1>1, <1>2

LEMMA CloseKeeps ==
  ASSUME SyncInv, Close, UNCHANGED faults
  PROVE  SyncInv'
<1> USE DEF SyncInv
<1>1. conns # <<>>
  BY DEF Close, StateInv
<1>2. /\ conns' \in Seq(Connection) /\ Len(conns') = Last - 1
      /\ \A i \in 1 .. Last - 1 : conns'[i] = conns[i + 1]
  BY <1>1, HeadTailProperties DEF Close, PacketsInv, Last
<1>3. /\ Len(inbox) \in Nat /\ Last \in Nat /\ Last >= 1
  BY <1>1, Lengths DEF ExchangeInv
<1>4. StateInv'
  BY <1>2, <1>3, SyncAssumption DEF StateInv, Close, mcu, bot, Last
<1>5. PacketsInv'
  BY <1>2 DEF PacketsInv, Close, mcu
<1>6. CASE link' # "up"
  <2>1. (link = "down" => link' = "down") /\ mpc' = mpc /\ inbox' = inbox
    BY <1>3 DEF Close, mcu
  <2>2. ExchangeInv'
    BY <1>6, <2>1 DEF ExchangeInv
  <2> QED
    BY <1>4, <1>5, <2>2
<1>7. CASE link' = "up"
  <2>1. link = "up" /\ Last > 1
    BY <1>3, <1>7 DEF Close
  <2>2. conns' # <<>> /\ conns'[Len(conns')] = conns[Last]
    BY <1>2, <1>3, <2>1, EmptySeq
  <2>3. ExchangeInv'
    BY <1>7, <2>1, <2>2 DEF ExchangeInv, Close, mcu, Last
  <2> QED
    BY <1>4, <1>5, <2>3
<1> QED
  BY <1>6, <1>7

LEMMA RestartKeeps ==
  ASSUME SyncInv, UNCHANGED faults, Stop \/ Crash
  PROVE  SyncInv'
<1> USE DEF SyncInv
<1>1. PICK file \in SettingsType :
        Restart(file) /\ (file # NoSettings => Real(file))
  BY DEF Stop, Crash, StateInv
<1>2. stops + 1 \in 0 .. MaxStops
  BY <1>1, SyncAssumption DEF StateInv, Restart
<1>3. Len(conns') = 0 /\ conns' = <<>>
  BY <1>1 DEF Restart
<1>4. StateInv'
  <2>1. /\ valid' \in BOOLEAN /\ (valid' => Real(sset'))
        /\ sset' = file /\ disk' = file
    BY <1>1 DEF Restart
  <2>2. Last' <= MaxConns
    BY <1>3, SyncAssumption DEF Last
  <2>3. /\ mpc' = mpc /\ mset' = mset /\ link' \in {"down", "up", "closed"}
        /\ spc' = "accept" /\ editing' = FALSE /\ clearing' = FALSE
        /\ snap' = NoSettings /\ lastVer' = lastVer /\ failed' = failed
        /\ stops' = stops + 1
    BY <1>1 DEF Restart, mcu, StateInv
  <2> QED
    BY <1>1, <1>2, <2>1, <2>2, <2>3, SoundPackets DEF StateInv
<1>5. PacketsInv'
  BY <1>1, <1>3, EmptySeq DEF PacketsInv, Restart, mcu
<1>6. /\ link' # "up" /\ (link = "down" => link' = "down")
      /\ mpc' = mpc /\ inbox' = inbox
  BY <1>1 DEF Restart, mcu
<1>7. ExchangeInv'
  BY <1>6 DEF ExchangeInv
<1> QED
  BY <1>4, <1>5, <1>7

LEMMA UserKeeps ==
  ASSUME SyncInv, UserStep, UNCHANGED faults
  PROVE  SyncInv'
<1> USE DEF SyncInv
<1>1. UNCHANGED <<mcu, network, stops>>
  BY DEF UserStep, Edit, Change, ClearFailure, Commit, Abort
<1>2. PacketsInv' /\ ExchangeInv'
  BY <1>1 DEF PacketsInv, ExchangeInv, mcu, network, Last
<1>3. StateInv'
  <2>1. CASE Edit
    BY <1>1, <2>1 DEF Edit, StateInv, mcu, network, server, Last
  <2>2. CASE Change
    <3>1. lastVer + 1 \in 0 .. MaxVer
      BY <2>2, SyncAssumption DEF Change, StateInv
    <3>2. snap' \in SettingsType /\ Real(snap')
      BY <2>2, <3>1 DEF Change, StateInv, SettingsType, Garbage, Real
    <3> QED
      BY <1>1, <2>2, <3>1, <3>2 DEF Change, StateInv, mcu, network, server, Last
  <2>3. CASE ClearFailure
    <3>1. snap' \in SettingsType /\ Real(snap')
      BY <2>3 DEF ClearFailure, StateInv, SettingsType, Real
    <3> QED
      BY <1>1, <2>3, <3>1 DEF ClearFailure, StateInv, mcu, network, server, Last
  <2>4. CASE Commit
    BY <1>1, <2>4 DEF Commit, StateInv, mcu, network, Last
  <2>5. CASE Abort
    BY <1>1, <2>5 DEF Abort, StateInv, mcu, network, server, Last
  <2> QED
    BY <2>1, <2>2, <2>3, <2>4, <2>5 DEF UserStep
<1> QED
  BY <1>2, <1>3

LEMMA StutterKeepsSync ==
  ASSUME SyncInv, UNCHANGED syncVars
  PROVE  SyncInv'
BY DEF SyncInv, StateInv, PacketsInv, ExchangeInv, Last, syncVars, mcu,
       network, server, bot

LEMMA StepKeepsSync ==
  SyncInv /\ [SyncNext]_syncVars => SyncInv'
<1> SUFFICES ASSUME SyncInv, [SyncNext]_syncVars PROVE SyncInv'
  OBVIOUS
<1>1. CASE UNCHANGED syncVars
  BY <1>1, StutterKeepsSync
<1>2. CASE SyncNext
  <2>1. UNCHANGED faults
    BY <1>2 DEF SyncNext
  <2>2. CASE McuStep
    BY <2>1, <2>2, FetchDialKeeps, RequestKeeps, ReadAnswerKeeps, GiveUpKeeps,
       EndFetchKeeps, IrrigateKeeps, ReportDialKeeps, SendKeeps, EndReportKeeps
    DEF McuStep
  <2>3. CASE ServerStep
    BY <2>1, <2>3, AcceptKeeps, ReadKeeps, ReadSettingsKeeps, AwaitEndsKeeps,
       CloseKeeps DEF ServerStep
  <2>4. CASE UserStep
    BY <2>1, <2>4, UserKeeps
  <2>5. CASE Break \/ Reboot
    BY <2>1, <2>5, BreakKeeps, RebootKeeps
  <2>6. CASE Stop \/ Crash
    BY <2>1, <2>6, RestartKeeps
  <2> QED
    BY <1>2, <2>2, <2>3, <2>4, <2>5, <2>6 DEF SyncNext
<1> QED
  BY <1>1, <1>2

(***************************************************************************)
(* Under every set of faults, packets that arrive in parts among them,     *)
(* nobody takes over bytes that are not settings: neither the board        *)
(* (lan.cpp, updateSettings()), nor the server (dry_no_more_server.cpp,    *)
(* the answer to the dummy byte), nor a user's snapshot, nor the file;     *)
(* unless parts of other packets can be as long as the settings.           *)
(***************************************************************************)
THEOREM NobodyTakesGarbage == SyncSpec => []NoGarbage
<1>1. SyncInit => SyncInv
  BY InitSync
<1>2. SyncInv /\ [SyncNext]_syncVars => SyncInv'
  BY StepKeepsSync
<1>3. SyncInv => NoGarbage
  BY SyncGivesNoGarbage
<1> QED
  BY <1>1, <1>2, <1>3, PTL DEF SyncSpec

----------------------------------------------------------------------------
(***************************************************************************)
(* What holds without faults: a connection carries one fetch or one        *)
(* report, whose failure message is its last packet, and the versions and  *)
(* flags of the two sides, of packets and of the snapshot are comparable.  *)
(***************************************************************************)
First == conns[1].in
Apart == {"boot", "asleep", "irrigate", "dial"}

\* The board's settings wait for the server that asked for them.
Offered ==
  conns # <<>> /\ First # <<>> /\ First[1].type = "settings"

LinesInv ==
  /\ link = IF mpc \in Apart THEN "down" ELSE "up"
  /\ \A i \in 1 .. Last : conns[i].eof <=> (i # Last \/ link = "down")
  /\ Last <= 2
  /\ mpc = "boot" => conns = <<>>
  /\ mpc \in {"request", "await", "fetched"} => Last = 1
  /\ mpc \in {"irrigate", "dial"} => Last <= 1
  /\ mpc \in {"dial", "send"} \/ todo = <<>>

\* A fetch is one packet at a time, and only the last connection can be that
\* of a report.
StreamsInv ==
  /\ \A i \in 1 .. Last :
       \/ conns[i].in = <<>>
       \/ /\ i = 1 /\ Len(conns[i].in) = 1
          /\ \/ conns[i].in[1].type = "request" /\ mpc = "await"
             \/ conns[i].in[1].type = "settings" /\ spc = "await"
       \/ i = Last /\ mpc \in {"send", "asleep"} /\ conns[i].in \in Seq(Reports)
  /\ spc = "await" =>
       \/ Offered
       \/ /\ mpc = "await" /\ First = <<>>
          /\ inbox # <<>> /\ inbox[1].type = "dummy"

\* What the board may take over.
Good(s) == mset.ver <= s.ver /\ s.ver <= sset.ver /\ (failed => s.fail)

FetchInv ==
  /\ mpc = "request" => inbox = <<>> /\ First = <<>>
  /\ mpc = "await" =>
       \/ inbox = <<>> /\ First # <<>> /\ First[1].type = "request"
       \/ First = <<>> /\ inbox # <<>>
            /\ \/ inbox[1].type = "dummy" /\ spc = "await"
               \/ /\ inbox[1].type = "settings" /\ spc = "serve"
                  /\ valid /\ Good(inbox[1].val)
  /\ mpc = "send" => conns[Last].in \in Seq(Reports)

\* A failure message is the last packet of its report.
Failing(q) == \E i \in 1 .. Len(q) : q[i].type = "failure"
EndsWithFailure(q) == \A i \in 1 .. Len(q) : q[i].type = "failure" => i = Len(q)
OnTheLine == conns # <<>> /\ Failing(conns[Last].in)
InFlight == Failing(todo) \/ OnTheLine

FailureInv ==
  /\ EndsWithFailure(todo)
  /\ OnTheLine => todo = <<>> /\ EndsWithFailure(conns[Last].in)
  /\ InFlight => failed /\ ~editing

FlagsInv ==
  /\ failed => mset.fail
  /\ ~valid => (mset.fail => failed)
  /\ valid => (failed <=> sset.fail \/ InFlight) /\ (InFlight => ~sset.fail)
  /\ Offered =>
       /\ failed <=> First[1].val.fail \/ InFlight
       /\ InFlight => ~First[1].val.fail
  /\ editing => snap.fail = (failed /\ ~clearing)

VersionsInv ==
  /\ ~valid => mset.ver = 0 /\ disk = NoSettings
  /\ valid => 0 <= mset.ver /\ mset.ver <= sset.ver /\ sset.ver <= lastVer
  /\ spc = "await" => ~valid
  /\ Offered => First[1].val.ver = 0
  /\ editing => valid /\ sset.ver <= snap.ver /\ snap.ver <= lastVer

Calm ==
  /\ LinesInv /\ StreamsInv /\ FetchInv
  /\ FailureInv /\ FlagsInv /\ VersionsInv

LEMMA FailingAppend ==
  ASSUME NEW S, NEW q \in Seq(S), NEW e \in S
  PROVE  /\ Failing(Append(q, e)) <=> (Failing(q) \/ e.type = "failure")
         /\ ~Failing(q) => EndsWithFailure(Append(q, e))
<1> DEFINE a == Append(q, e)
<1>1. /\ Len(q) \in Nat /\ Len(a) = Len(q) + 1 /\ a[Len(q) + 1] = e
      /\ \A i \in 1 .. Len(q) : a[i] = q[i]
  BY AppendProperties, LenProperties
<1> HIDE DEF a
<1>2. Failing(a) <=> (Failing(q) \/ e.type = "failure")
  BY <1>1 DEF Failing
<1>3. ~Failing(q) => EndsWithFailure(a)
  BY <1>1 DEF Failing, EndsWithFailure
<1> QED
  BY <1>2, <1>3 DEF a

LEMMA FailingTail ==
  ASSUME NEW S, NEW q \in Seq(S), q # <<>>
  PROVE  /\ Failing(q) <=> (q[1].type = "failure" \/ Failing(Tail(q)))
         /\ EndsWithFailure(q) =>
              /\ EndsWithFailure(Tail(q))
              /\ q[1].type = "failure" => Tail(q) = <<>>
<1> DEFINE r == Tail(q)
<1>1. /\ Len(q) \in Nat /\ Len(q) >= 1 /\ r \in Seq(S) /\ Len(r) = Len(q) - 1
      /\ \A i \in 1 .. Len(r) : r[i] = q[i + 1]
  BY HeadTailProperties, EmptySeq, LenProperties
<1> HIDE DEF r
<1>2. ASSUME Failing(q), q[1].type # "failure"
      PROVE  Failing(r)
  <2>1. PICK i \in 1 .. Len(q) : q[i].type = "failure"
    BY <1>2 DEF Failing
  <2>2. i - 1 \in 1 .. Len(r) /\ (i - 1) + 1 = i
    BY <1>1, <1>2, <2>1
  <2>3. r[i - 1].type = "failure"
    BY <1>1, <2>1, <2>2
  <2> QED
    BY <2>2, <2>3 DEF Failing
<1>3. \A i \in 1 .. Len(r) : i + 1 \in 1 .. Len(q) /\ r[i] = q[i + 1]
  BY <1>1
<1>4. Failing(q) <=> (q[1].type = "failure" \/ Failing(r))
  BY <1>1, <1>2, <1>3 DEF Failing
<1>5. ASSUME EndsWithFailure(q)
      PROVE  /\ EndsWithFailure(r)
             /\ q[1].type = "failure" => r = <<>>
  <2>1. q[1].type = "failure" => Len(r) = 0
    BY <1>1, <1>5 DEF EndsWithFailure
  <2>2. EndsWithFailure(r)
    BY <1>1, <1>3, <1>5 DEF EndsWithFailure
  <2> QED
    BY <1>1, <2>1, <2>2, EmptySeq
<1> QED
  BY <1>4, <1>5 DEF r

\* The sequences of the invariant, in numbers.
LEMMA Counts ==
  ASSUME SyncInv
  PROVE  /\ Last \in Nat /\ Last = Len(conns) /\ (conns = <<>> <=> Last = 0)
         /\ \A i \in 1 .. Last :
              /\ conns[i] \in Connection /\ conns[i].in \in Seq(Sound)
              /\ Len(conns[i].in) \in Nat
              /\ conns[i].in = <<>> <=> Len(conns[i].in) = 0
         /\ inbox # <<>> => Head(inbox) = inbox[1] /\ inbox[1] \in Answers
         /\ todo \in Seq(Reports)
<1> USE DEF SyncInv, PacketsInv
<1>1. Last \in Nat /\ Last = Len(conns) /\ (conns = <<>> <=> Last = 0)
  BY LenProperties, EmptySeq DEF Last
<1>2. ASSUME NEW i \in 1 .. Last
      PROVE  /\ conns[i] \in Connection /\ conns[i].in \in Seq(Sound)
             /\ Len(conns[i].in) \in Nat
             /\ conns[i].in = <<>> <=> Len(conns[i].in) = 0
  <2>1. conns[i] \in Connection
    BY <1>1, ElementOfSeq
  <2>2. conns[i].in \in Seq(Sound)
    BY <2>1 DEF Connection
  <2> QED
    BY <2>1, <2>2, LenProperties, EmptySeq
<1>3. inbox # <<>> => Head(inbox) = inbox[1] /\ inbox[1] \in Answers
  <2>1. inbox # <<>> => 1 \in 1 .. Len(inbox)
    BY EmptySeq
  <2> QED
    BY <2>1, ElementOfSeq
<1> QED
  BY <1>1, <1>2, <1>3

LEMMA ReportTypes ==
  ASSUME NEW q \in Seq(Reports), NEW i \in 1 .. Len(q)
  PROVE  q[i].type \in {"status", "error", "failure"}
BY ElementOfSeq DEF Reports

\* What is known of the first connection.
LEMMA FirstFacts ==
  ASSUME SyncInv, StreamsInv, conns # <<>>
  PROVE  /\ 1 \in 1 .. Last
         /\ First # <<>> =>
              \/ /\ Len(First) = 1
                 /\ \/ First[1].type = "request" /\ mpc = "await"
                    \/ First[1].type = "settings" /\ spc = "await"
              \/ /\ Last = 1 /\ mpc \in {"send", "asleep"}
                 /\ First \in Seq(Reports)
                 /\ First[1].type \in {"status", "error", "failure"}
<1>1. 1 \in 1 .. Last
  BY Counts
<1>2. First # <<>> => 1 \in 1 .. Len(First)
  BY <1>1, Counts DEF First
<1>3. \/ First = <<>>
      \/ /\ Len(First) = 1
         /\ \/ First[1].type = "request" /\ mpc = "await"
            \/ First[1].type = "settings" /\ spc = "await"
      \/ Last = 1 /\ mpc \in {"send", "asleep"} /\ First \in Seq(Reports)
  BY <1>1 DEF StreamsInv, First
<1> QED
  BY <1>1, <1>2, <1>3, ReportTypes

----------------------------------------------------------------------------
LEMMA UserKeepsCalm ==
  ASSUME SyncInv, Calm, Reliable, UserStep, UNCHANGED faults
  PROVE  Calm'
<1> USE DEF Calm
<1>1. UNCHANGED <<mcu, network, spc, valid, disk>>
  BY DEF UserStep, Edit, Change, ClearFailure, Commit, Abort, server
<1>2. LinesInv' /\ StreamsInv'
  BY <1>1 DEF LinesInv, StreamsInv, mcu, network, Last, Offered, First
<1>3. /\ First' = First /\ (Offered' <=> Offered) /\ (InFlight' <=> InFlight)
      /\ (OnTheLine' <=> OnTheLine) /\ Last' = Last
  BY <1>1 DEF First, Offered, InFlight, OnTheLine, Failing, mcu, network, Last
<1>4. /\ editing' => ~InFlight
      /\ failed' => failed
      /\ ~valid => failed' = failed /\ ~editing'
      /\ valid => sset.ver <= sset'.ver /\ sset'.ver <= lastVer'
                    /\ (failed' <=> sset'.fail \/ InFlight)
                    /\ (InFlight => ~sset'.fail) /\ (failed' => failed)
                    /\ (InFlight => failed')
      /\ editing' => valid /\ snap'.fail = (failed' /\ ~clearing')
                       /\ sset'.ver <= snap'.ver /\ snap'.ver <= lastVer'
  <2> USE DEF VersionsInv, FlagsInv, FailureInv
  <2>0. /\ lastVer \in Nat /\ sset.ver \in Int /\ snap.ver \in Int
        /\ snap \in SettingsType /\ sset \in SettingsType
        /\ failed \in BOOLEAN /\ clearing \in BOOLEAN /\ editing \in BOOLEAN
        /\ valid \in BOOLEAN
    BY SyncAssumption DEF SyncInv, StateInv, SettingsType, Garbage
  <2>1. CASE Edit
    BY <1>1, <2>0, <2>1 DEF Edit, server, Reliable
  <2>2. CASE Change
    BY <1>1, <2>0, <2>2 DEF Change, server, SettingsType
  <2>3. CASE ClearFailure
    <3>1. /\ snap' = [snap EXCEPT !.fail = FALSE] /\ clearing' = TRUE
          /\ UNCHANGED <<sset, editing, lastVer, failed>> /\ editing
      BY <2>3 DEF ClearFailure, server
    <3>2. snap'.fail = FALSE /\ snap'.ver = snap.ver
      BY <2>0, <3>1 DEF SettingsType
    <3>3. snap'.fail = (failed' /\ ~clearing')
      BY <3>1, <3>2
    <3>4. /\ UNCHANGED <<valid, sset, editing, lastVer, failed>>
          /\ snap'.ver = snap.ver
      BY <1>1, <3>1, <3>2
    <3> QED
      BY <2>0, <3>3, <3>4
  <2>4. CASE Commit
    BY <1>1, <2>0, <2>4 DEF Commit
  <2>5. CASE Abort
    BY <1>1, <2>0, <2>5 DEF Abort, server
  <2> QED
    BY <2>1, <2>2, <2>3, <2>4, <2>5 DEF UserStep
<1>5. FetchInv'
  <2>1. /\ mset.ver \in Int /\ sset.ver \in Int
    BY DEF SyncInv, StateInv, SettingsType, Garbage
  <2>2. inbox # <<>> /\ inbox[1].type = "settings" =>
          inbox[1].val.ver \in Int
    BY Counts DEF Answers, Sound, PacketSet, SettingsType, Garbage
  <2>3. sset' = sset \/ (sset'.ver \in Int /\ valid)
    BY <1>1 DEF UserStep, Edit, Change, ClearFailure, Commit, Abort, server,
                SyncInv, StateInv, SettingsType, Garbage, VersionsInv
  <2>4. ASSUME inbox # <<>>, inbox[1].type = "settings", valid,
               Good(inbox[1].val)
        PROVE  Good(inbox[1].val)'
    BY <1>1, <1>4, <2>1, <2>2, <2>3, <2>4 DEF Good, mcu, network
  <2> QED
    BY <1>1, <1>3, <2>4 DEF FetchInv, mcu, network
<1>6. FailureInv'
  BY <1>1, <1>3, <1>4
  DEF FailureInv, EndsWithFailure, OnTheLine, Failing, VersionsInv, mcu, network
<1>7. FlagsInv'
  <2>1. Offered => ~valid
    BY FirstFacts DEF Offered, VersionsInv
  <2>2. UNCHANGED <<mset, valid>>
    BY <1>1 DEF mcu
  <2> QED
    BY <1>3, <1>4, <2>1, <2>2 DEF FlagsInv
<1>8. VersionsInv'
  <2>1. (mset.ver \in Int /\ sset.ver \in Int /\ sset'.ver \in Int) \/ ~valid
    BY <1>1 DEF UserStep, Edit, Change, ClearFailure, Commit, Abort, server,
                SyncInv, StateInv, SettingsType, Garbage, VersionsInv
  <2> QED
    BY <1>1, <1>3, <1>4, <2>1 DEF VersionsInv, mcu
<1> QED
  BY <1>2, <1>5, <1>6, <1>7, <1>8

\* Steps that move nothing of importance.
LEMMA KeepData ==
  ASSUME FlagsInv, VersionsInv, UNCHANGED <<mset, server, bot, disk, failed>>,
         InFlight' <=> InFlight, Offered' <=> Offered,
         Offered => First' = First
  PROVE  FlagsInv' /\ VersionsInv'
<1>1. UNCHANGED <<mset, spc, sset, valid, editing, snap, lastVer, clearing,
                  disk, failed>>
  BY DEF server, bot
<1>2. FlagsInv'
  BY <1>1 DEF FlagsInv
<1>3. VersionsInv'
  BY <1>1 DEF VersionsInv
<1> QED
  BY <1>2, <1>3

\* No failure is on the line of a fetch.
LEMMA FetchLine ==
  ASSUME SyncInv, Calm, mpc \notin {"send", "asleep"}
  PROVE  /\ ~OnTheLine /\ (InFlight <=> Failing(todo))
         /\ mpc # "dial" => todo = <<>> /\ ~Failing(todo)
<1> USE DEF Calm
<1>1. ~OnTheLine
  <2>1. ASSUME conns # <<>>
        PROVE  ~Failing(conns[Last].in)
    <3>1. Last = 1 /\ (Len(First) = 0 \/ Len(First) = 1)
      <4>1. Last <= 1 \/ Last = 2
        BY Counts DEF LinesInv
      <4>2. Last = 1
        BY <2>1, <4>1, Counts
        DEF LinesInv, SyncInv, StateInv
      <4>3. 1 \in 1 .. Last /\ (First = <<>> => Len(First) = 0)
        BY <2>1, FirstFacts, EmptySeq
      <4>4. First # <<>> => Len(First) = 1
        BY <2>1, FirstFacts
      <4>5. Len(First) = 0 \/ Len(First) = 1
        BY <4>3, <4>4
      <4> QED
        BY <4>2, <4>5
    <3>2. \A i \in 1 .. Len(First) : First[i].type # "failure"
      <4>1. Len(First) = 1 => First # <<>>
        BY EmptySeq
      <4>2. \A i \in 1 .. Len(First) : i = 1 /\ Len(First) = 1
        <5>1. Len(First) \in Nat
          BY <2>1, FirstFacts, Counts DEF First
        <5>2. CASE Len(First) = 0
          BY <5>1, <5>2
        <5>3. CASE Len(First) = 1
          BY <5>1, <5>3
        <5> QED
          BY <3>1, <5>2, <5>3
      <4> QED
        BY <2>1, <4>1, <4>2, FirstFacts
    <3> QED
      BY <3>1, <3>2 DEF Failing, First
  <2> QED
    BY <2>1 DEF OnTheLine
<1>2. mpc # "dial" => todo = <<>>
  BY DEF LinesInv
<1>3. todo = <<>> => ~Failing(todo)
  BY EmptySeq DEF Failing
<1> QED
  BY <1>1, <1>2, <1>3 DEF InFlight

LEMMA FetchDialKeepsCalm ==
  ASSUME SyncInv, Calm, Reliable, FetchDial, UNCHANGED faults
  PROVE  Calm'
<1> USE DEF Calm
<1>1. /\ mpc \in {"boot", "asleep"} /\ conns = <<>> /\ link = "down"
      /\ todo = <<>> /\ inbox = <<>> /\ Last = 0 /\ spc # "await"
      /\ UNCHANGED <<mset, todo, server, disk, bot, failed>>
  <2>1. /\ mpc \in {"boot", "asleep"} /\ conns = <<>>
        /\ UNCHANGED <<mset, todo, server, disk, bot, failed>>
    BY DEF FetchDial, Reliable, LinesInv
  <2>2. link = "down" /\ todo = <<>> /\ inbox = <<>>
    BY <2>1 DEF LinesInv, Apart, SyncInv, ExchangeInv
  <2>3. spc # "await"
    BY <2>1 DEF SyncInv, StateInv
  <2> QED
    BY <2>1, <2>2, <2>3, Counts
<1>2. ~InFlight /\ ~OnTheLine /\ ~Offered
  BY <1>1, EmptySeq DEF InFlight, OnTheLine, Failing, Offered
<1>3. ASSUME Dial("request")
      PROVE  /\ Len(conns') = 1 /\ conns' # <<>> /\ conns'[1].in = <<>>
             /\ conns'[1].eof = FALSE /\ link' = "up" /\ mpc' = "request"
             /\ inbox' = inbox
    <2> DEFINE c == [in |-> <<>>, eof |-> FALSE]
    <2>1. conns' = <<c>>
      BY <1>1, <1>3 DEF Dial
    <2>2. c.in = <<>> /\ c.eof = FALSE
      OBVIOUS
    <2> HIDE DEF c
    <2>3. Len(conns') = 1 /\ conns' # <<>> /\ conns'[1] = c
      BY <2>1
    <2> QED
      BY <1>3, <2>2, <2>3 DEF Dial
<1>4. \/ Dial("request") \/ (mpc' = "irrigate" /\ UNCHANGED network)
  BY DEF FetchDial
<1>5. LinesInv'
  <2>1. CASE Dial("request")
    <3>1. /\ Len(conns') = 1 /\ link' = "up" /\ mpc' = "request"
          /\ conns'[1].eof = FALSE /\ todo' = <<>>
      BY <1>1, <1>3, <2>1
    <3>2. Last' = 1 /\ \A i \in 1 .. Last' : i = 1
      BY <3>1 DEF Last
    <3> QED
      BY <3>1, <3>2 DEF LinesInv, Apart
  <2>2. CASE mpc' = "irrigate" /\ UNCHANGED network
    BY <1>1, <2>2 DEF LinesInv, Last, Apart, network
  <2> QED
    BY <1>4, <2>1, <2>2
<1>6. ~OnTheLine' /\ ~InFlight' /\ ~Offered'
  <2>1. CASE Dial("request")
    <3>1. conns'[Len(conns')].in = <<>> /\ First' = <<>>
      BY <1>3, <2>1 DEF First
    <3> QED
      BY <1>1, <3>1, EmptySeq DEF InFlight, OnTheLine, Failing, Offered, Last
  <2>2. CASE mpc' = "irrigate" /\ UNCHANGED network
    BY <1>1, <2>2, EmptySeq
    DEF InFlight, OnTheLine, Failing, Offered, network
  <2> QED
    BY <1>4, <2>1, <2>2
<1>7. StreamsInv'
  <2>1. spc' # "await"
    BY <1>1 DEF server
  <2>2. CASE Dial("request")
    <3>1. Len(conns') = 1 /\ conns'[1].in = <<>>
      BY <1>3, <2>2
    <3>2. Last' = 1 /\ \A i \in 1 .. Last' : i = 1
      BY <3>1 DEF Last
    <3> QED
      BY <2>1, <3>1, <3>2 DEF StreamsInv
  <2>3. CASE mpc' = "irrigate" /\ UNCHANGED network
    BY <1>1, <2>1, <2>3 DEF StreamsInv, Last, network
  <2> QED
    BY <1>4, <2>2, <2>3
<1>8. FetchInv'
  BY <1>1, <1>3, <1>4 DEF FetchInv, First
<1>9. FailureInv'
  BY <1>1, <1>6 DEF FailureInv, EndsWithFailure
<1>10. FlagsInv' /\ VersionsInv'
  BY <1>1, <1>2, <1>6, KeepData
<1> QED
  BY <1>5, <1>7, <1>8, <1>9, <1>10

\* A write reaches the last connection.
LEMMA WriteReaches ==
  ASSUME SyncInv, link = "up", NEW p \in Sound, Write(p)
  PROVE  /\ Last \in 1 .. Last /\ conns # <<>> /\ Len(conns') = Last
         /\ conns' # <<>> /\ conns'[Last].in = Append(conns[Last].in, p)
         /\ conns'[Last].eof = conns[Last].eof
         /\ \A i \in 1 .. Last : i # Last => conns'[i] = conns[i]
<1>1. conns # <<>> /\ Last \in 1 .. Last /\ conns[Last] \in Connection
      /\ conns \in Seq(Connection) /\ Last = Len(conns)
  BY Counts DEF SyncInv, ExchangeInv, PacketsInv
<1> DEFINE c == [conns[Last] EXCEPT !.in = Append(@, p)]
<1>2. /\ c \in Connection /\ c.in = Append(conns[Last].in, p)
      /\ c.eof = conns[Last].eof
  BY <1>1, AppendProperties DEF Connection
<1>3. conns' = [conns EXCEPT ![Last] = c]
  BY DEF Write
<1> HIDE DEF c
<1>4. /\ Len(conns') = Last /\ conns' \in Seq(Connection)
      /\ \A i \in 1 .. Last : conns'[i] = IF i = Last THEN c ELSE conns[i]
  BY <1>1, <1>2, <1>3, ExceptSeq
<1>5. conns' # <<>>
  BY <1>1, <1>4, EmptySeq
<1> QED
  BY <1>1, <1>2, <1>4, <1>5

LEMMA RequestKeepsCalm ==
  ASSUME SyncInv, Calm, Reliable, Request, UNCHANGED faults
  PROVE  Calm'
<1> USE DEF Calm
<1> DEFINE p == Packet("request")
<1>1. /\ mpc = "request" /\ mpc' = "await" /\ link = "up" /\ Last = 1
      /\ First = <<>> /\ inbox = <<>> /\ todo = <<>>
      /\ UNCHANGED <<mset, todo, link, inbox, server, disk, bot, failed>>
  BY DEF Request, LinesInv, FetchInv, Apart
<1>2. p \in Sound /\ p.type = "request"
  BY SoundPackets DEF PacketType, ReadType, Packet
<1>3. Write(p)
  BY DEF Request
<1> HIDE DEF p
<1>4. /\ Len(conns') = 1 /\ conns' # <<>> /\ conns # <<>>
      /\ First' = Append(<<>>, p) /\ conns'[1].eof = conns[1].eof
  BY <1>1, <1>2, <1>3, WriteReaches DEF First
<1>5. Len(First') = 1 /\ First' # <<>> /\ First'[1].type = "request"
  BY <1>2, <1>4
<1>6. ~InFlight /\ ~Offered /\ spc # "await"
  BY <1>1, FetchLine DEF Offered, StreamsInv
<1>7. ~OnTheLine' /\ ~InFlight' /\ ~Offered'
  BY <1>1, <1>4, <1>5, EmptySeq
  DEF OnTheLine, InFlight, Offered, Failing, Last, First
<1>8. LinesInv'
  BY <1>1, <1>4 DEF LinesInv, Last, Apart
<1>9. StreamsInv'
  <2>1. Last' = 1 /\ spc' = spc
    BY <1>1, <1>4 DEF Last, server
  <2> QED
    BY <1>1, <1>5, <1>6, <2>1 DEF StreamsInv, First
<1>10. FetchInv'
  BY <1>1, <1>5 DEF FetchInv
<1>11. FailureInv'
  BY <1>1, <1>7 DEF FailureInv, EndsWithFailure
<1>12. FlagsInv' /\ VersionsInv'
  BY <1>1, <1>6, <1>7, KeepData
<1> QED
  BY <1>8, <1>9, <1>10, <1>11, <1>12

LEMMA ReadAnswerKeepsCalm ==
  ASSUME SyncInv, Calm, Reliable, ReadAnswer, UNCHANGED faults
  PROVE  Calm'
<1> USE DEF Calm
<1>1. /\ mpc = "await" /\ mpc' = "fetched" /\ link = "up" /\ Last = 1
      /\ First = <<>> /\ inbox # <<>> /\ todo = <<>> /\ Head(inbox) = inbox[1]
      /\ UNCHANGED <<todo, link, inbox, server, disk, bot, failed>>
      /\ conns # <<>>
  <2>1. /\ mpc = "await" /\ mpc' = "fetched" /\ inbox # <<>>
        /\ UNCHANGED <<todo, link, inbox, server, disk, bot, failed>>
    BY DEF ReadAnswer
  <2>2. link = "up" /\ Last = 1 /\ First = <<>> /\ todo = <<>>
    BY <2>1 DEF LinesInv, FetchInv, Apart
  <2> QED
    BY <2>1, <2>2, Counts
<1>2. ~InFlight /\ ~Offered
  BY <1>1, FetchLine DEF Offered
<1>3. ASSUME inbox[1].type = "dummy"
      PROVE  Calm'
  <2> DEFINE p == SettingsPacket(mset)
  <2>1. /\ p \in Sound /\ p.type = "settings" /\ p.val = mset
        /\ spc = "await" /\ ~valid /\ mset' = mset
    BY <1>1, <1>3, SoundPackets
    DEF SyncInv, StateInv, SettingsPacket, FetchInv, VersionsInv, ReadAnswer,
        Arrived
  <2>2. Write(p)
    BY <1>1, <1>3 DEF ReadAnswer, Arrived
  <2> HIDE DEF p
  <2>3. /\ Len(conns') = 1 /\ conns' # <<>>
        /\ First' = Append(<<>>, p) /\ conns'[1].eof = conns[1].eof
    BY <1>1, <2>1, <2>2, WriteReaches DEF First
  <2>4. Len(First') = 1 /\ First' # <<>> /\ First'[1] = p
    BY <2>1, <2>3
  <2>5. Offered' /\ ~OnTheLine' /\ ~InFlight'
    BY <1>1, <2>1, <2>3, <2>4, EmptySeq
    DEF OnTheLine, InFlight, Offered, Failing, Last, First
  <2>6. LinesInv'
    BY <1>1, <2>3 DEF LinesInv, Last, Apart
  <2>7. StreamsInv'
    <3>1. Last' = 1 /\ spc' = spc
      BY <1>1, <2>3 DEF Last, server
    <3> QED
      BY <2>1, <2>4, <2>5, <3>1 DEF StreamsInv, First
  <2>8. FetchInv'
    BY <1>1 DEF FetchInv
  <2>9. FailureInv'
    BY <1>1, <2>5 DEF FailureInv, EndsWithFailure
  <2>10. UNCHANGED <<spc, sset, valid, editing, snap, lastVer, clearing, disk,
                     failed>>
    BY <1>1 DEF server, bot
  <2>11. FlagsInv'
    <3>1. failed <=> mset.fail
      BY <2>1 DEF FlagsInv
    <3> QED
      BY <1>2, <2>1, <2>4, <2>5, <2>10, <3>1 DEF FlagsInv
  <2>12. VersionsInv'
    BY <2>1, <2>4, <2>10 DEF VersionsInv
  <2> QED
    BY <2>6, <2>7, <2>8, <2>9, <2>11, <2>12
<1>4. ASSUME inbox[1].type # "dummy"
      PROVE  Calm'
  <2>1. /\ spc = "serve" /\ valid /\ Good(inbox[1].val)
        /\ mset' = inbox[1].val /\ conns' = conns
    <3>1. Arrived(Head(inbox)) = {"all"}
      BY <1>1, <1>4 DEF Arrived, Reliable
    <3> QED
      BY <1>1, <1>4, <3>1 DEF FetchInv, ReadAnswer
  <2>2. /\ First' = First /\ Last' = Last /\ ~Offered' /\ ~InFlight'
        /\ ~OnTheLine' /\ ~OnTheLine
    BY <1>1, <1>2, <2>1
    DEF First, Last, Offered, InFlight, OnTheLine, Failing
  <2>3. UNCHANGED <<spc, sset, valid, editing, snap, lastVer, clearing, disk,
                    failed>>
    BY <1>1 DEF server, bot
  <2>4. LinesInv'
    BY <1>1, <2>1 DEF LinesInv, Last, Apart
  <2>5. StreamsInv'
    BY <1>1, <2>1, <2>2, <2>3 DEF StreamsInv, First
  <2>6. FetchInv'
    BY <1>1 DEF FetchInv
  <2>7. FailureInv'
    BY <1>1, <2>2 DEF FailureInv, EndsWithFailure
  <2>8. FlagsInv'
    BY <1>2, <2>1, <2>2, <2>3 DEF FlagsInv, Good
  <2>9. VersionsInv'
    <3>1. mset.ver \in Int /\ inbox[1].val.ver \in Int
      BY <1>1, <1>4, Counts
      DEF SyncInv, StateInv, Answers, Sound, PacketSet, SettingsType, Garbage
    <3>2. 0 <= mset'.ver
      BY <2>1, <3>1 DEF VersionsInv, Good
    <3> QED
      BY <2>1, <2>2, <2>3, <3>2 DEF VersionsInv, Good
  <2> QED
    BY <2>4, <2>5, <2>6, <2>7, <2>8, <2>9
<1> QED
  BY <1>3, <1>4

LEMMA GiveUpNever ==
  ASSUME Calm, Reliable
  PROVE  ~GiveUp
BY DEF Calm, LinesInv, Reliable, GiveUp, Apart

\* Hanging up leaves the packets where they are.
LEMMA HangUpEnds ==
  ASSUME SyncInv, link = "up", NEW next, HangUp(next)
  PROVE  /\ Len(conns') = Last /\ conns' # <<>> /\ conns # <<>>
         /\ 1 \in 1 .. Last
         /\ \A i \in 1 .. Last : conns'[i].in = conns[i].in
         /\ conns'[Last].eof = TRUE
         /\ \A i \in 1 .. Last : i # Last => conns'[i].eof = conns[i].eof
         /\ link' = "down" /\ inbox' = <<>> /\ mpc' = next
<1>1. conns # <<>> /\ Last \in 1 .. Last /\ conns[Last] \in Connection
      /\ conns \in Seq(Connection) /\ Last = Len(conns) /\ 1 \in 1 .. Last
  BY Counts DEF SyncInv, ExchangeInv, PacketsInv
<1> DEFINE c == [conns[Last] EXCEPT !.eof = TRUE]
<1>2. c \in Connection /\ c.in = conns[Last].in /\ c.eof = TRUE
  BY <1>1 DEF Connection
<1>3. conns' = [conns EXCEPT ![Last] = c]
  BY DEF HangUp
<1> HIDE DEF c
<1>4. /\ Len(conns') = Last /\ conns' \in Seq(Connection)
      /\ \A i \in 1 .. Last : conns'[i] = IF i = Last THEN c ELSE conns[i]
  BY <1>1, <1>2, <1>3, ExceptSeq
<1>5. conns' # <<>>
  BY <1>1, <1>4, EmptySeq
<1> QED
  BY <1>1, <1>2, <1>4, <1>5 DEF HangUp

LEMMA HangUpKeepsCalm ==
  ASSUME SyncInv, Calm, Reliable, EndFetch \/ EndReport, UNCHANGED faults
  PROVE  Calm'
<1> USE DEF Calm
<1>1. /\ \/ mpc = "fetched" /\ HangUp("irrigate") /\ Last = 1
         \/ mpc = "send" /\ HangUp("asleep")
      /\ link = "up" /\ todo = <<>>
      /\ UNCHANGED <<mset, todo, server, disk, bot, failed>>
  BY DEF EndFetch, EndReport, LinesInv, Apart
<1>2. /\ Len(conns') = Last /\ conns' # <<>> /\ conns # <<>> /\ 1 \in 1 .. Last
      /\ \A i \in 1 .. Last : conns'[i].in = conns[i].in
      /\ conns'[Last].eof = TRUE
      /\ \A i \in 1 .. Last : i # Last => conns'[i].eof = conns[i].eof
      /\ link' = "down"
      /\ \/ mpc = "fetched" /\ mpc' = "irrigate"
         \/ mpc = "send" /\ mpc' = "asleep"
  BY <1>1, HangUpEnds
<1>3. Last' = Last /\ First' = First /\ Last \in 1 .. Last
  BY <1>2, Counts DEF Last, First
<1>4. (Offered' <=> Offered) /\ (OnTheLine' <=> OnTheLine)
      /\ (InFlight' <=> InFlight) /\ conns'[Last'].in = conns[Last].in
  BY <1>1, <1>2, <1>3 DEF Offered, OnTheLine, InFlight, Failing
<1>5. LinesInv'
  BY <1>1, <1>2, <1>3 DEF LinesInv, Apart
<1>6. StreamsInv'
  <2>1. spc' = spc
    BY <1>1 DEF server
  <2>2. \A i \in 1 .. Last : conns'[i].in = conns[i].in
    BY <1>2
  <2> QED
    BY <1>2, <1>3, <1>4, <2>1, <2>2 DEF StreamsInv
<1>7. FetchInv'
  BY <1>2 DEF FetchInv
<1>8. FailureInv'
  BY <1>1, <1>3, <1>4 DEF FailureInv, EndsWithFailure, bot
<1>9. FlagsInv' /\ VersionsInv'
  BY <1>1, <1>3, <1>4, KeepData
<1> QED
  BY <1>5, <1>6, <1>7, <1>8, <1>9

\* Where the failure message is in what a round may report.
LEMMA FailureIsLast ==
  /\ \A t \in {<<Packet("status")>>, <<Packet("status"), Packet("error")>>} :
       ~Failing(t) /\ EndsWithFailure(t)
  /\ \A t \in {<<Packet("status"), Packet("failure")>>,
               <<Packet("status"), Packet("error"), Packet("failure")>>} :
       Failing(t) /\ EndsWithFailure(t)
<1> DEFINE a == Packet("status")
           b == Packet("error")
           c == Packet("failure")
<1>1. a.type # "failure" /\ b.type # "failure" /\ c.type = "failure"
  BY DEF Packet
<1> HIDE DEF a, b, c
<1>2. ~Failing(<<a>>) /\ ~Failing(<<a, b>>)
      /\ EndsWithFailure(<<a>>) /\ EndsWithFailure(<<a, b>>)
  BY <1>1 DEF Failing, EndsWithFailure
<1>3. EndsWithFailure(<<a, c>>) /\ EndsWithFailure(<<a, b, c>>)
  BY <1>1 DEF EndsWithFailure
<1>4. Failing(<<a, c>>) /\ Failing(<<a, b, c>>)
  <2>1. /\ 2 \in 1 .. Len(<<a, c>>) /\ <<a, c>>[2] = c
        /\ 3 \in 1 .. Len(<<a, b, c>>) /\ <<a, b, c>>[3] = c
    OBVIOUS
  <2> QED
    BY <1>1, <2>1 DEF Failing
<1> QED
  BY <1>2, <1>3, <1>4 DEF a, b, c

LEMMA IrrigateKeepsCalm ==
  ASSUME SyncInv, Calm, Reliable, Irrigate, UNCHANGED faults
  PROVE  Calm'
<1> USE DEF Calm
<1>1. /\ mpc = "irrigate" /\ mpc' \in {"asleep", "dial"} /\ link = "down"
      /\ todo = <<>> /\ UNCHANGED <<conns, link, inbox, server, disk, bot>>
      /\ mpc' = "asleep" => todo' = <<>>
  BY DEF Irrigate, QuietRound, ReportRound, FailureRound, LinesInv, Apart,
         network
<1>2. /\ ~OnTheLine /\ ~InFlight /\ First' = First /\ Last' = Last
      /\ (Offered' <=> Offered) /\ ~OnTheLine'
  BY <1>1, FetchLine DEF First, Last, Offered, OnTheLine, Failing
<1>3. UNCHANGED <<spc, sset, valid, editing, snap, lastVer, clearing, disk>>
  BY <1>1 DEF server, bot
<1>4. LinesInv'
  BY <1>1, <1>2 DEF LinesInv, Apart
<1>5. StreamsInv'
  BY <1>1, <1>2, <1>3 DEF StreamsInv
<1>6. FetchInv'
  BY <1>1 DEF FetchInv
<1>7. CASE QuietRound \/ ReportRound
  <2>1. ~Failing(todo') /\ EndsWithFailure(todo') /\ UNCHANGED <<mset, failed>>
    <3>1. CASE QuietRound
      BY <1>1, <3>1, EmptySeq DEF QuietRound, Failing, EndsWithFailure
    <3>2. CASE ReportRound
      BY <3>2, FailureIsLast DEF ReportRound
    <3> QED
      BY <1>7, <3>1, <3>2
  <2>2. ~InFlight'
    BY <1>2, <2>1 DEF InFlight, Failing
  <2>3. EndsWithFailure(todo)'
    BY <2>1 DEF EndsWithFailure
  <2>4. FailureInv'
    BY <1>2, <2>2, <2>3 DEF FailureInv
  <2>5. FlagsInv' /\ VersionsInv'
    BY <1>1, <1>2, <2>1, <2>2, KeepData
  <2> QED
    BY <1>4, <1>5, <1>6, <2>4, <2>5
<1>8. CASE FailureRound
  <2>1. /\ ~mset.fail /\ ~editing /\ failed' = TRUE
        /\ mset' = [mset EXCEPT !.fail = TRUE]
        /\ Failing(todo') /\ EndsWithFailure(todo')
    BY <1>8, FailureIsLast DEF FailureRound, Reliable
  <2>2. InFlight' /\ EndsWithFailure(todo)'
    BY <2>1 DEF InFlight, Failing, EndsWithFailure
  <2>3. mset'.fail = TRUE /\ mset'.ver = mset.ver
    BY <2>1 DEF SyncInv, StateInv, SettingsType
  <2>4. ~failed /\ (valid => ~sset.fail) /\ (Offered => ~First[1].val.fail)
    BY <1>2, <2>1 DEF FlagsInv
  <2>5. FailureInv'
    BY <1>2, <1>3, <2>1, <2>2 DEF FailureInv
  <2>6. FlagsInv'
    BY <1>2, <1>3, <2>1, <2>2, <2>3, <2>4 DEF FlagsInv
  <2>7. VersionsInv'
    BY <1>2, <1>3, <2>3 DEF VersionsInv
  <2> QED
    BY <1>4, <1>5, <1>6, <2>5, <2>6, <2>7
<1> QED
  BY <1>7, <1>8 DEF Irrigate

LEMMA ReportDialKeepsCalm ==
  ASSUME SyncInv, Calm, Reliable, ReportDial, UNCHANGED faults
  PROVE  Calm'
<1> USE DEF Calm
<1>1. /\ mpc = "dial" /\ mpc' = "send" /\ link = "down" /\ link' = "up"
      /\ Dial("send") /\ Last <= 1 /\ Last \in Nat
      /\ UNCHANGED <<mset, todo, inbox, server, disk, bot, failed>>
  BY Counts DEF ReportDial, Dial, Reliable, LinesInv, Apart
<1> DEFINE c == [in |-> <<>>, eof |-> FALSE]
<1>2. c \in Connection /\ c.in = <<>> /\ c.eof = FALSE
  BY EmptySeq DEF Connection
<1>3. conns' = Append(conns, c)
  BY <1>1 DEF Dial
<1> HIDE DEF c
<1>4. /\ Len(conns') = Last + 1 /\ conns' # <<>> /\ conns'[Last + 1] = c
      /\ \A i \in 1 .. Last : conns'[i] = conns[i]
  BY <1>2, <1>3, AppendProperties DEF SyncInv, PacketsInv, Last
<1>5. /\ Last' = Last + 1 /\ conns'[Last'].in = <<>>
      /\ \A i \in 1 .. Last' : i \in 1 .. Last \/ i = Last + 1
      /\ \A i \in 1 .. Last : i # Last + 1
  BY <1>1, <1>2, <1>4 DEF Last
<1>6. ~OnTheLine /\ ~OnTheLine' /\ (InFlight' <=> InFlight)
  BY <1>1, <1>5, FetchLine, EmptySeq DEF OnTheLine, InFlight, Failing
<1>7. (Offered' <=> Offered) /\ (Offered => First' = First)
      /\ (conns = <<>> => First' = <<>>)
  <2>1. CASE conns = <<>>
    <3>1. Last = 0
      BY <2>1, Counts
    <3>2. First' = <<>>
      BY <1>2, <1>4, <3>1 DEF First
    <3> QED
      BY <2>1, <3>2 DEF Offered
  <2>2. CASE conns # <<>>
    <3>1. 1 \in 1 .. Last
      BY <2>2, Counts
    <3> QED
      BY <1>4, <2>2, <3>1 DEF Offered, First
  <2> QED
    BY <2>1, <2>2
<1>8. LinesInv'
  <2>1. \A i \in 1 .. Last' : conns'[i].eof <=> (i # Last' \/ link' = "down")
    BY <1>1, <1>2, <1>4, <1>5 DEF LinesInv
  <2> QED
    BY <1>1, <1>5, <2>1 DEF LinesInv, Apart
<1>9. StreamsInv'
  <2>1. spc' = spc
    BY <1>1 DEF server
  <2> QED
    BY <1>1, <1>2, <1>4, <1>5, <1>7, <2>1 DEF StreamsInv
<1>10. FetchInv'
  BY <1>1, <1>5, EmptySeq DEF FetchInv
<1>11. FailureInv'
  BY <1>1, <1>6 DEF FailureInv, EndsWithFailure, bot
<1>12. FlagsInv' /\ VersionsInv'
  BY <1>1, <1>6, <1>7, KeepData
<1> QED
  BY <1>8, <1>9, <1>10, <1>11, <1>12

LEMMA SendKeepsCalm ==
  ASSUME SyncInv, Calm, Reliable, Send, UNCHANGED faults
  PROVE  Calm'
<1> USE DEF Calm
<1> DEFINE p == Head(todo)
<1>1. /\ mpc = "send" /\ link = "up" /\ todo # <<>> /\ Write(p)
      /\ todo' = Tail(todo)
      /\ UNCHANGED <<mpc, mset, link, inbox, server, disk, bot, failed>>
  BY DEF Send, LinesInv, Apart
<1>2. /\ p \in Reports /\ p \in Sound /\ p = todo[1]
      /\ Tail(todo) \in Seq(Reports)
  BY <1>1, Counts, HeadTailProperties DEF Reports
<1> HIDE DEF p
<1>3. /\ Last \in 1 .. Last /\ conns # <<>> /\ Len(conns') = Last
      /\ conns' # <<>> /\ conns'[Last].in = Append(conns[Last].in, p)
      /\ conns'[Last].eof = conns[Last].eof
      /\ \A i \in 1 .. Last : i # Last => conns'[i] = conns[i]
  BY <1>1, <1>2, WriteReaches
<1>4. /\ conns[Last].in \in Seq(Reports) /\ conns'[Last].in \in Seq(Reports)
      /\ ~Failing(conns[Last].in)
      /\ Failing(conns'[Last].in) <=> p.type = "failure"
      /\ EndsWithFailure(conns'[Last].in)
  <2>1. conns[Last].in \in Seq(Reports)
    BY <1>1 DEF FetchInv
  <2>2. ~Failing(conns[Last].in)
    BY <1>1, <1>3 DEF FailureInv, OnTheLine
  <2> QED
    BY <1>2, <1>3, <2>1, <2>2, FailingAppend, AppendProperties
<1>5. /\ Failing(todo) <=> (p.type = "failure" \/ Failing(Tail(todo)))
      /\ EndsWithFailure(Tail(todo))
      /\ p.type = "failure" => Tail(todo) = <<>>
  BY <1>1, <1>2, FailingTail, Counts DEF FailureInv
<1>6. Last' = Last
  BY <1>3 DEF Last
<1>7. /\ ~OnTheLine /\ (OnTheLine' <=> p.type = "failure")
      /\ EndsWithFailure(conns'[Last'].in) /\ EndsWithFailure(todo)'
  BY <1>1, <1>3, <1>4, <1>5, <1>6 DEF OnTheLine, EndsWithFailure, Failing
<1>8. InFlight' <=> InFlight
  BY <1>1, <1>5, <1>7 DEF InFlight, Failing
<1>9. (Offered' <=> Offered) /\ (Offered => First' = First)
      /\ (First' = First \/ Last = 1)
  <2>1. CASE Last = 1
    <3>1. First \in Seq(Reports) /\ First' \in Seq(Reports)
      BY <1>4, <2>1 DEF First
    <3>2. \A q \in Seq(Reports) : q # <<>> => q[1].type # "settings"
      BY EmptySeq, ReportTypes
    <3> QED
      BY <2>1, <3>1, <3>2 DEF Offered
  <2>2. CASE Last # 1
    <3>1. 1 \in 1 .. Last
      BY <1>3, Counts
    <3> QED
      BY <1>3, <2>2, <3>1 DEF Offered, First
  <2> QED
    BY <2>1, <2>2
<1>10. LinesInv'
  <2>1. \A i \in 1 .. Last : conns'[i].eof = conns[i].eof
    BY <1>3
  <2> QED
    BY <1>1, <1>3, <1>6, <2>1 DEF LinesInv, Apart
<1>11. StreamsInv'
  <2>1. spc' = spc
    BY <1>1 DEF server
  <2> QED
    BY <1>1, <1>3, <1>4, <1>6, <1>9, <2>1 DEF StreamsInv
<1>12. FetchInv'
  BY <1>1, <1>4, <1>6 DEF FetchInv
<1>13. FailureInv'
  <2>1. EndsWithFailure(conns[Last].in)'
    BY <1>7 DEF EndsWithFailure
  <2>2. OnTheLine' => todo' = <<>>
    BY <1>1, <1>5, <1>7
  <2>3. InFlight' => failed' /\ ~editing'
    BY <1>1, <1>8 DEF FailureInv, bot
  <2> QED
    BY <1>7, <2>1, <2>2, <2>3 DEF FailureInv
<1>14. FlagsInv' /\ VersionsInv'
  BY <1>1, <1>8, <1>9, KeepData
<1> QED
  BY <1>10, <1>11, <1>12, <1>13, <1>14

----------------------------------------------------------------------------
LEMMA AcceptKeepsCalm ==
  ASSUME SyncInv, Calm, Reliable, Accept, UNCHANGED faults
  PROVE  Calm'
<1> USE DEF Calm
<1>1. /\ spc = "accept" /\ spc' = "serve"
      /\ UNCHANGED <<mpc, mset, todo, link, inbox, conns, sset, valid, disk,
                     editing, snap, lastVer, clearing, failed>>
  BY DEF Accept, mcu, network, bot
<1>2. /\ First' = First /\ Last' = Last /\ (Offered' <=> Offered)
      /\ (InFlight' <=> InFlight) /\ (OnTheLine' <=> OnTheLine)
  BY <1>1 DEF First, Last, Offered, InFlight, OnTheLine, Failing
<1>3. LinesInv'
  BY <1>1, <1>2 DEF LinesInv
<1>4. StreamsInv'
  BY <1>1, <1>2 DEF StreamsInv
<1>5. FetchInv'
  BY <1>1, <1>2 DEF FetchInv
<1>6. FailureInv'
  BY <1>1, <1>2 DEF FailureInv, EndsWithFailure
<1>7. FlagsInv' /\ VersionsInv'
  BY <1>1, <1>2 DEF FlagsInv, VersionsInv
<1> QED
  BY <1>3, <1>4, <1>5, <1>6, <1>7

\* Without faults a read takes the first packet.
LEMMA OneTaken ==
  ASSUME SyncInv, Reliable, conns # <<>>, NEW chunk \in Chunks, Consume(chunk)
  PROVE  /\ First # <<>> /\ chunk.got = <<First[1]>> /\ chunk.got[1] = First[1]
         /\ First[1] \in Sound
         /\ First' = Tail(First) /\ Len(conns') = Last /\ conns' # <<>>
         /\ \A i \in 1 .. Last : i # 1 => conns'[i] = conns[i]
         /\ \A i \in 1 .. Last : conns'[i].eof = conns[i].eof
<1>1. /\ 1 \in 1 .. Last /\ conns[1] \in Connection /\ conns \in Seq(Connection)
      /\ First \in Seq(Sound) /\ Len(First) \in Nat /\ Last = Len(conns)
      /\ First = <<>> <=> Len(First) = 0
  BY Counts DEF First, SyncInv, PacketsInv
<1> DEFINE rest == SubSeq(First, 2, Len(First))
<1>2. /\ First # <<>> /\ Len(First) >= 1
      /\ chunk.got = SubSeq(First, 1, 1) /\ chunk.left = rest
  <2>1. \A i : ~CanSplit(conns[1].in[i]) /\ "coalesce" \notin faults
    BY DEF CanSplit, Reliable
  <2> DEFINE most == IF "coalesce" \in faults THEN Len(conns[1].in)
                     ELSE IF conns[1].in = <<>> THEN 0 ELSE 1
  <2>2. PICK k \in 1 .. most :
          chunk = [got  |-> SubSeq(conns[1].in, 1, k),
                   left |-> SubSeq(conns[1].in, k + 1, Len(conns[1].in))]
    BY <2>1, ChunkKinds, Zenon
  <2>3. First # <<>> /\ k = 1
    BY <2>1, <2>2 DEF First
  <2> QED
    BY <1>1, <2>2, <2>3 DEF First
<1>3. chunk.got = <<First[1]>> /\ First[1] \in Sound
  <2>1. \A i \in 1 .. 1 : First[i] \in Sound
    BY <1>1, <1>2, ElementOfSeq
  <2>2. /\ chunk.got \in Seq(Sound) /\ Len(chunk.got) = 1
        /\ chunk.got[1] = First[1]
    BY <1>2, <2>1, SubSeqProperties
  <2> QED
    BY <2>1, <2>2
<1> DEFINE c == [conns[1] EXCEPT !.in = rest]
<1>4. rest = Tail(First)
  <2>1. \A i \in 2 .. Len(First) : First[i] \in Sound
    BY <1>1, ElementOfSeq
  <2>2. /\ rest \in Seq(Sound) /\ Len(rest) = Len(First) - 1
        /\ \A i \in 1 .. Len(First) - 1 : rest[i] = First[i + 1]
    <3>1. Len(First) \in Nat /\ Len(First) >= 1
      <4>1. Len(First) >= 1
        BY <1>2
      <4> QED
        BY <1>1, <4>1
    <3>2. /\ rest \in Seq(Sound)
          /\ Len(rest) = IF 2 <= Len(First) THEN Len(First) - 2 + 1 ELSE 0
          /\ \A i \in 1 .. Len(First) - 2 + 1 : rest[i] = First[2 + i - 1]
      BY <2>1, <3>1, SubSeqProperties
    <3> HIDE DEF rest
    <3> DEFINE n == Len(First)
               m == Len(rest)
    <3>3. n \in Nat /\ n >= 1 /\ m = IF 2 <= n THEN n - 2 + 1 ELSE 0
      BY <3>1, <3>2
    <3> HIDE DEF n, m
    <3>4. m = n - 1
      BY <3>3
    <3>5. Len(rest) = Len(First) - 1
      BY <3>4 DEF n, m
    <3>6. ASSUME NEW i \in 1 .. Len(First) - 1
          PROVE  rest[i] = First[i + 1]
      <4>1. i \in 1 .. Len(First) - 2 + 1 /\ 2 + i - 1 = i + 1
        BY <3>1
      <4>2. rest[i] = First[2 + i - 1]
        BY <3>2, <4>1
      <4> QED
        BY <4>1, <4>2
    <3> QED
      BY <3>2, <3>5, <3>6
  <2>3. /\ Tail(First) \in Seq(Sound) /\ Len(Tail(First)) = Len(First) - 1
        /\ \A i \in 1 .. Len(First) - 1 : Tail(First)[i] = First[i + 1]
    BY <1>1, <1>2, HeadTailProperties
  <2> HIDE DEF rest
  <2> QED
    BY <2>2, <2>3, SeqEqual
<1>5. conns' = [conns EXCEPT ![1] = c]
  BY <1>2 DEF Consume
<1>6. c \in Connection /\ c.in = rest /\ c.eof = conns[1].eof
  <2>1. Tail(First) \in Seq(Sound)
    BY <1>1, <1>2, HeadTailProperties
  <2> QED
    BY <1>1, <1>4, <2>1 DEF Connection
<1> HIDE DEF c, rest
<1>7. /\ conns' \in Seq(Connection) /\ Len(conns') = Last
      /\ \A i \in 1 .. Last : conns'[i] = IF i = 1 THEN c ELSE conns[i]
  BY <1>1, <1>5, <1>6, ExceptSeq
<1>8. conns' # <<>> /\ conns'[1] = c
  BY <1>1, <1>7, EmptySeq
<1>9. First' = Tail(First)
  BY <1>4, <1>6, <1>8 DEF First
<1> QED
  <2>1. chunk.got[1] = First[1]
    BY <1>3
  <2> QED
    BY <1>2, <1>3, <1>6, <1>7, <1>9, <1>8, <2>1

\* The server's reads end nobody's connection.
LEMMA TakingKeepsLines ==
  ASSUME SyncInv, LinesInv, conns # <<>>, UNCHANGED <<mcu, link>>,
         Len(conns') = Last, \A i \in 1 .. Last : conns'[i].eof = conns[i].eof
  PROVE  LinesInv' /\ Last' = Last
<1>1. Last' = Last /\ mpc # "boot"
  BY DEF Last, LinesInv
<1>2. UNCHANGED <<mpc, todo, link>>
  BY DEF mcu
<1> QED
  BY <1>1, <1>2 DEF LinesInv

LEMMA ReadRequestKeepsCalm ==
  ASSUME SyncInv, Calm, Reliable, Read, UNCHANGED faults,
         First # <<>>, First[1].type = "request"
  PROVE  Calm'
<1> USE DEF Calm
<1>1. conns # <<>> /\ spc = "serve"
  BY DEF Read, SyncInv, StateInv
<1>2. PICK chunk \in Chunks : Consume(chunk) /\ Process(FirstType(chunk))
  BY DEF Read
<1>3. /\ FirstType(chunk) = "request" /\ First' = Tail(First)
      /\ Len(conns') = Last /\ conns' # <<>>
      /\ \A i \in 1 .. Last : conns'[i].eof = conns[i].eof
  BY <1>1, <1>2, OneTaken DEF FirstType, ReadsAs
<1>4. /\ mpc = "await" /\ Last = 1 /\ link = "up" /\ inbox = <<>>
      /\ Len(First) = 1 /\ todo = <<>>
      /\ UNCHANGED <<mpc, mset, todo, link, valid, disk, editing, snap, lastVer,
                     clearing, failed>>
  BY <1>1, FirstFacts DEF Read, LinesInv, FetchInv, Apart, mcu, bot
<1>5. First' = <<>>
  <2>1. First \in Seq(Sound)
    BY <1>4, Counts DEF First
  <2>2. Tail(First) \in Seq(Sound) /\ Len(Tail(First)) = 0
    BY <1>4, <2>1, HeadTailProperties
  <2> QED
    BY <1>3, <2>2, EmptySeq
<1>6. LinesInv' /\ Last' = Last
  BY <1>1, <1>3, TakingKeepsLines DEF Read
<1>7. /\ ~InFlight /\ ~OnTheLine' /\ ~InFlight' /\ ~Offered'
  BY <1>4, <1>5, <1>6, FetchLine, EmptySeq
  DEF OnTheLine, InFlight, Offered, Failing, First
<1>8. FailureInv'
  BY <1>4, <1>7 DEF FailureInv, EndsWithFailure
<1>9. sset' = sset
  BY <1>2, <1>3 DEF Process
<1>10. FlagsInv'
  BY <1>4, <1>7, <1>9 DEF FlagsInv
<1>11. CASE valid
  <2> DEFINE p == SettingsPacket(sset)
  <2>1. p.type = "settings" /\ p.val = sset
    BY DEF SettingsPacket
  <2>2. inbox' = Append(<<>>, p) /\ spc' = "serve"
    BY <1>1, <1>2, <1>3, <1>4, <1>11 DEF Process, Answer
  <2> HIDE DEF p
  <2>3. inbox' # <<>> /\ inbox'[1] = p
    BY <2>2
  <2>4. sset.ver \in Int /\ mset.ver \in Int
    BY DEF SyncInv, StateInv, SettingsType, Garbage
  <2>5. mset.ver <= sset.ver /\ sset.ver <= sset.ver /\ (failed => sset.fail)
    BY <1>7, <1>11, <2>4 DEF VersionsInv, FlagsInv
  <2>6. Good(inbox[1].val)'
    BY <1>4, <1>9, <2>1, <2>3, <2>5 DEF Good
  <2>7. FetchInv'
    BY <1>4, <1>5, <1>11, <2>1, <2>2, <2>3, <2>6 DEF FetchInv
  <2>8. StreamsInv'
    <3>1. \A i \in 1 .. Last' : i = 1
      BY <1>4, <1>6
    <3> QED
      BY <1>5, <2>2, <3>1 DEF StreamsInv, First
  <2>9. VersionsInv'
    BY <1>4, <1>7, <1>9, <2>2 DEF VersionsInv
  <2> QED
    BY <1>6, <1>8, <1>10, <2>7, <2>8, <2>9
<1>12. CASE ~valid
  <2> DEFINE p == Packet("dummy")
  <2>1. p.type = "dummy"
    BY DEF Packet
  <2>2. inbox' = Append(<<>>, p) /\ spc' = "await"
    BY <1>1, <1>2, <1>3, <1>4, <1>12 DEF Process, Answer
  <2> HIDE DEF p
  <2>3. inbox' # <<>> /\ inbox'[1] = p
    BY <2>2
  <2>4. FetchInv'
    BY <1>4, <1>5, <2>1, <2>2, <2>3 DEF FetchInv
  <2>5. StreamsInv'
    <3>1. \A i \in 1 .. Last' : i = 1
      BY <1>4, <1>6
    <3> QED
      BY <1>4, <1>5, <2>1, <2>3, <3>1 DEF StreamsInv, First
  <2>6. VersionsInv'
    BY <1>4, <1>7, <1>9, <1>12 DEF VersionsInv
  <2> QED
    BY <1>6, <1>8, <1>10, <2>4, <2>5, <2>6
<1> QED
  BY <1>11, <1>12

LEMMA ReadReportKeepsCalm ==
  ASSUME SyncInv, Calm, Reliable, Read, UNCHANGED faults,
         Last = 1, mpc \in {"send", "asleep"}, First # <<>>,
         First \in Seq(Reports)
  PROVE  Calm'
<1> USE DEF Calm
<1> DEFINE t == First[1].type
<1>1. conns # <<>> /\ spc = "serve" /\ 1 \in 1 .. Len(First)
  BY EmptySeq DEF Read, SyncInv, StateInv
<1>2. t \in {"status", "error", "failure"}
  BY <1>1, ReportTypes
<1>3. PICK chunk \in Chunks : Consume(chunk) /\ Process(FirstType(chunk))
  BY DEF Read
<1>4. /\ FirstType(chunk) = t /\ First' = Tail(First)
      /\ Len(conns') = Last /\ conns' # <<>>
      /\ \A i \in 1 .. Last : conns'[i].eof = conns[i].eof
  BY <1>1, <1>2, <1>3, OneTaken DEF FirstType, ReadsAs
<1>5. UNCHANGED <<mpc, mset, todo, link, valid, disk, editing, snap, lastVer,
                  clearing, failed>>
  BY DEF Read, mcu, bot
<1>6. LinesInv' /\ Last' = Last
  BY <1>1, <1>4, TakingKeepsLines DEF Read
<1>7. Tail(First) \in Seq(Reports) /\ First' \in Seq(Reports)
  BY <1>4, HeadTailProperties
<1>8. /\ Failing(First) <=> (t = "failure" \/ Failing(Tail(First)))
      /\ EndsWithFailure(First) =>
           /\ EndsWithFailure(Tail(First))
           /\ t = "failure" => Tail(First) = <<>>
  BY FailingTail
<1>9. /\ OnTheLine <=> Failing(First)
      /\ OnTheLine' <=> Failing(Tail(First))
      /\ conns'[Last'].in = Tail(First)
  BY <1>1, <1>4, <1>6 DEF OnTheLine, Failing, First
<1>10. ~Offered /\ ~Offered'
  <2>1. \A q \in Seq(Reports) : q # <<>> => q[1].type # "settings"
    BY EmptySeq, ReportTypes
  <2> QED
    BY <1>7, <2>1 DEF Offered
<1>11. spc' = "serve" /\ inbox' = inbox
       /\ sset' = IF t = "failure" THEN [sset EXCEPT !.fail = TRUE] ELSE sset
  BY <1>1, <1>2, <1>3, <1>4 DEF Process
<1> HIDE DEF t
<1>12. StreamsInv'
  <2>1. \A i \in 1 .. Last' : i = 1 /\ i = Last'
    BY <1>6
  <2> QED
    BY <1>5, <1>7, <1>11, <2>1 DEF StreamsInv, First
<1>13. FetchInv'
  BY <1>5, <1>7, <1>9, <1>4 DEF FetchInv
<1>14. CASE t = "failure"
  <2>1. OnTheLine /\ InFlight /\ todo = <<>> /\ failed /\ ~editing
        /\ Tail(First) = <<>>
    <3>1. OnTheLine /\ InFlight
      BY <1>8, <1>9, <1>14 DEF InFlight
    <3>2. EndsWithFailure(First)
      BY <3>1 DEF FailureInv, First
    <3> QED
      BY <1>8, <1>14, <3>1, <3>2 DEF FailureInv
  <2>2. ~OnTheLine' /\ ~InFlight'
    <3>1. ~Failing(<<>>)
      BY DEF Failing
    <3>2. ~OnTheLine' /\ ~Failing(todo')
      BY <1>5, <1>9, <2>1, <3>1
    <3> QED
      BY <3>2 DEF InFlight, Failing
  <2>3. sset'.fail = TRUE /\ sset'.ver = sset.ver
    BY <1>11, <1>14 DEF SyncInv, StateInv, SettingsType
  <2>4. FailureInv'
    BY <1>5, <2>1, <2>2 DEF FailureInv, EndsWithFailure
  <2>5. FlagsInv'
    BY <1>5, <1>10, <2>1, <2>2, <2>3 DEF FlagsInv
  <2>6. VersionsInv'
    BY <1>5, <1>10, <1>11, <2>3 DEF VersionsInv
  <2> QED
    BY <1>6, <1>12, <1>13, <2>4, <2>5, <2>6
<1>15. CASE t # "failure"
  <2>1. (OnTheLine' <=> OnTheLine) /\ (InFlight' <=> InFlight)
    BY <1>5, <1>8, <1>9, <1>15 DEF InFlight, Failing
  <2>2. OnTheLine => todo = <<>> /\ EndsWithFailure(Tail(First))
    BY <1>8 DEF FailureInv, First
  <2>3. FailureInv'
    <3>1. EndsWithFailure(todo)'
      BY <1>5 DEF FailureInv, EndsWithFailure
    <3>2. OnTheLine' => todo' = <<>> /\ EndsWithFailure(conns[Last].in)'
      BY <1>5, <1>9, <2>1, <2>2 DEF EndsWithFailure
    <3> QED
      BY <1>5, <2>1, <3>1, <3>2 DEF FailureInv
  <2>4. UNCHANGED <<spc, sset>>
    BY <1>1, <1>11, <1>15
  <2>5. FlagsInv' /\ VersionsInv'
    BY <1>5, <1>10, <2>1, <2>4, KeepData DEF server, bot
  <2> QED
    BY <1>6, <1>12, <1>13, <2>3, <2>5
<1> QED
  BY <1>14, <1>15

LEMMA ReadKeepsCalm ==
  ASSUME SyncInv, Calm, Reliable, Read, UNCHANGED faults
  PROVE  Calm'
<1>1. conns # <<>> /\ spc = "serve"
  BY DEF Read, SyncInv, StateInv
<1>2. First # <<>>
  <2>1. PICK chunk \in Chunks : Consume(chunk)
    BY DEF Read
  <2> QED
    BY <1>1, <2>1, OneTaken
<1>3. \/ First[1].type = "request"
      \/ Last = 1 /\ mpc \in {"send", "asleep"} /\ First \in Seq(Reports)
  BY <1>1, <1>2, FirstFacts DEF Calm
<1> QED
  BY <1>2, <1>3, ReadRequestKeepsCalm, ReadReportKeepsCalm

LEMMA ReadSettingsKeepsCalm ==
  ASSUME SyncInv, Calm, Reliable, ReadSettings, UNCHANGED faults
  PROVE  Calm'
<1> USE DEF Calm
<1>1. conns # <<>> /\ spc = "await" /\ spc' = "serve"
  BY DEF ReadSettings, SyncInv, StateInv
<1>2. PICK chunk \in Chunks : \E fits \in SettingsSize(chunk) :
        /\ Consume(chunk)
        /\ IF fits THEN valid' = TRUE /\ sset' = chunk.got[1].val
                   ELSE UNCHANGED <<valid, sset>>
  BY DEF ReadSettings
<1>2a. PICK fits \in SettingsSize(chunk) :
        /\ Consume(chunk)
        /\ IF fits THEN valid' = TRUE /\ sset' = chunk.got[1].val
                   ELSE UNCHANGED <<valid, sset>>
  BY <1>2
<1>3. /\ First # <<>> /\ chunk.got = <<First[1]>> /\ First[1] \in Sound
      /\ First' = Tail(First) /\ Len(conns') = Last /\ conns' # <<>>
      /\ \A i \in 1 .. Last : i # 1 => conns'[i] = conns[i]
      /\ \A i \in 1 .. Last : conns'[i].eof = conns[i].eof
  BY <1>1, <1>2a, OneTaken
<1>4. Offered /\ First[1].type = "settings"
  BY <1>1, <1>3 DEF StreamsInv, Offered
<1>5. Len(First) = 1 /\ First' = <<>>
  <2>1. Len(First) = 1
    BY <1>1, <1>3, <1>4, FirstFacts
  <2>2. First \in Seq(Sound)
    BY <1>1, FirstFacts, Counts DEF First
  <2>3. Tail(First) \in Seq(Sound) /\ Len(Tail(First)) = 0
    BY <1>3, <2>1, <2>2, HeadTailProperties
  <2> QED
    BY <1>3, <2>1, <2>3, EmptySeq
<1>6. ~valid /\ ~editing /\ valid' = TRUE /\ sset' = First[1].val
  <2>1. First[1] = SettingsPacket(First[1].val)
    BY <1>3, <1>4 DEF Sound, PacketSet, SettingsPacket
  <2>2. chunk.got[1] = First[1]
    BY <1>3
  <2>3. SettingsSize(chunk) = {TRUE}
    BY <1>3, <2>1, <2>2 DEF SettingsSize
  <2> QED
    BY <1>1, <1>2a, <2>2, <2>3 DEF VersionsInv
<1>7. mpc \notin {"request", "await"}
  BY <1>3, <1>4 DEF FetchInv
<1>8. UNCHANGED <<mpc, mset, todo, link, disk, editing, snap, lastVer, clearing,
                  failed>>
  BY DEF ReadSettings, mcu, bot
<1>9. LinesInv' /\ Last' = Last
  BY <1>1, <1>3, TakingKeepsLines DEF ReadSettings
<1>10. /\ ~Offered' /\ (OnTheLine' <=> OnTheLine) /\ (InFlight' <=> InFlight)
       /\ OnTheLine => conns'[Last].in = conns[Last].in
  <2>1. CASE Last = 1
    <3>1. ~Failing(<<>>)
      BY DEF Failing
    <3>2. ~Failing(First)
      <4>1. \A i \in 1 .. Len(First) : i = 1
        BY <1>5
      <4> QED
        BY <1>4, <4>1 DEF Failing
    <3>3. ~OnTheLine /\ ~OnTheLine'
      BY <1>5, <1>9, <2>1, <3>1, <3>2 DEF OnTheLine, Failing, First
    <3> QED
      BY <1>5, <1>8, <3>3 DEF Offered, InFlight, Failing
  <2>2. CASE Last # 1
    <3>1. Last \in 1 .. Last
      BY <1>1, Counts
    <3>2. conns'[Last'] = conns[Last]
      BY <1>3, <1>9, <2>2, <3>1
    <3> QED
      BY <1>1, <1>3, <1>5, <1>8, <1>9, <3>2
      DEF Offered, InFlight, OnTheLine, Failing
  <2> QED
    BY <2>1, <2>2
<1>11. StreamsInv'
  BY <1>1, <1>3, <1>5, <1>8, <1>9 DEF StreamsInv, First
<1>12. FetchInv'
  <2>1. CASE Last = 1
    BY <1>5, <1>7, <1>8, <1>9, <2>1, EmptySeq DEF FetchInv, First
  <2>2. CASE Last # 1
    <3>1. Last \in 1 .. Last
      BY <1>1, Counts
    <3>2. conns'[Last'] = conns[Last]
      BY <1>3, <1>9, <2>2, <3>1
    <3> QED
      BY <1>7, <1>8, <3>2 DEF FetchInv
  <2> QED
    BY <2>1, <2>2
<1>13. FailureInv'
  BY <1>8, <1>9, <1>10 DEF FailureInv, EndsWithFailure
<1>14. FlagsInv'
  BY <1>4, <1>6, <1>8, <1>10 DEF FlagsInv
<1>15. VersionsInv'
  <2>1. lastVer \in Nat
    BY SyncAssumption DEF SyncInv, StateInv
  <2>2. mset.ver = 0 /\ sset'.ver = 0
    BY <1>4, <1>6 DEF VersionsInv
  <2> QED
    BY <1>1, <1>6, <1>8, <1>10, <2>1, <2>2 DEF VersionsInv
<1> QED
  BY <1>9, <1>11, <1>12, <1>13, <1>14, <1>15

\* The server is never left without the settings it asked for.
LEMMA AwaitEndsNever ==
  ASSUME SyncInv, Calm, Reliable
  PROVE  ~AwaitEnds
<1> SUFFICES ASSUME AwaitEnds PROVE FALSE
  OBVIOUS
<1>1. spc = "await" /\ First = <<>> /\ conns # <<>>
  BY DEF AwaitEnds, NoData, First, SyncInv, StateInv
<1>2. mpc = "await"
  BY <1>1 DEF Calm, StreamsInv, Offered
<1>3. Last = 1 /\ link = "up" /\ 1 \in 1 .. Last
  BY <1>1, <1>2, FirstFacts DEF Calm, LinesInv, Apart
<1> QED
  BY <1>3 DEF AwaitEnds, NoData, Calm, LinesInv, Reliable

LEMMA CloseKeepsCalm ==
  ASSUME SyncInv, Calm, Reliable, Close, UNCHANGED faults
  PROVE  Calm'
<1> USE DEF Calm
<1>1. /\ conns # <<>> /\ 1 \in 1 .. Last /\ Last \in Nat /\ Last = Len(conns)
      /\ First = <<>> /\ conns \in Seq(Connection)
  <2>1. conns # <<>> /\ First = <<>>
    BY DEF Close, NoData, First, SyncInv, StateInv
  <2> QED
    BY <2>1, FirstFacts, Counts DEF SyncInv, PacketsInv
<1>2. /\ Len(conns') = Last - 1 /\ (conns' = <<>> <=> Last = 1)
      /\ \A i \in 1 .. Last - 1 : conns'[i] = conns[i + 1]
  <2>1. /\ conns' \in Seq(Connection) /\ Len(conns') = Last - 1
        /\ \A i \in 1 .. Last - 1 : conns'[i] = conns[i + 1]
    BY <1>1, HeadTailProperties DEF Close
  <2> QED
    BY <1>1, <2>1, EmptySeq
<1>3. Last > 1 \/ link # "up"
  BY <1>1 DEF Close, NoData, LinesInv, Reliable
<1>4. /\ link' = link /\ mpc \notin {"boot", "request", "await", "fetched"}
      /\ Last = 1 \/ (Last = 2 /\ mpc \in {"send", "asleep"})
      /\ Last = 1 => link = "down"
  BY <1>1, <1>3 DEF Close, LinesInv, Apart, SyncInv, StateInv
<1>5. /\ spc = "serve" /\ spc' = "accept"
      /\ UNCHANGED <<mpc, mset, todo, link, inbox, sset, valid, disk, editing,
                     snap, lastVer, clearing, failed>>
  BY <1>4 DEF Close, mcu, bot
<1>6. Last' = Last - 1
  BY <1>2 DEF Last
<1>7. ~Failing(<<>>)
  BY DEF Failing
<1>8. CASE Last = 1
  <2>1. conns' = <<>> /\ Last' = 0
    BY <1>2, <1>6, <1>8
  <2>2. /\ ~Offered /\ ~Offered' /\ ~OnTheLine /\ ~OnTheLine'
        /\ (InFlight' <=> InFlight)
    BY <1>1, <1>5, <1>7, <1>8, <2>1
    DEF Offered, OnTheLine, InFlight, First, Failing
  <2>3. LinesInv'
    BY <1>4, <1>5, <2>1 DEF LinesInv
  <2>4. StreamsInv'
    BY <1>5, <2>1 DEF StreamsInv
  <2>5. FetchInv'
    <3>1. mpc # "send"
      BY <1>4, <1>8 DEF LinesInv, Apart
    <3> QED
      BY <1>4, <1>5, <3>1 DEF FetchInv
  <2>6. FailureInv'
    BY <1>5, <2>2 DEF FailureInv, EndsWithFailure
  <2>7. FlagsInv' /\ VersionsInv'
    BY <1>5, <2>2 DEF FlagsInv, VersionsInv
  <2> QED
    BY <2>3, <2>4, <2>5, <2>6, <2>7
<1>9. CASE Last = 2
  <2>1. /\ Last' = 1 /\ conns' # <<>> /\ conns'[1] = conns[2] /\ 2 \in 1 .. Last
        /\ \A i \in 1 .. Last' : i = 1
    BY <1>2, <1>6, <1>9
  <2>2. conns[2].in = <<>> \/ conns[2].in \in Seq(Reports)
    BY <1>9, <2>1 DEF StreamsInv
  <2>3. /\ ~Offered /\ ~Offered' /\ (OnTheLine' <=> OnTheLine)
        /\ (InFlight' <=> InFlight)
    <3>1. \A q \in Seq(Reports) : q # <<>> => q[1].type # "settings"
      BY EmptySeq, ReportTypes
    <3> QED
      BY <1>1, <1>5, <1>9, <2>1, <2>2, <3>1
      DEF Offered, OnTheLine, InFlight, First, Failing
  <2>4. LinesInv'
    <3>1. conns'[1].eof <=> link = "down"
      BY <1>9, <2>1 DEF LinesInv
    <3> QED
      BY <1>4, <1>5, <1>9, <2>1, <3>1 DEF LinesInv
  <2>5. StreamsInv'
    BY <1>4, <1>5, <1>9, <2>1, <2>2 DEF StreamsInv
  <2>6. FetchInv'
    BY <1>4, <1>5, <1>9, <2>1 DEF FetchInv
  <2>7. FailureInv'
    BY <1>5, <1>9, <2>1, <2>3 DEF FailureInv, EndsWithFailure
  <2>8. FlagsInv' /\ VersionsInv'
    BY <1>5, <2>3 DEF FlagsInv, VersionsInv
  <2> QED
    BY <2>4, <2>5, <2>6, <2>7, <2>8
<1> QED
  BY <1>4, <1>8, <1>9

LEMMA StopKeepsCalm ==
  ASSUME SyncInv, Calm, Reliable, Stop, UNCHANGED faults
  PROVE  Calm'
<1> USE DEF Calm
<1> DEFINE file == IF valid THEN sset ELSE disk
<1>1. conns = <<>> /\ spc = "accept" /\ Restart(file)
  BY DEF Stop, Reliable
<1>2. /\ Last = 0 /\ link = "down" /\ mpc \in Apart
  BY <1>1, Counts DEF LinesInv, SyncInv, ExchangeInv
<1>3. /\ valid => file = sset /\ file # NoSettings
      /\ ~valid => file = NoSettings
  <2>1. NoSettings.ver = Garbage
    BY DEF NoSettings, Set
  <2>2. valid => sset # NoSettings
    BY <2>1 DEF VersionsInv, SyncInv, StateInv, SettingsType, Garbage
  <2> QED
    BY <2>2 DEF VersionsInv
<1> HIDE DEF file
<1>4. /\ conns' = <<>> /\ spc' = "accept" /\ link' = link /\ valid' = valid
      /\ disk' = file /\ (valid => sset' = sset) /\ editing' = FALSE
      /\ UNCHANGED <<mpc, mset, todo, inbox, lastVer, failed>>
  <2>1. valid \in BOOLEAN
    BY DEF SyncInv, StateInv
  <2>2. valid' = (file # NoSettings) /\ sset' = file /\ conns' = <<>>
    BY <1>1 DEF Restart
  <2> QED
    BY <1>1, <1>2, <1>3, <2>1, <2>2 DEF Restart, mcu
<1>5. Last' = 0
  BY <1>4 DEF Last
<1>6. /\ ~Offered /\ ~Offered' /\ ~OnTheLine /\ ~OnTheLine'
      /\ (InFlight' <=> InFlight)
  BY <1>1, <1>4 DEF Offered, OnTheLine, InFlight, Failing
<1>7. LinesInv'
  BY <1>2, <1>4, <1>5 DEF LinesInv
<1>8. StreamsInv'
  BY <1>4, <1>5 DEF StreamsInv
<1>9. FetchInv'
  BY <1>2, <1>4 DEF FetchInv, Apart
<1>10. FailureInv'
  BY <1>4, <1>6 DEF FailureInv, EndsWithFailure
<1>11. FlagsInv'
  BY <1>4, <1>6 DEF FlagsInv
<1>12. VersionsInv'
  BY <1>3, <1>4, <1>6 DEF VersionsInv
<1> QED
  BY <1>7, <1>8, <1>9, <1>10, <1>11, <1>12

LEMMA InitCalm == SyncInit => Calm
<1> SUFFICES ASSUME SyncInit PROVE Calm
  OBVIOUS
<1> USE DEF SyncInit
<1>1. Last = 0 /\ ~Offered /\ ~OnTheLine /\ ~Failing(todo) /\ ~InFlight
  BY DEF Last, Offered, OnTheLine, Failing, InFlight
<1>2. LinesInv /\ StreamsInv /\ FetchInv
  BY <1>1 DEF LinesInv, StreamsInv, FetchInv, Apart
<1>3. FailureInv
  BY <1>1 DEF FailureInv, EndsWithFailure
<1>4. mset = Defaults /\ Defaults.ver = 0 /\ Defaults.fail = FALSE
      /\ (valid => sset = Defaults) /\ (~valid => disk = NoSettings)
  BY DEF Defaults, Set
<1>5. FlagsInv /\ VersionsInv
  BY <1>1, <1>4 DEF FlagsInv, VersionsInv
<1> QED
  BY <1>2, <1>3, <1>5 DEF Calm

LEMMA StutterKeepsCalm ==
  ASSUME Calm, UNCHANGED syncVars
  PROVE  Calm'
<1>1. UNCHANGED <<mpc, mset, todo, link, inbox, conns, spc, sset, valid, disk,
                  editing, snap, lastVer, clearing, failed>>
  BY DEF syncVars, mcu, network, server, bot
<1>2. /\ First' = First /\ Last' = Last /\ (Offered' <=> Offered)
      /\ (InFlight' <=> InFlight) /\ (OnTheLine' <=> OnTheLine)
  BY <1>1 DEF First, Last, Offered, InFlight, OnTheLine, Failing
<1>3. (LinesInv /\ StreamsInv /\ FetchInv)'
  BY <1>1, <1>2 DEF Calm, LinesInv, StreamsInv, FetchInv, Good
<1>4. (FailureInv /\ FlagsInv /\ VersionsInv)'
  BY <1>1, <1>2 DEF Calm, FailureInv, EndsWithFailure, FlagsInv, VersionsInv
<1> QED
  BY <1>3, <1>4 DEF Calm

CalmInv == Reliable => Calm

LEMMA StepKeepsCalm ==
  SyncInv /\ CalmInv /\ [SyncNext]_syncVars => CalmInv'
<1> SUFFICES ASSUME SyncInv, CalmInv, [SyncNext]_syncVars, Reliable'
             PROVE  Calm'
  BY DEF CalmInv
<1>1. UNCHANGED faults
  BY DEF SyncNext, syncVars
<1>2. Reliable /\ Calm
  BY <1>1 DEF Reliable, CalmInv
<1>3. CASE UNCHANGED syncVars
  BY <1>2, <1>3, StutterKeepsCalm
<1>4. CASE McuStep
  BY <1>1, <1>2, <1>4, FetchDialKeepsCalm, RequestKeepsCalm,
     ReadAnswerKeepsCalm, GiveUpNever, HangUpKeepsCalm, IrrigateKeepsCalm,
     ReportDialKeepsCalm, SendKeepsCalm DEF McuStep
<1>5. CASE ServerStep
  BY <1>1, <1>2, <1>5, AcceptKeepsCalm, ReadKeepsCalm, ReadSettingsKeepsCalm,
     AwaitEndsNever, CloseKeepsCalm DEF ServerStep
<1>6. CASE UserStep
  BY <1>1, <1>2, <1>6, UserKeepsCalm
<1>7. CASE Break \/ Reboot \/ Crash
  BY <1>2, <1>7 DEF Break, Reboot, Crash, Reliable
<1>8. CASE Stop
  BY <1>1, <1>2, <1>8, StopKeepsCalm
<1> QED
  BY <1>3, <1>4, <1>5, <1>6, <1>7, <1>8 DEF SyncNext

\* The board's settings change with an answer and with a failure.
LEMMA OnlyNewerTaken ==
  SyncInv /\ CalmInv /\ [SyncNext]_syncVars =>
    [Reliable => mset'.ver >= mset.ver]_syncVars
<1> SUFFICES ASSUME SyncInv, CalmInv, SyncNext, Reliable
             PROVE  mset'.ver >= mset.ver
  OBVIOUS
<1>1. mset.ver \in Int /\ mset \in SettingsType
  BY DEF SyncInv, StateInv, SettingsType, Garbage
<1>2. CASE mset' = mset
  BY <1>1, <1>2
<1>3. CASE ReadAnswer /\ mset' # mset
  <2>1. /\ mpc = "await" /\ inbox # <<>> /\ inbox[1].type # "dummy"
        /\ mset' = inbox[1].val /\ inbox[1] \in Answers
    BY <1>3, Counts DEF ReadAnswer, Arrived
  <2>2. mset.ver <= inbox[1].val.ver /\ inbox[1].val.ver \in Int
    BY <2>1 DEF CalmInv, Calm, FetchInv, Good, Answers, Sound, PacketSet,
                SettingsType, Garbage
  <2> QED
    BY <1>1, <2>1, <2>2
<1>4. CASE FailureRound
  BY <1>1, <1>4 DEF FailureRound, SettingsType
<1>5. CASE Break \/ Reboot \/ Crash
  BY <1>5 DEF Break, Reboot, Crash, Reliable
<1> QED
  BY <1>2, <1>3, <1>4, <1>5
  DEF SyncNext, McuStep, ServerStep, UserStep, FetchDial, Request, GiveUp,
      EndFetch, Irrigate, QuietRound, ReportRound, ReportDial, Send, EndReport,
      Accept, Read, ReadSettings, AwaitEnds, Close, Edit, Change, ClearFailure,
      Commit, Abort, Stop, Restart, mcu

(***************************************************************************)
(* Without faults, that is where packets arrive whole and one at a time,   *)
(* connections hold, the board keeps its power, the server is stopped in   *)
(* order and no failure falls into an edit, a failure that no user has     *)
(* cleared keeps the board's flag set (main.cpp, hardwareFailure; lan.cpp, *)
(* updateSettings() overwrites it with what the server sends).             *)
(***************************************************************************)
THEOREM FailuresLatch == SyncSpec => []LatchedIfReliable
<1>1. SyncInit => SyncInv /\ CalmInv
  BY InitSync, InitCalm DEF CalmInv
<1>2. SyncInv /\ CalmInv /\ [SyncNext]_syncVars => SyncInv' /\ CalmInv'
  BY StepKeepsSync, StepKeepsCalm
<1>3. CalmInv => LatchedIfReliable
  BY DEF CalmInv, Calm, FlagsInv, LatchedIfReliable, FailureLatched
<1> QED
  BY <1>1, <1>2, <1>3, PTL DEF SyncSpec

(***************************************************************************)
(* Without faults no fetch takes the board back to older settings, not     *)
(* even the first one after the server got them from the board             *)
(* (dry_no_more_server.cpp, the dummy byte and its answer).                *)
(***************************************************************************)
THEOREM NeverGoesBack == SyncSpec => NeverOlder
<1>1. SyncInit => SyncInv /\ CalmInv
  BY InitSync, InitCalm DEF CalmInv
<1>2. SyncInv /\ CalmInv /\ [SyncNext]_syncVars => SyncInv' /\ CalmInv'
  BY StepKeepsSync, StepKeepsCalm
<1>3. SyncInv /\ CalmInv /\ [SyncNext]_syncVars =>
        [Reliable => mset'.ver >= mset.ver]_syncVars
  BY OnlyNewerTaken
<1> QED
  BY <1>1, <1>2, <1>3, PTL DEF SyncSpec, NeverOlder

=============================================================================
