---------------------------- MODULE SettingsSync ----------------------------
(***************************************************************************)
(* How settings and the failure flag travel: the microcontroller fetches   *)
(* settings and reports over TCP (src/lan.cpp, src/main.cpp), the status   *)
(* server's thread answers (dry_no_more_server.cpp), and the bot's thread  *)
(* lets a user edit and commit a snapshot (telegram_bot.cpp).              *)
(*                                                                         *)
(* Settings are their version and their failure flag.  TCP keeps order but *)
(* not the borders between writes: one read() may return several packets,  *)
(* or part of one, whose other part the next read() takes for a packet.    *)
(* What the environment may do wrong is a parameter, so that each promise  *)
(* can be checked under the faults it survives.                            *)
(***************************************************************************)
EXTENDS Integers, Sequences

CONSTANTS
  MaxEdits,  \* the sets of faults to look at, subsets of AllFaults, each
             \* with its bound on the number of edits
  LeadType,  \* the packet type the first byte of Settings reads as, or "none"
  LookAlike, \* parts of other packets can be as long as Settings
  MaxVer,    \* the largest of those bounds
  MaxConns,  \* bound: connections the server has not finished with
  MaxStops   \* bound: stops of the server and of the board

AllFaults ==
  {"break",      \* connections fail and break
   "coalesce",   \* one read() returns several packets
   "split",      \* one read() returns part of a packet
   "reboot",     \* the board loses power
   "slow",       \* an end takes longer than the other one's timeout
   "crash",      \* the server stops without writing its configuration
   "staleEdit"}  \* a failure occurs while a user is editing

\* What the server can take a packet for, by its first byte.
ReadType == {"error", "status", "failure", "request", "none"}
PacketType == ReadType \cup {"settings", "dummy"}

ASSUME SyncAssumption ==
  /\ DOMAIN MaxEdits \subseteq SUBSET AllFaults
  /\ \A f \in DOMAIN MaxEdits : MaxEdits[f] \in 0 .. MaxVer
  /\ LeadType \in ReadType /\ LookAlike \in BOOLEAN
  /\ MaxVer \in Nat /\ MaxConns \in Nat /\ MaxStops \in Nat

VARIABLES
  mpc,       \* where the microcontroller is
  mset,      \* its settings
  todo,      \* packets left to send in this report
  link,      \* its connection: "down", "up", or "closed" by the other end
  inbox,     \* what has arrived for it
  conns,     \* the server's connections, the one it serves first
  spc,       \* where the server thread is
  sset,      \* state.settingsWrap.settings
  valid,     \* state.settingsWrap.valid
  disk,      \* lastKnownSettings of the YAML file, or NoSettings
  editing,   \* a menu is active
  snap,      \* settingSnapshot
  stops,     \* how often the server or the board stopped
  faults     \* what may go wrong, which does not change

\* History, read by no action of the program.
VARIABLES lastVer,   \* the newest version a user has made
          failed,    \* a failure occurred that no user has cleared
          clearing   \* the user has cleared the flag in this snapshot

mcu     == <<mpc, mset, todo>>
network == <<link, inbox, conns>>
server  == <<spc, sset, valid>>
bot     == <<editing, snap, lastVer, clearing>>
syncVars == <<mcu, network, server, disk, bot, failed, stops, faults>>

Garbage == -1   \* memory that never held settings
Set(v, f) == [ver |-> v, fail |-> f]
NoSettings == Set(Garbage, FALSE)
Defaults == Set(0, FALSE)   \* defaultInitSettings()
SettingsType == [ver : Garbage .. MaxVer, fail : BOOLEAN]

PacketSet == [type : PacketType, val : SettingsType, whole : BOOLEAN]
Packet(t) == [type |-> t, val |-> NoSettings, whole |-> TRUE]
SettingsPacket(s) == [type |-> "settings", val |-> s, whole |-> TRUE]

Last == Len(conns)

(***************************************************************************)
(* Packets that arrive in two parts (the bound: no more than two).  The    *)
(* first part reads as the packet does.  The other one begins with any     *)
(* byte: in a message with a letter or with a blank, which is the same     *)
(* byte as REQUEST_SETTINGS.                                               *)
(***************************************************************************)
Part(t) == [type |-> t, val |-> NoSettings, whole |-> FALSE]

ReadsAs(p) == IF p.type = "settings" THEN LeadType ELSE p.type

\* A request has one byte.
CanSplit(p) == "split" \in faults /\ p.whole /\ p.type # "request"

OtherPart(p) ==
  {Part(t) : t \in IF p.type \in {"error", "failure"} THEN {"request", "none"}
                   ELSE ReadType}

----------------------------------------------------------------------------
(***************************************************************************)
(* The microcontroller's connection.                                       *)
(***************************************************************************)
\* powerUpEthernet(): connects, or fails to.
Dial(next) ==
  /\ Last < MaxConns
  /\ conns' = Append(conns, [in |-> <<>>, eof |-> FALSE])
  /\ link' = "up" /\ mpc' = next
  /\ UNCHANGED inbox

\* client.write(): lost without a word on a closed connection.
Write(p) ==
  IF link = "up" THEN conns' = [conns EXCEPT ![Last].in = Append(@, p)]
                 ELSE UNCHANGED conns

\* powerDownEthernet(): stops the client if it is still connected.
HangUp(next) ==
  /\ conns' = IF link = "up" THEN [conns EXCEPT ![Last].eof = TRUE] ELSE conns
  /\ link' = "down" /\ inbox' = <<>> /\ mpc' = next

\* The sleep outlasts what the server still has to do, unless it is slow;
\* a board that starts has not slept.
FetchDial ==
  /\ \/ mpc = "boot"
     \/ mpc = "asleep" /\ ("slow" \in faults \/ conns = <<>>)
  /\ Dial("request") \/ (mpc' = "irrigate" /\ UNCHANGED network)
  /\ UNCHANGED <<mset, todo, server, disk, bot, failed, stops>>

Request ==
  /\ mpc = "request" /\ mpc' = "await"
  /\ Write(Packet("request"))
  /\ UNCHANGED <<mset, todo, link, inbox, server, disk, bot, failed, stops>>

\* How much of the answer has arrived when the board reads it, once.
Arrived(p) ==
  IF p.type = "dummy" THEN {"one byte"}
  ELSE {"all"} \cup IF "split" \in faults THEN {"one byte", "part"} ELSE {}

\* Mutant: settings of the right size are not taken over.
ReadAnswerOnly ==
  /\ mpc = "await" /\ inbox # <<>>
  /\ mpc' = "fetched"
  /\ \E amount \in Arrived(Head(inbox)) :
        IF amount = "one byte" THEN Write(SettingsPacket(mset))
                               ELSE UNCHANGED conns
  /\ UNCHANGED <<mset, todo, link, inbox, server, disk, bot, failed, stops>>

\* updateSettings(): the size of the answer decides.  One byte asks for our
\* settings, sizeof(settings) bytes are taken over, others are not used.
ReadAnswer ==
  /\ mpc = "await" /\ inbox # <<>>
  /\ mpc' = "fetched"
  /\ \E amount \in Arrived(Head(inbox)) :
        /\ IF amount = "one byte" THEN Write(SettingsPacket(mset))
                                  ELSE UNCHANGED conns
        /\ mset' = IF amount = "all" THEN Head(inbox).val ELSE mset
  /\ UNCHANGED <<todo, link, inbox, server, disk, bot, failed, stops>>

\* Polling ends after 254 tries or when the connection is closed; there is
\* nothing to read then (readBytes <= 0).
GiveUp ==
  /\ mpc = "await" /\ inbox = <<>>
  /\ "slow" \in faults \/ link = "closed"
  /\ mpc' = "fetched"
  /\ UNCHANGED <<mset, todo, network, server, disk, bot, failed, stops>>

EndFetch ==
  /\ mpc = "fetched" /\ HangUp("irrigate")
  /\ UNCHANGED <<mset, todo, server, disk, bot, failed, stops>>

(***************************************************************************)
(* The round (module IrrigationLoop), as far as the network is concerned:  *)
(* nothing to report, a report, or a failure and its report.               *)
(***************************************************************************)
QuietRound == mpc' = "asleep" /\ UNCHANGED <<mset, todo, failed>>

ReportRound ==
  /\ ~mset.fail
  /\ mpc' = "dial"
  /\ todo' \in {<<Packet("status")>>, <<Packet("status"), Packet("error")>>}
  /\ UNCHANGED <<mset, failed>>

FailureRound ==
  /\ ~mset.fail
  /\ "staleEdit" \in faults \/ ~editing
  /\ mset' = [mset EXCEPT !.fail = TRUE] /\ failed' = TRUE
  /\ mpc' = "dial"
  /\ todo' \in {<<Packet("status"), Packet("failure")>>,
                <<Packet("status"), Packet("error"), Packet("failure")>>}

Irrigate ==
  /\ mpc = "irrigate"
  /\ QuietRound \/ ReportRound \/ FailureRound
  /\ UNCHANGED <<network, server, disk, bot, stops>>

ReportDial ==
  /\ mpc = "dial"
  /\ \/ Dial("send") /\ UNCHANGED todo
     \/ "break" \in faults /\ mpc' = "asleep" /\ todo' = <<>>
          /\ UNCHANGED network
  /\ UNCHANGED <<mset, server, disk, bot, failed, stops>>

Send ==
  /\ mpc = "send" /\ todo # <<>>
  /\ Write(Head(todo))
  /\ todo' = Tail(todo)
  /\ UNCHANGED <<mpc, mset, link, inbox, server, disk, bot, failed, stops>>

EndReport ==
  /\ mpc = "send" /\ todo = <<>> /\ HangUp("asleep")
  /\ UNCHANGED <<mset, todo, server, disk, bot, failed, stops>>

\* The network drops the connection and what is still in flight, in the middle
\* of a packet if it likes; the server may never hear of it.
Break ==
  /\ "break" \in faults /\ link = "up"
  /\ \E k \in 0 .. Len(conns[Last].in), told, torn \in BOOLEAN :
        LET in == conns[Last].in
            left == SubSeq(in, 1, k)
        IN  /\ torn => k < Len(in) /\ CanSplit(in[k + 1])
            /\ conns' = [conns EXCEPT ![Last] =
                 [in |-> IF torn THEN Append(left, Part(ReadsAs(in[k + 1])))
                                 ELSE left,
                  eof |-> told]]
  /\ link' = "closed"
  /\ UNCHANGED <<mcu, inbox, server, disk, bot, failed, stops>>

\* Settings and failure flag are the default ones again; a connection is left
\* open at the other end.
Reboot ==
  /\ "reboot" \in faults
  /\ stops < MaxStops /\ stops' = stops + 1
  /\ mpc' = "boot" /\ mset' = Defaults /\ todo' = <<>>
  /\ link' = "down" /\ inbox' = <<>>
  /\ UNCHANGED <<conns, server, disk, bot, failed>>

----------------------------------------------------------------------------
(***************************************************************************)
(* The status server: one connection after the other.                      *)
(***************************************************************************)
Accept ==
  /\ spc = "accept" /\ conns # <<>> /\ spc' = "serve"
  /\ UNCHANGED <<mcu, network, sset, valid, disk, bot, failed, stops>>

\* What one read() may return, and what it leaves: k packets, the last of them
\* perhaps in part.
Chunks ==
  LET in == conns[1].in
      most == IF "coalesce" \in faults THEN Len(in)
              ELSE IF in = <<>> THEN 0 ELSE 1
      rest(k) == SubSeq(in, k + 1, Len(in))
  IN  {[got |-> SubSeq(in, 1, k), left |-> rest(k)] : k \in 1 .. most}
      \cup UNION {{[got  |-> Append(SubSeq(in, 1, k - 1),
                                    Part(ReadsAs(in[k]))),
                    left |-> <<p>> \o rest(k)] : p \in OtherPart(in[k])} :
                   k \in {i \in 1 .. most : CanSplit(in[i])}}

Consume(chunk) == conns' = [conns EXCEPT ![1].in = chunk.left]

\* Write to the connection being served.  The board reads an answer only after
\* a request; nobody reads an old connection.
Answer(p) ==
  inbox' = IF Last = 1 /\ link = "up" /\ mpc = "await" THEN Append(inbox, p)
                                                       ELSE inbox

\* switch (buf[0]): the first byte decides what the whole chunk is.
FirstType(chunk) == ReadsAs(chunk.got[1])

\* Mutant: a failure message is only forwarded.
ProcessNoFlag(type) ==
  \/ type = "request" /\ valid
       /\ Answer(SettingsPacket(sset)) /\ UNCHANGED <<spc, sset>>
  \/ type = "request" /\ ~valid
       /\ Answer(Packet("dummy")) /\ spc' = "await" /\ UNCHANGED sset
  \/ type \in {"failure", "error", "status", "none"}
       /\ UNCHANGED <<spc, sset, inbox>>

Process(type) ==
  \/ type = "failure"
       /\ sset' = [sset EXCEPT !.fail = TRUE]
       /\ UNCHANGED <<spc, inbox>>
  \/ type = "request" /\ valid
       /\ Answer(SettingsPacket(sset)) /\ UNCHANGED <<spc, sset>>
  \/ type = "request" /\ ~valid
       /\ Answer(Packet("dummy")) /\ spc' = "await" /\ UNCHANGED sset
  \/ type \in {"error", "status", "none"}   \* messages and status: module
       /\ UNCHANGED <<spc, sset, inbox>>    \* Reporting

Read ==
  /\ spc = "serve"
  /\ \E chunk \in Chunks : Consume(chunk) /\ Process(FirstType(chunk))
  /\ UNCHANGED <<mcu, link, valid, disk, bot, failed, stops>>

\* Mutant: what answers the dummy is not measured.
AnySize(chunk) == {TRUE}

\* Whether what has been read is sizeof(Settings) bytes long.
SettingsSize(chunk) ==
  IF chunk.got = <<SettingsPacket(chunk.got[1].val)>> THEN {TRUE}
  ELSE IF LookAlike /\ \E i \in DOMAIN chunk.got : ~chunk.got[i].whole
  THEN BOOLEAN ELSE {FALSE}

\* The answer to the dummy: as long as settings, or it is not used.
ReadSettings ==
  /\ spc = "await" /\ spc' = "serve"
  /\ \E chunk \in Chunks : \E fits \in SettingsSize(chunk) :
        /\ Consume(chunk)
        /\ IF fits THEN valid' = TRUE /\ sset' = chunk.got[1].val
                   ELSE UNCHANGED <<valid, sset>>
  /\ UNCHANGED <<mcu, link, inbox, disk, bot, failed, stops>>

\* read() finds the connection ended, or gives up after a second.
NoData ==
  /\ spc \in {"serve", "await"} /\ conns[1].in = <<>>
  /\ \/ conns[1].eof \/ {"slow", "break"} \cap faults # {}
     \/ Last > 1 \/ link # "up"   \* nobody is there to write

\* Mutant: the read is repeated until there is an answer.
AwaitRetries ==
  /\ NoData /\ spc = "await"
  /\ UNCHANGED <<mcu, network, server, disk, bot, failed, stops>>

AwaitEnds ==
  /\ NoData /\ spc = "await" /\ spc' = "serve"
  /\ UNCHANGED <<mcu, network, sset, valid, disk, bot, failed, stops>>

Close ==
  /\ NoData /\ spc = "serve" /\ spc' = "accept"
  /\ conns' = Tail(conns)
  /\ link' = IF Last = 1 /\ link = "up" THEN "closed" ELSE link
  /\ UNCHANGED <<mcu, inbox, sset, valid, disk, bot, failed, stops>>

(***************************************************************************)
(* The process: stopped by a signal it writes its settings to the file;    *)
(* killed it does not.  Either way it starts again from the file.          *)
(***************************************************************************)
Restart(file) ==
  /\ stops < MaxStops /\ stops' = stops + 1
  /\ disk' = file
  /\ valid' = (file # NoSettings) /\ sset' = file
  /\ spc' = "accept" /\ conns' = <<>>
  /\ link' = IF link = "up" THEN "closed" ELSE link
  /\ editing' = FALSE /\ clearing' = FALSE /\ snap' = NoSettings
  /\ UNCHANGED <<mcu, inbox, lastVer, failed>>

\* Mutant: the settings are not written on exit.
StopUnsaved ==
  /\ spc = "accept" /\ ("break" \in faults \/ conns = <<>>)
  /\ Restart(disk)

\* The thread ends between two connections; those that wait are broken.
Stop ==
  /\ spc = "accept" /\ ("break" \in faults \/ conns = <<>>)
  /\ Restart(IF valid THEN sset ELSE disk)

Crash == "crash" \in faults /\ Restart(disk)

----------------------------------------------------------------------------
(***************************************************************************)
(* The bot's thread: /edit, the menu, Commit settings, Abort.              *)
(***************************************************************************)
Edit ==
  /\ valid
  /\ "staleEdit" \in faults \/ failed = sset.fail
  /\ snap' = sset /\ editing' = TRUE /\ clearing' = FALSE
  /\ UNCHANGED <<mcu, network, server, disk, lastVer, failed, stops>>

Change ==
  /\ editing /\ lastVer < MaxEdits[faults]
  /\ lastVer' = lastVer + 1
  /\ snap' = [snap EXCEPT !.ver = lastVer + 1]
  /\ UNCHANGED <<mcu, network, server, disk, editing, clearing, failed, stops>>

ClearFailure ==
  /\ editing /\ snap.fail
  /\ snap' = [snap EXCEPT !.fail = FALSE] /\ clearing' = TRUE
  /\ UNCHANGED <<mcu, network, server, disk, editing, lastVer, failed, stops>>

Commit ==
  /\ editing /\ editing' = FALSE
  /\ sset' = snap
  /\ failed' = (failed /\ ~clearing) /\ clearing' = FALSE
  /\ UNCHANGED <<mcu, network, spc, valid, disk, snap, lastVer, stops>>

\* Also a commit whose request to Telegram throws before handleCommit().
Abort ==
  /\ editing /\ editing' = FALSE /\ clearing' = FALSE
  /\ UNCHANGED <<mcu, network, server, disk, snap, lastVer, failed, stops>>

----------------------------------------------------------------------------
SyncInit ==
  /\ mpc = "boot" /\ mset = Defaults /\ todo = <<>>
  /\ link = "down" /\ inbox = <<>> /\ conns = <<>>
  /\ disk \in {NoSettings, Defaults}
  /\ spc = "accept" /\ sset = disk /\ valid = (disk # NoSettings)
  /\ editing = FALSE /\ snap = NoSettings /\ stops = 0
  /\ lastVer = 0 /\ failed = FALSE /\ clearing = FALSE
  /\ faults \in DOMAIN MaxEdits

McuStep ==
  \/ FetchDial \/ Request \/ ReadAnswer \/ GiveUp \/ EndFetch
  \/ Irrigate \/ ReportDial \/ Send \/ EndReport

ServerStep == Accept \/ Read \/ ReadSettings \/ AwaitEnds \/ Close

UserStep == Edit \/ Change \/ ClearFailure \/ Commit \/ Abort

SyncNext ==
  /\ McuStep \/ ServerStep \/ UserStep \/ Break \/ Reboot \/ Stop
     \/ Crash
  /\ UNCHANGED faults

(***************************************************************************)
(* The board and the server's thread run on, a connection that is tried    *)
(* again and again comes about now and then; users do as they like.        *)
(***************************************************************************)
SyncSpec ==
  /\ SyncInit /\ [][SyncNext]_syncVars
  /\ WF_syncVars(McuStep /\ UNCHANGED faults)
  /\ WF_syncVars(ServerStep /\ UNCHANGED faults)
  /\ SF_syncVars(FetchDial /\ link' = "up" /\ UNCHANGED faults)

----------------------------------------------------------------------------
SyncTypeOK ==
  /\ mpc \in {"boot", "asleep", "request", "await", "fetched", "irrigate",
              "dial", "send"}
  /\ mset \in SettingsType
  /\ todo \in Seq(PacketSet)
  /\ link \in {"down", "up", "closed"} /\ Len(inbox) \in {0, 1}
  /\ inbox \in Seq(PacketSet)
  /\ Last <= MaxConns
  /\ conns \in Seq([in : Seq(PacketSet), eof : BOOLEAN])
  /\ spc \in {"accept", "serve", "await"} /\ (spc # "accept" => conns # <<>>)
  /\ sset \in SettingsType /\ valid \in BOOLEAN /\ disk \in SettingsType
  /\ editing \in BOOLEAN /\ snap \in SettingsType
  /\ lastVer \in 0 .. MaxVer /\ failed \in BOOLEAN /\ clearing \in BOOLEAN
  /\ stops \in 0 .. MaxStops /\ faults \in DOMAIN MaxEdits

(***************************************************************************)
(* Nobody takes over bytes that are not settings, neither the board, nor a *)
(* user's snapshot, nor the file, nor a server that calls its settings     *)
(* valid, though reads return parts of packets, or several, and parts are  *)
(* taken for other packets: the sizes tell (lan.cpp:198-229,               *)
(* dry_no_more_server.cpp:155).  They are all that tells: parts of other   *)
(* packets as long as the settings, which a server without settings may    *)
(* meet after a part it took for a request, would be taken over.           *)
(***************************************************************************)
NoGarbage ==
  /\ SyncTypeOK
  /\ ~LookAlike =>
       /\ mset.ver # Garbage
       /\ valid => sset.ver # Garbage
       /\ editing => snap.ver # Garbage
       /\ disk # NoSettings => disk.ver # Garbage

(***************************************************************************)
(* A failure stops the irrigation until a user clears it (main.cpp:374,    *)
(* "allow remote to reset the hardware failure flag"): the board's flag    *)
(* stays set until the commit of a snapshot in which it was cleared.       *)
(***************************************************************************)
FailureLatched == failed => mset.fail

Reliable == faults = {}

(***************************************************************************)
(* Of FailureLatched the code keeps that much: it holds without any of the *)
(* faults, that is as long as packets arrive whole and one at a time, no   *)
(* connection breaks or times out, the board keeps its power, the server   *)
(* is stopped in order, and no failure falls into an edit.                 *)
(***************************************************************************)
LatchedIfReliable == Reliable => FailureLatched

(***************************************************************************)
(* Without faults the board never goes back to older settings.             *)
(***************************************************************************)
NeverOlder == [][Reliable => mset'.ver >= mset.ver]_syncVars

Mild == faults \subseteq {"reboot"}

(***************************************************************************)
(* As long as connections hold, packets arrive whole and nobody times out, *)
(* a server without settings gets the board's, though the board may lose   *)
(* power while it is asked for them, and what the server keeps arrives,    *)
(* the failure flag included: settings that stay at the server become the  *)
(* board's, also those of a board that has lost its memory.                *)
(***************************************************************************)
Converges ==
  Mild /\ <>[][FALSE]_sset => <>[](valid /\ mset = sset)

(***************************************************************************)
(* No client keeps the server for itself: it always comes back to accept.  *)
(***************************************************************************)
ServerReturns == spc # "accept" ~> spc = "accept"
============================================================================
