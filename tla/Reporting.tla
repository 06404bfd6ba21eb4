----------------------------- MODULE Reporting -----------------------------
(***************************************************************************)
(* How reports reach people: the status server's thread takes them from    *)
(* the board (dry_no_more_server.cpp), the bot's thread publishes statuses *)
(* and forwards messages to the chats it knows (telegram_bot.cpp), and     *)
(* main() starts both, ends them and keeps the configuration file.         *)
(*                                                                         *)
(* A step is a critical section or a request to Telegram.  The queue is    *)
(* the FIFO that module TsQueue implements.  Packets are numbered; what a  *)
(* read() returns is one packet of the right size here, and the exchange   *)
(* of settings is one step: module SettingsSync has what may happen in     *)
(* between.  What users change in their snapshot is chosen at the commit,  *)
(* the only one to read it, and a menu may stay open for ever.             *)
(***************************************************************************)
EXTENDS ConfigFile, Sequences

CONSTANTS
  Chats,         \* chat ids; std::set visits them in their order
  Whitelisted,   \* those in which a user of userWhitelist writes
  BoardSettings, \* the board's settings, its failure flag aside
  Files,         \* what the configuration file may be at first
  MaxPackets,    \* bound: reports of the board
  MaxStarts      \* bound: starts of the server after the first one

FileType == [chats : SUBSET Chats, listed : BOOLEAN,
             node : {NoNode, OldNode} \cup {NodeOf(s) : s \in Settings}]

ASSUME ReportingAssumption ==
  /\ Chats \subseteq Nat /\ IsFiniteSet(Chats) /\ Whitelisted \subseteq Chats
  /\ BoardSettings \in Settings /\ Files \subseteq FileType
  /\ MaxPackets \in Nat /\ MaxStarts \in Nat

VARIABLES
  boardFailed,  \* the board's failure flag
  reports,      \* how many packets it has sent
  spc,          \* where the server's thread is
  packet,       \* the number of the packet it is working on
  settings,     \* state.settingsWrap
  valid,
  status,       \* state.statusWrap: the number of the status,
  unpublished,
  msgQueue,
  running,
  bpc,          \* where the bot's thread is
  out,          \* the number of what it is sending
  left,         \* the chats it still has to send it to
  broadcastChats,
  snapshot,     \* settingSnapshot while a menu is active
  proc,         \* the process: "up", "saving", "off", or "dead"
  config,       \* what it read from the configuration file
  file,         \* the configuration file
  starts

\* History, read by no action.
VARIABLES pushed,    \* the messages that came into the queue since the start
          received,  \* what each chat has got since the start
          reported,  \* a failure was reported that no commit has cleared
                     \* or undone, and the process has not died since then
          outdated   \* a failure was reported after the snapshot was taken

board  == <<boardFailed, reports>>
server == <<spc, packet>>
shared == <<settings, valid, status, unpublished, msgQueue>>
users  == <<broadcastChats, snapshot>>
bot    == <<bpc, out, left, users>>
main   == <<running, proc, config, file, starts>>
failure == <<reported, outdated>>
heard  == <<pushed, received, failure>>
repVars == <<board, server, shared, bot, main, heard>>

\* user_chats (or none at all) and lastKnownSettings of the file.
Config(chats, listed, node) ==
  [chats |-> chats, listed |-> listed, node |-> node]

\* No menu is active.
NoSnapshot == [menu |-> "none"]

\* A file that was truncated and not written.
Broken == Config({}, FALSE, NoNode)

\* Nothing is left in memory but what a start reads into it.
Blank ==
  /\ status' = 0 /\ unpublished' = FALSE /\ msgQueue' = <<>>
  /\ packet' = 0 /\ out' = 0 /\ left' = {}
  /\ snapshot' = NoSnapshot /\ outdated' = FALSE
  /\ pushed' = {} /\ received' = [c \in Chats |-> <<>>]

----------------------------------------------------------------------------
(***************************************************************************)
(* The status server's thread.                                             *)
(***************************************************************************)
\* Mutant: the loop's condition is not looked at.
CheckRunningNot ==
  /\ spc = "check" /\ spc' = "accept"
  /\ UNCHANGED <<board, packet, shared, bot, main, heard>>

\* The loop's condition, then accept() with its timeout of a second.
CheckRunning ==
  /\ spc = "check" /\ spc' = IF running THEN "accept" ELSE "ended"
  /\ UNCHANGED <<board, packet, shared, bot, main, heard>>

Accept ==
  /\ spc = "accept" /\ spc' \in {"serve", "check"}
  /\ UNCHANGED <<board, packet, shared, bot, main, heard>>

\* The board sends packet after packet.
Receive ==
  /\ spc = "serve" /\ reports < MaxPackets
  /\ reports' = reports + 1 /\ packet' = reports'

\* Published are statuses that show a change, and all of them in debug mode.
ReadStatus ==
  /\ Receive /\ ~boardFailed
  /\ \E moistureRose \in BOOLEAN :
        spc' = IF moistureRose \/ (valid /\ settings.debug) THEN "store"
                                                            ELSE "serve"
  /\ UNCHANGED <<boardFailed, shared, bot, main, heard>>

StoreStatus ==
  /\ spc = "store" /\ spc' = "serve"
  /\ status' = packet /\ unpublished' = TRUE
  /\ UNCHANGED <<board, packet, settings, valid, msgQueue, bot, main, heard>>

ReadMessage ==
  /\ Receive /\ ~boardFailed /\ spc' = "push"
  /\ UNCHANGED <<boardFailed, shared, bot, main, heard>>

\* Mutant: a failure is only forwarded.
ReadFailureNoFlag ==
  /\ Receive /\ ~boardFailed /\ spc' = "push"
  /\ boardFailed' = TRUE
  /\ reported' = TRUE /\ outdated' = (snapshot # NoSnapshot)
  /\ UNCHANGED <<shared, bot, main, pushed, received>>

\* The flag is set before the message is pushed, valid settings or not.
ReadFailure ==
  /\ Receive /\ ~boardFailed /\ spc' = "push"
  /\ settings' = [settings EXCEPT !.hardwareFailure = TRUE]
  /\ boardFailed' = TRUE
  /\ reported' = TRUE /\ outdated' = (snapshot # NoSnapshot)
  /\ UNCHANGED <<valid, status, unpublished, msgQueue, bot, main, pushed,
                 received>>

PushMessage ==
  /\ spc = "push" /\ spc' = "serve"
  /\ msgQueue' = Append(msgQueue, packet) /\ pushed' = pushed \cup {packet}
  /\ UNCHANGED <<board, packet, settings, valid, status, unpublished, bot,
                 main, received, failure>>

\* Valid settings are sent, others received; when a write or the answer to
\* it fails nothing changes.
ReadRequest ==
  /\ spc = "serve"
  /\ IF valid
       THEN boardFailed' = settings.hardwareFailure /\ UNCHANGED settings
       ELSE /\ settings' = [BoardSettings EXCEPT !.hardwareFailure = boardFailed]
            /\ UNCHANGED boardFailed
  /\ valid' = TRUE
  /\ UNCHANGED <<reports, server, status, unpublished, msgQueue, bot, main,
                 heard>>

\* The board has hung up, or a second has passed.
Close ==
  /\ spc = "serve" /\ spc' = "check"
  /\ UNCHANGED <<board, packet, shared, bot, main, heard>>

----------------------------------------------------------------------------
(***************************************************************************)
(* The bot's thread.                                                       *)
(***************************************************************************)
BotEnds ==
  /\ bpc = "top" /\ ~running /\ bpc' = "ended"
  /\ UNCHANGED <<board, server, shared, out, left, users, main, heard>>

\* Mutant: the status stays marked as unpublished.
PublishKept ==
  /\ bpc = "top" /\ running
  /\ IF unpublished
       THEN bpc' = "status" /\ out' = status /\ left' = broadcastChats
       ELSE bpc' = "drain" /\ UNCHANGED <<out, left>>
  /\ UNCHANGED <<board, server, shared, users, main, heard>>

\* The status is copied and marked published before it is sent.
Publish ==
  /\ bpc = "top" /\ running
  /\ IF unpublished
       THEN bpc' = "status" /\ out' = status /\ left' = broadcastChats
       ELSE bpc' = "drain" /\ UNCHANGED <<out, left>>
  /\ unpublished' = FALSE
  /\ UNCHANGED <<board, server, settings, valid, status, msgQueue, users,
                 main, heard>>

Sending == bpc \in {"status", "message"}

Got(c) == received' = [received EXCEPT ![c] = Append(@, <<bpc, out>>)]

SendNext ==
  /\ Sending /\ left # {}
  /\ left' = left \ {Min(left)} /\ Got(Min(left))
  /\ UNCHANGED <<board, server, shared, bpc, out, users, main, pushed, failure>>

\* Mutant: the status is marked published after it has been sent.
SendDoneResets ==
  /\ Sending /\ left = {}
  /\ bpc' = "drain"
  /\ unpublished' = IF bpc = "status" THEN FALSE ELSE unpublished
  /\ UNCHANGED <<board, server, settings, valid, status, msgQueue, out, left,
                 users, main, heard>>

SendDone ==
  /\ Sending /\ left = {}
  /\ bpc' = "drain"
  /\ UNCHANGED <<board, server, shared, out, left, users, main, heard>>

Dies ==
  /\ proc' = "dead" /\ spc' = "ended" /\ bpc' = "ended"
  /\ Blank /\ broadcastChats' = {} /\ reported' = FALSE
  /\ UNCHANGED <<board, settings, valid, running, config, file, starts>>

\* Mutant: the exception is caught, and the loop goes on.
SendThrowsCaught ==
  /\ Sending /\ left # {}
  /\ bpc' = "drain"
  /\ UNCHANGED <<board, server, shared, out, left, users, main, heard>>

\* Outside of the try block: the exception ends the process.
SendThrows == Sending /\ left # {} /\ Dies

\* while (running && !msgQueue.empty()); there is only this consumer.
Drain ==
  /\ bpc = "drain"
  /\ IF running /\ msgQueue # <<>>
       THEN /\ bpc' = "message" /\ out' = Head(msgQueue)
            /\ msgQueue' = Tail(msgQueue) /\ left' = broadcastChats
       ELSE bpc' = "poll" /\ UNCHANGED <<out, msgQueue, left>>
  /\ UNCHANGED <<board, server, settings, valid, status, unpublished,
                 users, main, heard>>

\* A command of a whitelisted user: the chat is kept, whatever happens then.
Command(c) ==
  /\ bpc = "poll" /\ c \in Whitelisted
  /\ broadcastChats' = broadcastChats \cup {c}
  /\ UNCHANGED <<board, server, shared, bpc, out, left, snapshot, main, heard>>

\* /edit: all users share one snapshot, the last /edit takes it anew.
Edit ==
  /\ bpc = "poll" /\ valid
  /\ snapshot' = settings /\ outdated' = FALSE
  /\ UNCHANGED <<board, server, shared, bpc, out, left, broadcastChats, main,
                 pushed, received, reported>>

\* handleCommit(): the snapshot is written back whole, its failure flag with
\* it; it has the user's changes, a cleared flag perhaps among them.
CommitSettings ==
  /\ bpc = "poll" /\ snapshot # NoSnapshot
  /\ \E debug \in BOOLEAN, cleared \in BOOLEAN :
        /\ settings' = [snapshot EXCEPT !.debug = debug,
                                        !.hardwareFailure = @ /\ ~cleared]
        /\ reported' = (reported /\ ~cleared /\ ~outdated)
  /\ snapshot' = NoSnapshot /\ outdated' = FALSE
  /\ UNCHANGED <<board, server, valid, status, unpublished, msgQueue, bpc, out,
                 left, broadcastChats, main, pushed, received>>

\* A poll is over after its updates, or after an exception, which is caught.
PollEnds ==
  /\ bpc = "poll" /\ bpc' = "top"
  /\ UNCHANGED <<board, server, shared, out, left, users, main, heard>>

----------------------------------------------------------------------------
(***************************************************************************)
(* main(): the signal, the end, the file, and the next start.              *)
(***************************************************************************)
SignalHandler ==
  /\ proc = "up" /\ running /\ running' = FALSE
  /\ UNCHANGED <<board, server, shared, bot, proc, config, file, starts,
                 heard>>

\* Mutant: the server's thread is not waited for.
JoinNot ==
  /\ proc = "up" /\ bpc = "ended"
  /\ proc' = "saving" /\ file' = Broken /\ running' = FALSE
  /\ UNCHANGED <<board, server, shared, bot, config, starts, heard>>

\* Both threads have ended; opening the file truncates it.
Join ==
  /\ proc = "up" /\ bpc = "ended" /\ spc = "ended"
  /\ proc' = "saving" /\ file' = Broken /\ running' = FALSE
  /\ UNCHANGED <<board, server, shared, bot, config, starts, heard>>

\* writeSettings(): what was read is written again when nothing is valid.
\* Without chats the entry user_chats is gone.
WriteConfig ==
  /\ proc = "saving" /\ proc' = "off"
  /\ config' = Config(broadcastChats, broadcastChats # {},
                      IF valid THEN NodeOf(settings) ELSE config.node)
  /\ file' = config'
  /\ UNCHANGED <<board, server, shared, bot, running, starts, heard>>

Kill == proc \in {"up", "saving"} /\ Dies

\* readSettings(): settings of this version, or none.
ReadFrom(node) ==
  IF IsReadable(node) THEN Decode(node.settings) ELSE BoardSettings

\* Without a list user_chats main() returns at once.
Start ==
  /\ proc \in {"off", "dead"} /\ file.listed
  /\ starts < MaxStarts /\ starts' = starts + 1
  /\ config' = file /\ broadcastChats' = file.chats
  /\ valid' = IsReadable(file.node) /\ settings' = ReadFrom(file.node)
  /\ Blank /\ spc' = "check" /\ bpc' = "top"
  /\ running' = TRUE /\ proc' = "up"
  /\ UNCHANGED <<file, board, reported>>

----------------------------------------------------------------------------
RepInit ==
  /\ boardFailed = FALSE /\ reports = 0
  /\ file \in Files /\ config = file /\ broadcastChats = file.chats
  /\ valid = IsReadable(file.node) /\ settings = ReadFrom(file.node)
  /\ status = 0 /\ unpublished = FALSE /\ msgQueue = <<>>
  /\ spc = "check" /\ packet = 0
  /\ bpc = "top" /\ out = 0 /\ left = {}
  /\ running = TRUE /\ proc = "up" /\ starts = 0
  /\ pushed = {} /\ received = [c \in Chats |-> <<>>] /\ reported = FALSE
  /\ snapshot = NoSnapshot /\ outdated = FALSE

ServerStep ==
  \/ CheckRunning \/ Accept \/ ReadStatus \/ StoreStatus \/ ReadMessage
  \/ ReadFailure \/ PushMessage \/ ReadRequest \/ Close

BotStep == BotEnds \/ Publish \/ SendNext \/ SendDone \/ Drain \/ PollEnds

UserStep == Edit \/ CommitSettings \/ \E c \in Chats : Command(c)

MainStep == Join \/ WriteConfig

RepNext ==
  \/ ServerStep \/ BotStep \/ UserStep \/ MainStep
  \/ SendThrows \/ SignalHandler \/ Kill \/ Start

(***************************************************************************)
(* Threads run on and requests return; the board hangs up after its report *)
(* or the read times out.  Nobody has to signal, write or start.           *)
(***************************************************************************)
RepSpec ==
  /\ RepInit /\ [][RepNext]_repVars
  /\ WF_repVars(CheckRunning \/ Accept \/ StoreStatus \/ PushMessage)
  /\ WF_repVars(Close)
  /\ WF_repVars(BotStep \/ SendThrows)
  /\ WF_repVars(MainStep)

----------------------------------------------------------------------------
Number == 0 .. MaxPackets

RepTypeOK ==
  /\ boardFailed \in BOOLEAN /\ reports \in Number
  /\ spc \in {"check", "accept", "serve", "store", "push", "ended"}
  /\ packet \in Number /\ settings \in Settings /\ valid \in BOOLEAN
  /\ status \in Number /\ unpublished \in BOOLEAN
  /\ msgQueue \in Seq(Number) /\ Len(msgQueue) <= MaxPackets
  /\ running \in BOOLEAN
  /\ bpc \in {"top", "status", "drain", "message", "poll", "ended"}
  /\ out \in Number /\ left \subseteq broadcastChats
  /\ broadcastChats \subseteq Chats
  /\ proc \in {"up", "saving", "off", "dead"} /\ {file, config} \subseteq FileType
  /\ starts \in 0 .. MaxStarts
  /\ snapshot \in {NoSnapshot} \cup Settings
  /\ pushed \subseteq Number /\ {reported, outdated} \subseteq BOOLEAN
  /\ \A c \in Chats : received[c] \in Seq({"status", "message"} \X Number)

(***************************************************************************)
(* Between a start of the server and its end no chat hears anything twice, *)
(* and the statuses it gets are ever newer ones, and so are the messages,  *)
(* though the server stores the next status while one is being sent.  (An  *)
(* older message may come after a newer status.)                           *)
(***************************************************************************)
HeardInOrder ==
  \A c \in Chats : \A i, j \in DOMAIN received[c] :
    i < j /\ received[c][i][1] = received[c][j][1]
      => received[c][i][2] < received[c][j][2]

Heard(c, kind, n) == \E i \in DOMAIN received[c] : received[c][i] = <<kind, n>>

(***************************************************************************)
(* A running server loses no message: each one waits, is being sent, or    *)
(* has reached all chats that were known at the start.  An exception of a  *)
(* request ends the process rather than the message (telegram_bot.cpp:139).*)
(***************************************************************************)
NoMessageLost ==
  proc = "up" =>
    \A n \in pushed :
      \/ \E i \in DOMAIN msgQueue : msgQueue[i] = n
      \/ \A c \in config.chats :
           Heard(c, "message", n) \/ (bpc = "message" /\ out = n /\ c \in left)

(***************************************************************************)
(* Whoever reads of a failure and opens /edit then sees the flag there:    *)
(* it was set before the message was forwarded, it outlasts an orderly     *)
(* restart, and a server without settings gets it with the board's.  Two   *)
(* things end it: a user clears the flag, or a snapshot taken before the   *)
(* failure is committed, whole and without the flag.  No other commit does.*)
(***************************************************************************)
FailureVisible ==
  reported /\ valid =>
    /\ settings.hardwareFailure
    /\ snapshot # NoSnapshot /\ ~outdated => snapshot.hardwareFailure

(***************************************************************************)
(* An orderly end keeps everything: the file has the chats and settings as *)
(* both threads left them, and the server starts again with the same ones, *)
(* as long as there is a chat; without one it never starts again.          *)
(***************************************************************************)
SavedExactly ==
  /\ RepTypeOK
  /\ proc = "off" =>
       /\ file.chats = broadcastChats /\ (file.listed <=> broadcastChats # {})
       /\ valid <=> IsReadable(file.node)
       /\ valid => Decode(file.node.settings) = settings

(***************************************************************************)
(* What is worth reporting is reported: as long as the server runs, a      *)
(* stored status reaches the chats unless a newer one replaces it, and a   *)
(* message always does.                                                    *)
(***************************************************************************)
Ended == proc # "up" \/ ~running

ReportsArrive ==
  \A n \in 1 .. MaxPackets :
    /\ proc = "up" /\ unpublished /\ status = n
         ~> Ended \/ status # n \/ \A c \in config.chats : Heard(c, "status", n)
    /\ proc = "up" /\ n \in pushed
         ~> Ended \/ \A c \in config.chats : Heard(c, "message", n)

(***************************************************************************)
(* A signal ends the server, which has written its file then, or has died  *)
(* of an exception or a kill.                                              *)
(***************************************************************************)
SignalEnds == proc = "up" /\ ~running ~> proc \in {"off", "dead"}
============================================================================
