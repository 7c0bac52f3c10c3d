------------------------------- MODULE WebChat ------------------------------
(***************************************************************************)
(* Player chat of the web match: the form and the log of the page          *)
(* (apps/web_alpha/session_transport.js) and webHandleChat,                *)
(* webDistributeChat and webReplayChatHistory of apps/web_server/main.kf.  *)
(* A message travels while ticks pass, players come and go, teams change   *)
(* and maps change; the output of a connection whose socket the native     *)
(* side dropped fails until the connection is released.                    *)
(*                                                                         *)
(* A text is its number in the order of distribution.  Of the roster only  *)
(* ids and teams are left, of a tick the clock and the released            *)
(* connections.  One message of a page is on its way at a time.            *)
(***************************************************************************)
EXTENDS Integers, Sequences, FiniteSets

CONSTANTS
  Chatters,       \* connection slots
  MaxChatId,      \* the largest player id
  MaxMessages,    \* the largest chat sequence (1000000)
  HistorySize,    \* messages kept for joining recipients (32)
  ChatSpacing,    \* ticks between two messages of a connection (6)
  ShortestMatch,  \* ticks between two map changes: at least an intermission (300)
  MaxChatTick,    \* bound on the simulation tick
  NoMessage

ASSUME ChatAssumption ==
  {MaxChatId, MaxMessages, HistorySize, ChatSpacing, ShortestMatch, MaxChatTick}
    \subseteq Nat \ {0}

Console == MaxChatId + 1  \* the sender of what an administrator says
ChatIds == 1 .. MaxChatId
ChatTeams == {1, 2}
NobodyId == 0
LongAgo == -1000

\* A message names its channel, the team or the recipient, and its sender.
Public == [channel : {"global"}, to : {NobodyId}]
ToTeam == [channel : {"team"}, to : ChatTeams]
Whisper == [channel : {"whisper"}, to : ChatIds]
Request == Public \cup ToTeam \cup Whisper
From(request, sender) ==
  [channel |-> request.channel, to |-> request.to, from |-> sender]

VARIABLES
  chatTick,  \* simulation.tick()
  place,     \* connectionJoined and connectionSpectators
  chatId,    \* connectionPlayerIds
  team,      \* the simulation's team of the player, 0 for none
  dropped,   \* seated connections whose socket is gone
  freeId,    \* nextPlayerIdValue
  spoke,     \* connectionChatLastTick
  ring,      \* chatWordStorage: the numbers of the messages it holds
  request,   \* what the page sent and the server has not handled
  said,      \* history: every message distributed; its length is nextChatSequence - 1
  heard,     \* the numbers a page was sent, in order
  since,     \* history: ticks since the connection's last message, at most ChatSpacing
  oldest     \* history: the first number that was kept when the connection joined

roster == <<place, chatId, team, freeId>>
chatVars == <<chatTick, roster, dropped, spoke, ring, request, said, heard, since, oldest>>

ChatTypeOK ==
  /\ chatTick \in 0 .. MaxChatTick
  /\ place \in [Chatters -> {"out", "player", "spectator"}]
  /\ chatId \in [Chatters -> ChatIds \cup {NobodyId}]
  /\ team \in [Chatters -> ChatTeams \cup {0}]
  /\ dropped \in SUBSET Chatters
  /\ freeId \in 1 .. MaxChatId + 1
  /\ spoke \in [Chatters -> 0 .. MaxChatTick \cup {LongAgo}]
  /\ ring \in [0 .. HistorySize - 1 -> 0 .. MaxMessages]
  /\ request \in [Chatters -> Request \cup {NoMessage}]
  /\ Len(said) <= MaxMessages
  /\ heard \in [Chatters -> Seq(1 .. MaxMessages)]
  /\ since \in [Chatters -> 0 .. ChatSpacing]
  /\ oldest \in [Chatters -> 1 .. MaxMessages + 1]

ChatInit ==
  /\ chatTick = 0
  /\ place = [s \in Chatters |-> "out"]
  /\ chatId = [s \in Chatters |-> NobodyId]
  /\ team = [s \in Chatters |-> 0]
  /\ dropped = {}
  /\ freeId = 1
  /\ spoke = [s \in Chatters |-> LongAgo]
  /\ ring = [r \in 0 .. HistorySize - 1 |-> 0]
  /\ request = [s \in Chatters |-> NoMessage]
  /\ said = <<>>
  /\ heard = [s \in Chatters |-> <<>>]
  /\ since = [s \in Chatters |-> ChatSpacing]
  /\ oldest = [s \in Chatters |-> 1]

SeatedChatters == {s \in Chatters : place[s] # "out"}
PlayingIds == {chatId[s] : s \in {t \in Chatters : place[t] = "player"}}

-----------------------------------------------------------------------------
(* Whom a message reaches. *)

\* Mutant: private messages are filtered by their channel's players only.
Overheard(seat, id, side, m) == m.channel = "global" \/ seat = "player"

\* webChatVisibleTo, for a joined connection.
VisibleTo(seat, id, side, m) ==
  \/ m.channel = "global"
  \/ /\ seat = "player"
     /\ \/ m.channel = "team" /\ side = m.to
        \/ m.channel = "whisper" /\ id \in {m.from, m.to}

RingSlot(n) == (n - 1) % HistorySize

\* Mutant: the history is as long as the match.
KeptAll == Len(said)

Kept == IF Len(said) > HistorySize THEN HistorySize ELSE Len(said)

OldestKept == Len(said) + 1 - Kept

\* webReplayChatHistory: the slot of every kept number, oldest first.
Replay(seat, id, side) ==
  LET told[k \in 0 .. Kept] ==
        IF k = 0 THEN <<>>
        ELSE LET n == ring[RingSlot(OldestKept + k - 1)]
             IN IF VisibleTo(seat, id, side, said[n]) THEN Append(told[k - 1], n) ELSE told[k - 1]
  IN told[Kept]

-----------------------------------------------------------------------------
(* Connections. *)

Cleared(f, gone, empty) == [s \in Chatters |-> IF s \in gone THEN empty ELSE f[s]]

\* A release leaves the slot, and what the next reserve of it sets again.
ReleasedSeats(gone) ==
  /\ place' = Cleared(place, gone, "out")
  /\ chatId' = Cleared(chatId, gone, NobodyId)
  /\ team' = Cleared(team, gone, 0)
  /\ dropped' = dropped \ gone
  /\ request' = Cleared(request, gone, NoMessage)
  /\ oldest' = Cleared(oldest, gone, 1)
  /\ freeId' = freeId

Released(gone) ==
  /\ ReleasedSeats(gone)
  /\ spoke' = Cleared(spoke, gone, LongAgo)
  /\ heard' = Cleared(heard, gone, <<>>)

\* Mutant: the last id is handed out twice.
IdLeftLate == freeId <= MaxChatId + 1

IdLeft == freeId <= MaxChatId

\* reserve and webHandleJoin, with the history after the answer.
Joins(s, seat, side) ==
  /\ place[s] = "out" /\ IdLeft
  /\ place' = [place EXCEPT ![s] = seat]
  /\ chatId' = [chatId EXCEPT ![s] = freeId]
  /\ team' = [team EXCEPT ![s] = side]
  /\ freeId' = freeId + 1
  /\ spoke' = [spoke EXCEPT ![s] = LongAgo]
  /\ heard' = [heard EXCEPT ![s] = Replay(seat, freeId, side)]
  /\ oldest' = [oldest EXCEPT ![s] = OldestKept]
  /\ since' = [since EXCEPT ![s] = ChatSpacing]
  /\ UNCHANGED <<chatTick, dropped, ring, request, said>>

\* The peer leaves, is kicked, or says what the server refuses.
Leaves(s) ==
  /\ s \in SeatedChatters
  /\ Released({s})
  /\ since' = [since EXCEPT ![s] = ChatSpacing]
  /\ UNCHANGED <<chatTick, ring, said>>

\* The native side drops the socket; its closing waits in the event queue.
SocketDrops(s) ==
  /\ s \in SeatedChatters \ dropped
  /\ dropped' = dropped \cup {s}
  /\ UNCHANGED <<chatTick, roster, spoke, ring, request, said, heard, since, oldest>>

\* webHandleAdmin, set team.
SetTeam(s, side) ==
  /\ place[s] = "player"
  /\ team' = [team EXCEPT ![s] = side]
  /\ UNCHANGED <<chatTick, place, chatId, freeId, dropped, spoke, ring, request, said,
                 heard, since, oldest>>

\* webTick: a map change restarts the simulation's clock and keeps the teams;
\* the snapshots that cannot be sent release their connections.
ChatTicks(changes) ==
  /\ IF changes THEN chatTick >= ShortestMatch ELSE chatTick < MaxChatTick
  /\ chatTick' = IF changes THEN 1 ELSE chatTick + 1
  /\ since' = [s \in Chatters |-> IF since[s] < ChatSpacing THEN since[s] + 1 ELSE ChatSpacing]
  /\ Released(dropped)
  /\ UNCHANGED <<ring, said>>

-----------------------------------------------------------------------------
(* Speaking. *)

\* syncWhisperRecipients: the others of the newest scene.
Recipients(s) == PlayingIds \ {chatId[s]}

\* The submit handler of the page.  The team is what the form shows, whatever
\* the server knows; players may go and teams change on the way.
Submits(s, m) ==
  /\ s \in SeatedChatters /\ request[s] = NoMessage
  /\ m.channel = "team" => place[s] = "player"
  /\ m.channel = "whisper" => m.to \in Recipients(s)
  /\ request' = [request EXCEPT ![s] = m]
  /\ UNCHANGED <<chatTick, roster, dropped, spoke, ring, said, heard, since, oldest>>

\* Mutant: the limit is one tick short.
TooSoonLess(s) == chatTick - spoke[s] < ChatSpacing - 1

TooSoon(s) == chatTick - spoke[s] < ChatSpacing

\* Mutant: the channel is whatever the page asks for.
AllowedAny(s, m) == TRUE

Allowed(s, m) ==
  \/ m.channel = "global"
  \/ /\ place[s] = "player"
     /\ \/ m.channel = "team" /\ team[s] = m.to
        \/ m.channel = "whisper" /\ m.to \in PlayingIds \ {chatId[s]}

Audience(m) == {s \in SeatedChatters : VisibleTo(place[s], chatId[s], team[s], m)}

\* Mutant: whoever cannot be reached ends the distribution.
ReachedUntilDropped(m) == IF Audience(m) \cap dropped = {} THEN Audience(m) ELSE {}

Reached(m) == Audience(m) \ dropped

\* appendLobbyChat: the log of the page.
Hears(s, n) == Append(heard[s], n)

\* webDistributeChat: the message is kept and sent, whoever cannot be reached.
Distributes(m) ==
  LET n == Len(said) + 1
  IN /\ said' = Append(said, m)
     /\ ring' = [ring EXCEPT ![RingSlot(n)] = n]
     /\ heard' = [s \in Chatters |-> IF s \in Reached(m) THEN Hears(s, n) ELSE heard[s]]

\* What the page sent is refused: its connection is closed.
Refused(s) ==
  LET m == request[s]
  IN /\ m # NoMessage
     /\ TooSoon(s) \/ ~Allowed(s, m)
     /\ Leaves(s)

\* The sequence is used up.
Unnumbered(s) ==
  LET m == request[s]
  IN /\ m # NoMessage /\ ~TooSoon(s) /\ Allowed(s, m) /\ Len(said) = MaxMessages
     /\ Leaves(s)

\* A recipient that could not be reached costs the sender its connection.
Accepted(s) ==
  LET m == request[s]
      sent == From(m, chatId[s])
  IN /\ m # NoMessage /\ ~TooSoon(s) /\ Allowed(s, m) /\ Len(said) < MaxMessages
     /\ Distributes(sent)
     /\ spoke' = [spoke EXCEPT ![s] = chatTick]
     /\ since' = [since EXCEPT ![s] = 0]
     /\ IF Audience(sent) \cap dropped = {}
        THEN /\ request' = [request EXCEPT ![s] = NoMessage]
             /\ UNCHANGED <<roster, dropped, oldest>>
        ELSE ReleasedSeats({s})
     /\ UNCHANGED chatTick

\* webHandleAdmin, say: no limit, and nobody is closed.
AdminSays ==
  /\ Len(said) < MaxMessages
  /\ Distributes([channel |-> "global", to |-> NobodyId, from |-> Console])
  /\ UNCHANGED <<chatTick, roster, dropped, spoke, request, since, oldest>>

ChatNext ==
  \/ \E s \in Chatters :
       \/ \E side \in ChatTeams \cup {0} : Joins(s, "player", side) \/ SetTeam(s, side)
       \/ Joins(s, "spectator", 0)
       \/ Leaves(s) \/ SocketDrops(s)
       \/ \E m \in Request : Submits(s, m)
       \/ Refused(s) \/ Unnumbered(s) \/ Accepted(s)
  \/ \E changes \in BOOLEAN : ChatTicks(changes)
  \/ AdminSays

ChatSpec == ChatInit /\ [][ChatNext]_chatVars

-----------------------------------------------------------------------------
(* Properties. *)

Concerns(m, id) == m.channel = "global" \/ (m.channel = "whisper" /\ id \in {m.from, m.to})

\* Whoever is connected was sent every global message and every whisper of
\* its own since the oldest one kept at its joining, and each message once and
\* in order: whatever the ring overwrote, whoever could not be reached before it.
NothingMissed ==
  \A s \in SeatedChatters \ dropped :
    /\ \A k \in 1 .. Len(heard[s]) : heard[s][k] \in oldest[s] .. Len(said)
    /\ \A k \in 2 .. Len(heard[s]) : heard[s][k - 1] < heard[s][k]
    /\ \A n \in oldest[s] .. Len(said) : Concerns(said[n], chatId[s]) =>
         \E k \in 1 .. Len(heard[s]) : heard[s][k] = n

\* A page was never sent a whisper between others, live, replayed or after
\* its slot changed hands; spectators are sent what is global only.
ChatIsPrivate ==
  \A s \in SeatedChatters : \A k \in 1 .. Len(heard[s]) :
    LET m == said[heard[s][k]]
    IN CASE m.channel = "global" -> TRUE
         [] m.channel = "whisper" -> place[s] = "player" /\ chatId[s] \in {m.from, m.to}
         [] m.channel = "team" -> place[s] = "player"

\* A message reaches everybody it is for and nobody else.
ChatReaches == ChatTypeOK /\ NothingMissed /\ ChatIsPrivate

\* Nobody speaks for a team or to a player it may not speak to, although teams
\* change and players leave while the message is on its way, and nobody more
\* often than the limit, whatever map changes do to the clock it is kept with.
SpeaksInTurn ==
  [][\A s \in Chatters :
       spoke'[s] # spoke[s] /\ spoke'[s] # LongAgo =>
         /\ since[s] = ChatSpacing
         /\ request[s].channel = "team" => team[s] = request[s].to]_chatVars

-----------------------------------------------------------------------------
(* What the documentation says of the server. *)

\* A player may speak every six simulation ticks: who waited that long since
\* its last message is not refused as too early.
RateIsSixTicks == \A s \in SeatedChatters : TooSoon(s) => since[s] < ChatSpacing
=============================================================================
