--------------------------- MODULE MCConnections ---------------------------
(* What passes over the connections of the servers: the reliable WAN        *)
(* channel, with four sequences over a window of two so that every slot is  *)
(* used twice; the web server's sockets, with two connections at a time,    *)
(* three ids and a queue that two connections fill; the rate of the chat,   *)
(* where two connections speak to all while ticks pass and maps change,     *)
(* with a history the messages wrap around; its audience, where one of      *)
(* three connections speaks to anybody within a tick; and the dedicated     *)
(* host with its two clients, one of which leaves and comes back.  They     *)
(* share no state: a behaviour is one of a single part, chosen at the       *)
(* beginning, while the others stay as they were.                           *)
EXTENDS WanChannel, WebTransport, WebChat, DedicatedNet

CONSTANTS p1, p2

MCPayloads == {p1, p2}
MCWindow == 2
MCRetryLimit == 2
MCTimeout == 1
MCMaxSequence == 4

MCChatters == 1 .. 3
Speaker == 1

VARIABLE part

ConnectionsInit ==
  /\ part \in {"channel", "sockets", "rate", "audience", "dedicated"}
  /\ ChannelInit /\ Init /\ ChatInit /\ DedicatedInit

\* Bound: slots are taken in order, as reserve does.
SlotsInOrder ==
  \A s, t \in Chatters : s < t /\ place[s] = "out" => place'[t] \in {place[t], "out"}

\* Bounds of the two parts of the chat.
RateOnly ==
  /\ \A s \in Chatters : team'[s] = 0 /\ request'[s] \in Public \cup {NoMessage}
  /\ place'[3] = "out" /\ freeId' <= 3

AudienceOnly ==
  /\ chatTick' = 0 /\ Len(said') <= 2 /\ Cardinality(dropped') <= 1
  /\ \A s \in Chatters \ {Speaker} : request'[s] = NoMessage
  /\ \A k \in DOMAIN said' : said'[k].from # Console

\* Bound: the payloads are alike, so that the first may be any.
FirstIsP1 == submitted' # <<>> => submitted'[1] = p1

ConnectionsNext ==
  /\ part' = part
  /\ \/ part = "channel" /\ ChannelNext /\ FirstIsP1
        /\ UNCHANGED <<vars, chatVars, dedicatedVars>>
     \/ part = "sockets" /\ Next /\ UNCHANGED <<channelVars, chatVars, dedicatedVars>>
     \/ part = "rate" /\ ChatNext /\ SlotsInOrder /\ RateOnly
        /\ UNCHANGED <<channelVars, vars, dedicatedVars>>
     \/ part = "audience" /\ ChatNext /\ SlotsInOrder /\ AudienceOnly
        /\ UNCHANGED <<channelVars, vars, dedicatedVars>>
     \/ part = "dedicated" /\ DedicatedNext /\ UNCHANGED <<channelVars, vars, chatVars>>

\* The fairness of the parts, each within a behaviour of its own.
ConnectionsFairness ==
  /\ WF_channelVars(part = "channel" /\ Transmit)
  /\ WF_channelVars(part = "channel" /\ GiveUp)
  /\ WF_channelVars(part = "channel" /\ Tick)
  /\ WF_vars(part = "sockets" /\ Poll) /\ WF_vars(part = "sockets" /\ Finish)
  /\ WF_dedicatedVars(part = "dedicated" /\ Host)
  /\ \A c \in Clients : WF_dedicatedVars(part = "dedicated" /\ Client(c))

ConnectionsSpec ==
  /\ ConnectionsInit
  /\ [][ConnectionsNext]_<<part, channelVars, vars, chatVars, dedicatedVars>>
  /\ ConnectionsFairness

-----------------------------------------------------------------------------
\* Every payload is settled, every connection that died is cleared and every process of
\* the dedicated match ends, however long the network or the event ring stands in the way.
EverythingSettles ==
  SenderSettles /\ DeadIsCleared /\ (part = "dedicated" => EverybodyEnds)
=============================================================================
