--------------------------------- MODULE Lobby ---------------------------------
(***************************************************************************)
(* DedicatedLobbyServer of src/session/lobby_server.kf: a room with seats   *)
(* for players and bots, a gallery for spectators, an owner, the bindings   *)
(* of identities to nicknames that outlive the room, and the chat.          *)
(*                                                                         *)
(* A nickname stands for all its spellings that differ by case.  Movement,  *)
(* scores and the minigames are left out.                                   *)
(***************************************************************************)
EXTENDS Integers, Sequences, FiniteSets

CONSTANTS Seats,          \* lobbyServerMaximumPlayers
          Gallery,        \* lobbyServerMaximumSpectators
          Teams,          \* of players; 0, no team, is not among them
          LobbyNames, Identities,
          NoIdentity,     \* ""
          MaxParticipant, \* ids, 1,000,000 in the code
          MaxBindings,    \* registeredIdentities.length
          RingSize,       \* lobbyServerMaximumChatMessages
          MaxChat         \* messages of a room, 1,000,000 in the code

ASSUME LobbyAssumption ==
  /\ Seats \in Nat \ {0} /\ Gallery \in Nat /\ 0 \notin Teams
  /\ NoIdentity \notin Identities
  /\ {MaxParticipant, MaxBindings, RingSize, MaxChat} \subseteq Nat \ {0}

VARIABLES running, owner, nextPlayerId,
          seats, gallery,   \* who is in a slot, if anybody
          bindings,        \* registeredIdentities, registeredNicknames
          chat             \* the messages of the room

lobbyVars == <<running, owner, nextPlayerId, seats, gallery, bindings, chat>>

Nobody == [id |-> 0, name |-> NoIdentity, identity |-> NoIdentity, team |-> 0, bot |-> FALSE]
Participant == [id : 1 .. MaxParticipant, name : LobbyNames, team : Teams \cup {0},
                identity : Identities \cup {NoIdentity}, bot : BOOLEAN]

LobbyInit ==
  /\ running = FALSE /\ owner = 0 /\ nextPlayerId = 1
  /\ seats = [s \in 1 .. Seats |-> Nobody] /\ gallery = [s \in 1 .. Gallery |-> Nobody]
  /\ bindings = {} /\ chat = <<>>

InSeats == {seats[s] : s \in 1 .. Seats} \ {Nobody}
Spectators == {gallery[s] : s \in 1 .. Gallery} \ {Nobody}
Present == InSeats \cup Spectators
Humans == {p \in InSeats : ~p.bot}

\* Mutant: only the players are looked at.
NameInUseByPlayer(n) == \E p \in InSeats : p.name = n

NameInUse(n) == \E p \in Present : p.name = n
IdentityInUse(i) == i # NoIdentity /\ \E p \in Present : p.identity = i

\* Mutant: whose nickname it is is not asked.
AnyNameClaimed(i, n) ==
  \/ i = NoIdentity
  \/ \E b \in bindings : b.identity = i /\ b.name = n
  \/ Cardinality(bindings) < MaxBindings /\ \A b \in bindings : b.identity # i

\* identityClaimAllowed
ClaimAllowed(i, n) ==
  \/ i = NoIdentity
  \/ [identity |-> i, name |-> n] \in bindings
  \/ Cardinality(bindings) < MaxBindings /\ \A b \in bindings : b.identity # i /\ b.name # n

\* registerIdentity, after its claim was allowed
Bound(i, n) == bindings \cup (IF i = NoIdentity THEN {} ELSE {[identity |-> i, name |-> n]})

\* Mutant: the id is that of the first place nobody has.
FirstFreeId(last) == CHOOSE i \in 1 .. MaxParticipant + 1 :
  (\A p \in Present : p.id # i) /\ \A j \in 1 .. i - 1 : \E p \in Present : p.id = j

\* nextPlayerIdValue, which a new room does not start again
NewId(last) == last

\* The first slot nobody has.
Free(slots) ==
  CHOOSE s \in DOMAIN slots : slots[s] = Nobody /\ \A z \in 1 .. s - 1 : slots[z] # Nobody

Admissible(n, i) ==
  nextPlayerId <= MaxParticipant /\ ~NameInUse(n) /\ ~IdentityInUse(i) /\ ClaimAllowed(i, n)

-----------------------------------------------------------------------------
Entrant(n, t, bot, i) ==
  [id |-> NewId(nextPlayerId), name |-> n, identity |-> i, team |-> t, bot |-> bot]

\* addParticipant into a seat.
AddParticipant(n, t, bot, i) ==
  /\ Admissible(n, i) /\ \E s \in DOMAIN seats : seats[s] = Nobody
  /\ seats' = [seats EXCEPT ![Free(seats)] = Entrant(n, t, bot, i)]
  /\ bindings' = Bound(i, n) /\ nextPlayerId' = nextPlayerId + 1

\* startRoom, and start, which binds the owner's identity
StartRoom(n, i) ==
  /\ ~running /\ AddParticipant(n, 0, FALSE, i)
  /\ running' = TRUE /\ owner' = NewId(nextPlayerId) /\ chat' = <<>>
  /\ UNCHANGED gallery

Join(i, n) ==
  /\ running /\ AddParticipant(n, 0, FALSE, i)
  /\ UNCHANGED <<running, owner, gallery, chat>>

JoinSpectator(i, n) ==
  /\ running /\ Admissible(n, i) /\ \E s \in DOMAIN gallery : gallery[s] = Nobody
  /\ gallery' = [gallery EXCEPT ![Free(gallery)] = Entrant(n, 0, FALSE, i)]
  /\ bindings' = Bound(i, n) /\ nextPlayerId' = nextPlayerId + 1
  /\ UNCHANGED <<running, owner, seats, chat>>

AddBot(n, t) ==
  /\ running /\ AddParticipant(n, t, TRUE, NoIdentity)
  /\ UNCHANGED <<running, owner, gallery, chat>>

RemoveBotSlot(s) ==
  /\ running /\ seats[s].bot /\ seats' = [seats EXCEPT ![s] = Nobody]
  /\ UNCHANGED <<running, owner, nextPlayerId, gallery, bindings, chat>>

SetPlayerTeam(s, t) ==
  /\ running /\ seats[s] # Nobody /\ seats[s].team # t
  /\ seats' = [seats EXCEPT ![s].team = t]
  /\ UNCHANGED <<running, owner, nextPlayerId, gallery, bindings, chat>>

LeaveSpectator(s) ==
  /\ gallery[s] # Nobody /\ gallery' = [gallery EXCEPT ![s] = Nobody]
  /\ UNCHANGED <<running, owner, nextPlayerId, seats, bindings, chat>>

Closed ==
  /\ running' = FALSE /\ owner' = 0 /\ chat' = <<>>
  /\ seats' = [s \in 1 .. Seats |-> Nobody] /\ gallery' = [s \in 1 .. Gallery |-> Nobody]

Stop == running /\ Closed /\ UNCHANGED <<nextPlayerId, bindings>>

\* Mutant: a bot may be the next owner.
Successors(left) == {s \in DOMAIN left : left[s] # Nobody}

\* The seats of those who may own the room.
Heirs(left) == {s \in DOMAIN left : left[s] # Nobody /\ ~left[s].bot}

\* leavePlayer: the room goes to the human in the first seats, or stops
LeavePlayer(s) ==
  /\ seats[s] \in Humans
  /\ LET left == [seats EXCEPT ![s] = Nobody]
     IN IF seats[s].id # owner
        THEN seats' = left /\ UNCHANGED <<running, owner, gallery, chat>>
        ELSE IF Heirs(left) = {} THEN Closed
        ELSE /\ seats' = left
             /\ owner' = left[CHOOSE h \in Heirs(left) : \A z \in Heirs(left) : h <= z].id
             /\ UNCHANGED <<running, gallery, chat>>
  /\ UNCHANGED <<nextPlayerId, bindings>>

Who(p) == [name |-> p.name, identity |-> p.identity]

\* appendChat; "of" is who the two of a whisper were
Says(m) == Len(chat) < MaxChat /\ chat' = Append(chat, m)

Speak(p) ==
  /\ \/ Says([sender |-> p.id, channel |-> "all", target |-> 0, of |-> {}])
     \/ p.team # 0 /\ Says([sender |-> p.id, channel |-> "team", target |-> p.team, of |-> {}])
     \/ \E q \in Humans \ {p} :
          Says([sender |-> p.id, channel |-> "whisper", target |-> q.id,
                   of |-> {Who(p), Who(q)}])
  /\ UNCHANGED <<running, owner, nextPlayerId, seats, gallery, bindings>>

LobbyNext ==
  \/ \E n \in LobbyNames : \/ \E i \in Identities \cup {NoIdentity} : StartRoom(n, i)
                           \/ \E i \in Identities : Join(i, n) \/ JoinSpectator(i, n)
                           \/ \E t \in Teams \cup {0} : AddBot(n, t)
  \/ \E s \in 1 .. Seats : \/ RemoveBotSlot(s) \/ LeavePlayer(s)
                           \/ \E t \in Teams \cup {0} : SetPlayerTeam(s, t)
  \/ \E s \in 1 .. Gallery : LeaveSpectator(s)
  \/ Stop
  \/ \E p \in Humans : Speak(p)

LobbySpec == LobbyInit /\ [][LobbyNext]_lobbyVars

-----------------------------------------------------------------------------
\* The messages that can still be read, and what a player reads.
Ring == {chat[k] : k \in {n \in DOMAIN chat : n > Len(chat) - RingSize}}
VisibleTo(m, p) ==
  \/ m.channel = "all"
  \/ m.channel = "team" /\ m.target = p.team
  \/ m.channel = "whisper" /\ p.id \in {m.sender, m.target}

LobbyTypeOK ==
  /\ running \in BOOLEAN /\ owner \in 0 .. MaxParticipant
  /\ nextPlayerId \in 1 .. MaxParticipant + 1
  /\ seats \in [1 .. Seats -> Participant \cup {Nobody}]
  /\ gallery \in [1 .. Gallery -> Participant \cup {Nobody}]
  /\ bindings \subseteq [identity : Identities, name : LobbyNames]
  /\ Cardinality(bindings) <= MaxBindings /\ Len(chat) <= MaxChat

\* The owner of an open room is a human in a seats; in a closed one is nobody.
OwnerIsHuman ==
  IF running THEN \E p \in Humans : p.id = owner ELSE owner = 0 /\ Present = {}

\* Names, ids and identities are those of one participant each.
RosterIsDistinct ==
  /\ Cardinality(Present)
       = Cardinality({s \in DOMAIN seats : seats[s] # Nobody})
         + Cardinality({s \in DOMAIN gallery : gallery[s] # Nobody})
  /\ \A p, q \in Present : p # q =>
       p.id # q.id /\ p.name # q.name /\ (p.identity = q.identity => p.identity = NoIdentity)

\* Identity and nickname determine each other, and nobody with an identity
\* has another nickname, also in a later room.
BindingsHold ==
  /\ \A b, c \in bindings : b.identity = c.identity <=> b.name = c.name
  /\ \A p \in Present : p.identity # NoIdentity => Who(p) \in bindings

\* A whisper is read by the two it was between and by nobody who came since.
WhispersArePrivate ==
  \A m \in Ring : m.channel = "whisper" =>
    \A p \in InSeats : VisibleTo(m, p) => Who(p) \in m.of

\* Who is in the room, who owns it, and what they are told.
LobbyInv ==
  LobbyTypeOK /\ OwnerIsHuman /\ RosterIsDistinct /\ BindingsHold /\ WhispersArePrivate
=============================================================================
