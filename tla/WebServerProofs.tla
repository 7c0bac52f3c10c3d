---------------------------- MODULE WebServerProofs ----------------------------
(* A web match, its native client and the lobby. Seats and simulated players *)
(* stay in step, the fallen wait for a wave, training ends with its trainees *)
(* and the next map is one that was voted for, for every number of           *)
(* connections, players and ticks. For every number of                       *)
(* seats, stands, teams, names, identities, bindings and messages the room   *)
(* keeps its owner, its roster, its bindings and who reads a whisper; for    *)
(* every size of its ring, of the sockets and of the sequence the client     *)
(* keeps its sessions apart and says everything once and in order; and every *)
(* document means the same to its page and its server.                       *)
EXTENDS WebMatch, Lobby, KutterSync, KutterDocument, ListProofs, FiniteSetTheorems,
        WellFoundedInduction, TLAPS

-----------------------------------------------------------------------------
(* The lobby.                                                                *)

\* The first of some slots.
LEMMA FirstSlot ==
  ASSUME NEW N \in Nat, NEW S \in SUBSET (1 .. N), S # {}
  PROVE  \E s \in S : \A z \in S : s <= z
<1> DEFINE R == {p \in Nat \X Nat : p[1] < p[2]}
<1>1. S \in SUBSET Nat
  OBVIOUS
<1>2. IsWellFoundedOn(R, Nat)
  BY NatLessThanWellFounded DEF OpToRel
<1>3. PICK s \in S : \A z \in S : ~ (<<z, s>> \in R)
  <2> HIDE DEF R
  <2> QED
    BY <1>1, <1>2, WFMin
<1>4. \A z \in S : ~ (z < s)
  BY <1>1, <1>3
<1> QED
  BY <1>1, <1>4

\* A place that some slot has free is found.
LEMMA FreeIsFound ==
  ASSUME NEW N \in Nat, NEW slots, DOMAIN slots = 1 .. N, \E s \in DOMAIN slots : slots[s] = Nobody
  PROVE  Free(slots) \in 1 .. N /\ slots[Free(slots)] = Nobody
<1> DEFINE S == {s \in 1 .. N : slots[s] = Nobody}
<1>1. PICK s \in S : \A z \in S : s <= z
  <2>1. S # {}
    OBVIOUS
  <2> HIDE DEF S
  <2>2. S \in SUBSET (1 .. N)
    BY DEF S
  <2> QED
    BY <2>1, <2>2, FirstSlot
<1>2. \A z \in 1 .. s - 1 : slots[z] # Nobody
  BY <1>1
<1>3. \E f \in DOMAIN slots : slots[f] = Nobody /\ \A z \in 1 .. f - 1 : slots[z] # Nobody
  BY <1>1, <1>2
<1> QED
  BY <1>3, Zenon DEF Free

-----------------------------------------------------------------------------
(* The inductive invariant. *)

Message == [sender : Nat, channel : {"all", "team", "whisper"}, target : Nat \cup Teams,
            of : SUBSET [name : LobbyNames, identity : Identities \cup {NoIdentity}]]

\* The ids of everybody present were handed out before.
RoomTypes ==
  /\ LobbyTypeOK
  /\ IsFiniteSet(bindings) /\ chat \in Seq(Message)
  /\ \A s \in 1 .. Seats : seats[s] # Nobody => seats[s].id < nextPlayerId
  /\ \A s \in 1 .. Gallery : gallery[s] # Nobody => gallery[s].id < nextPlayerId

Differ(p, q) ==
  p # Nobody /\ q # Nobody =>
    p.id # q.id /\ p.name # q.name /\ (p.identity = q.identity => p.identity = NoIdentity)

\* No two places are taken by the same id, name or identity.
PlacesDiffer ==
  /\ \A s, t \in 1 .. Seats : s # t => Differ(seats[s], seats[t])
  /\ \A s, t \in 1 .. Gallery : s # t => Differ(gallery[s], gallery[t])
  /\ \A s \in 1 .. Seats, t \in 1 .. Gallery : Differ(seats[s], gallery[t])

IsBound(p) == p # Nobody /\ p.identity # NoIdentity => Who(p) \in bindings

PlacesBound ==
  /\ \A b, c \in bindings : b.identity = c.identity <=> b.name = c.name
  /\ \A s \in 1 .. Seats : IsBound(seats[s])
  /\ \A s \in 1 .. Gallery : IsBound(gallery[s])

\* A whisper was between two ids that were handed out before, and whoever has
\* one of them now is who it was between.
Between(m) ==
  m.channel = "whisper" =>
    /\ m.sender < nextPlayerId /\ m.target \in Nat /\ m.target < nextPlayerId
    /\ \A s \in 1 .. Seats :
         seats[s] # Nobody /\ seats[s].id \in {m.sender, m.target} => Who(seats[s]) \in m.of

WhispersKnown == \A k \in 1 .. Len(chat) : Between(chat[k])

RosterInv == RoomTypes /\ PlacesDiffer /\ PlacesBound /\ WhispersKnown

\* Nobody is a participant.
LEMMA NobodyIsNone == \A p \in Participant : p # Nobody /\ p.id \in Nat \ {0}
BY LobbyAssumption DEF Participant, Nobody

\* Those who stay keep their id, name and identity.
LEMMA RosterStays ==
  ASSUME RosterInv,
         running' \in BOOLEAN, owner' \in 0 .. MaxParticipant,
         seats' \in [1 .. Seats -> Participant \cup {Nobody}],
         gallery' \in [1 .. Gallery -> Participant \cup {Nobody}],
         \A s \in 1 .. Seats : \/ seats'[s] = Nobody
                               \/ /\ seats[s] # Nobody /\ seats'[s].id = seats[s].id
                                  /\ Who(seats'[s]) = Who(seats[s]),
         \A s \in 1 .. Gallery : gallery'[s] \in {Nobody, gallery[s]},
         chat' \in {chat, <<>>}, UNCHANGED <<nextPlayerId, bindings>>
  PROVE  RosterInv'
<1>1. \A p, q : Who(p) = Who(q) => p.name = q.name /\ p.identity = q.identity
  BY DEF Who
<1>2. RoomTypes'
  <2>1. chat' \in Seq(Message) /\ Len(chat') <= MaxChat
    <3>1. CASE chat' = chat
      BY <3>1 DEF RosterInv, RoomTypes, LobbyTypeOK
    <3>2. CASE chat' = <<>>
      BY <3>2, LobbyAssumption
    <3> QED
      BY <3>1, <3>2
  <2>2. \A s \in 1 .. Seats : seats'[s] # Nobody => seats'[s].id < nextPlayerId'
    BY DEF RosterInv, RoomTypes
  <2>3. \A s \in 1 .. Gallery : gallery'[s] # Nobody => gallery'[s].id < nextPlayerId'
    BY DEF RosterInv, RoomTypes
  <2> QED
    BY <2>1, <2>2, <2>3, Zenon DEF RosterInv, RoomTypes, LobbyTypeOK
<1>3. PlacesDiffer'
  BY <1>1 DEF RosterInv, PlacesDiffer, Differ
<1>4. PlacesBound'
  BY <1>1 DEF RosterInv, PlacesBound, IsBound
<1>5. WhispersKnown'
  <2>1. CASE chat' = chat
    <3> SUFFICES ASSUME NEW k \in 1 .. Len(chat) PROVE Between(chat[k])'
      BY <2>1 DEF WhispersKnown
    <3>1. Between(chat[k])
      BY DEF RosterInv, WhispersKnown
    <3> QED
      BY <2>1, <3>1 DEF Between
  <2>2. CASE chat' = <<>>
    <3>1. \A k \in 1 .. Len(chat') : FALSE
      BY <2>2
    <3> QED
      BY <3>1 DEF WhispersKnown
  <2> QED
    BY <2>1, <2>2
<1> QED
  BY <1>2, <1>3, <1>4, <1>5 DEF RosterInv

\* Who is let in is nobody of those present, and its binding clashes with none.
LEMMA WhoEnters ==
  ASSUME RosterInv, NEW n \in LobbyNames, NEW t \in Teams \cup {0}, NEW bot \in BOOLEAN,
         NEW i \in Identities \cup {NoIdentity}, NEW e, e = Entrant(n, t, bot, i),
         Admissible(n, i)
  PROVE  /\ e \in Participant /\ e # Nobody /\ e.id = nextPlayerId
         /\ \A s \in 1 .. Seats : Differ(e, seats[s]) /\ Differ(seats[s], e)
         /\ \A s \in 1 .. Gallery : Differ(e, gallery[s]) /\ Differ(gallery[s], e)
<1>1. e \in Participant /\ e # Nobody /\ e.id = nextPlayerId
  BY LobbyAssumption DEF Entrant, NewId, Admissible, Participant, Nobody,
                         RosterInv, RoomTypes, LobbyTypeOK
<1>2. e.name = n /\ e.identity = i
  BY DEF Entrant
<1>3. \A p \in Present : p.name # n /\ (p.identity = i => i = NoIdentity)
  BY DEF Admissible, NameInUse, IdentityInUse
<1>4. ASSUME NEW s \in 1 .. Seats
      PROVE  Differ(e, seats[s]) /\ Differ(seats[s], e)
  <2>1. CASE seats[s] = Nobody
    BY <2>1 DEF Differ
  <2>2. CASE seats[s] # Nobody
    <3>1. seats[s] \in Present
      BY <2>2 DEF Present, InSeats
    <3>2. seats[s].id # nextPlayerId
      BY <2>2, NobodyIsNone DEF RosterInv, RoomTypes, LobbyTypeOK
    <3> QED
      BY <1>1, <1>2, <1>3, <3>1, <3>2 DEF Differ
  <2> QED
    BY <2>1, <2>2
<1>5. ASSUME NEW s \in 1 .. Gallery
      PROVE  Differ(e, gallery[s]) /\ Differ(gallery[s], e)
  <2>1. CASE gallery[s] = Nobody
    BY <2>1 DEF Differ
  <2>2. CASE gallery[s] # Nobody
    <3>1. gallery[s] \in Present
      BY <2>2 DEF Present, Spectators
    <3>2. gallery[s].id # nextPlayerId
      BY <2>2, NobodyIsNone DEF RosterInv, RoomTypes, LobbyTypeOK
    <3> QED
      BY <1>1, <1>2, <1>3, <3>1, <3>2 DEF Differ
  <2> QED
    BY <2>1, <2>2
<1> QED
  BY <1>1, <1>4, <1>5

\* The bindings with that of a newcomer.
LEMMA BindingsGrow ==
  ASSUME RosterInv, NEW n \in LobbyNames, NEW i \in Identities \cup {NoIdentity},
         ClaimAllowed(i, n), NEW B, B = Bound(i, n)
  PROVE  /\ B \subseteq [identity : Identities, name : LobbyNames]
         /\ IsFiniteSet(B) /\ Cardinality(B) <= MaxBindings
         /\ \A b, c \in B : b.identity = c.identity <=> b.name = c.name
         /\ bindings \subseteq B
         /\ i # NoIdentity => [identity |-> i, name |-> n] \in B
<1> DEFINE new == [identity |-> i, name |-> n]
<1>1. /\ bindings \subseteq [identity : Identities, name : LobbyNames]
      /\ IsFiniteSet(bindings) /\ Cardinality(bindings) <= MaxBindings
      /\ \A b, c \in bindings : b.identity = c.identity <=> b.name = c.name
  BY DEF RosterInv, RoomTypes, LobbyTypeOK, PlacesBound
<1>2. CASE i = NoIdentity \/ new \in bindings
  <2>1. B = bindings
    BY <1>2 DEF Bound
  <2> QED
    BY <1>1, <1>2, <2>1
<1>3. CASE i # NoIdentity /\ new \notin bindings
  <2>1. /\ Cardinality(bindings) < MaxBindings
        /\ \A b \in bindings : b.identity # i /\ b.name # n
    BY <1>3 DEF ClaimAllowed
  <2>2. B = bindings \cup {new}
    BY <1>3 DEF Bound
  <2>3. IsFiniteSet(B) /\ Cardinality(B) = Cardinality(bindings) + 1
    BY <1>1, <1>3, <2>2, FS_AddElement
  <2>4. Cardinality(B) <= MaxBindings
    BY <1>1, <2>1, <2>3, FS_CardinalityType, LobbyAssumption
  <2>5. B \subseteq [identity : Identities, name : LobbyNames]
    BY <1>1, <1>3, <2>2
  <2>6. \A b, c \in B : b.identity = c.identity <=> b.name = c.name
    <3>1. new.identity = i /\ new.name = n
      OBVIOUS
    <3> HIDE DEF new
    <3> QED
      BY <1>1, <2>1, <2>2, <3>1
  <2> QED
    BY <2>2, <2>3, <2>4, <2>5, <2>6
<1> QED
  BY <1>2, <1>3

\* Somebody new takes a seat or a place in the gallery.
LEMMA RosterEnters ==
  ASSUME RosterInv, NEW n \in LobbyNames, NEW t \in Teams \cup {0}, NEW bot \in BOOLEAN,
         NEW i \in Identities \cup {NoIdentity}, NEW e, e = Entrant(n, t, bot, i),
         Admissible(n, i),
         running' \in BOOLEAN, owner' \in 0 .. MaxParticipant,
         \/ /\ gallery' = gallery
            /\ \E f \in 1 .. Seats : seats[f] = Nobody /\ seats' = [seats EXCEPT ![f] = e]
         \/ /\ seats' = seats
            /\ \E f \in 1 .. Gallery :
                  gallery[f] = Nobody /\ gallery' = [gallery EXCEPT ![f] = e],
         chat' \in {chat, <<>>}, bindings' = Bound(i, n), nextPlayerId' = nextPlayerId + 1
  PROVE  RosterInv'
<1>1. /\ e \in Participant /\ e # Nobody /\ e.id = nextPlayerId
      /\ \A s \in 1 .. Seats : Differ(e, seats[s]) /\ Differ(seats[s], e)
      /\ \A s \in 1 .. Gallery : Differ(e, gallery[s]) /\ Differ(gallery[s], e)
  BY WhoEnters
<1>2. /\ bindings' \subseteq [identity : Identities, name : LobbyNames]
      /\ IsFiniteSet(bindings') /\ Cardinality(bindings') <= MaxBindings
      /\ \A b, c \in bindings' : b.identity = c.identity <=> b.name = c.name
      /\ bindings \subseteq bindings'
      /\ i # NoIdentity => [identity |-> i, name |-> n] \in bindings'
  BY BindingsGrow DEF Admissible
<1>3. nextPlayerId \in 1 .. MaxParticipant
  BY LobbyAssumption DEF RosterInv, RoomTypes, LobbyTypeOK, Admissible
<1>4. /\ seats \in [1 .. Seats -> Participant \cup {Nobody}]
      /\ gallery \in [1 .. Gallery -> Participant \cup {Nobody}]
      /\ \A s \in 1 .. Seats : seats[s] # Nobody =>
           seats[s].id < nextPlayerId /\ seats[s].id \in Nat
      /\ \A s \in 1 .. Gallery : gallery[s] # Nobody =>
           gallery[s].id < nextPlayerId /\ gallery[s].id \in Nat
  BY NobodyIsNone DEF RosterInv, RoomTypes, LobbyTypeOK
<1>5. /\ \A s \in 1 .. Seats : seats'[s] = seats[s] \/ seats'[s] = e
      /\ \A s \in 1 .. Gallery : gallery'[s] = gallery[s] \/ gallery'[s] = e
      /\ seats' \in [1 .. Seats -> Participant \cup {Nobody}]
      /\ gallery' \in [1 .. Gallery -> Participant \cup {Nobody}]
  BY <1>1, <1>4
<1>6. RoomTypes'
  <2>1. chat' \in Seq(Message) /\ Len(chat') <= MaxChat
    <3>1. CASE chat' = chat
      BY <3>1 DEF RosterInv, RoomTypes, LobbyTypeOK
    <3>2. CASE chat' = <<>>
      BY <3>2, LobbyAssumption
    <3> QED
      BY <3>1, <3>2
  <2>2. \A s \in 1 .. Seats : seats'[s] # Nobody => seats'[s].id < nextPlayerId'
    BY <1>1, <1>3, <1>4, <1>5
  <2>3. \A s \in 1 .. Gallery : gallery'[s] # Nobody => gallery'[s].id < nextPlayerId'
    BY <1>1, <1>3, <1>4, <1>5
  <2>4. nextPlayerId' \in 1 .. MaxParticipant + 1
    BY <1>3, LobbyAssumption
  <2> QED
    BY <1>2, <1>5, <2>1, <2>2, <2>3, <2>4, Zenon DEF RoomTypes, LobbyTypeOK
<1>7. PlacesDiffer'
  <2>1. /\ \A s, t1 \in 1 .. Seats : s # t1 => Differ(seats'[s], seats'[t1])
        /\ \A s, t1 \in 1 .. Gallery : s # t1 => Differ(gallery'[s], gallery'[t1])
        /\ \A s \in 1 .. Seats, t1 \in 1 .. Gallery : Differ(seats'[s], gallery'[t1])
    BY <1>1, <1>4, ZenonT(60) DEF RosterInv, PlacesDiffer
  <2> QED
    BY <2>1 DEF PlacesDiffer, Differ, Nobody
<1>8. PlacesBound'
  <2>1. i # NoIdentity => Who(e) \in bindings'
    BY <1>2 DEF Who, Entrant
  <2>2. e.identity = i
    BY DEF Entrant
  <2> QED
    BY <1>2, <1>5, <2>1, <2>2 DEF RosterInv, PlacesBound, IsBound
<1>9. WhispersKnown'
  <2>1. CASE chat' = chat
    <3> SUFFICES ASSUME NEW k \in 1 .. Len(chat) PROVE Between(chat[k])'
      BY <2>1 DEF WhispersKnown
    <3> SUFFICES ASSUME chat[k].channel = "whisper" PROVE Between(chat[k])'
      BY <2>1 DEF Between
    <3> DEFINE m == chat[k]
    <3>1. Between(m) /\ m \in Message
      BY DEF RosterInv, WhispersKnown, RoomTypes
    <3>2. /\ m.sender < nextPlayerId /\ m.sender \in Nat
          /\ m.target < nextPlayerId /\ m.target \in Nat
      BY <3>1 DEF Between, Message
    <3>3. \A s \in 1 .. Seats :
            seats'[s] # Nobody /\ seats'[s].id \in {m.sender, m.target}
              => Who(seats'[s]) \in m.of
      BY <1>1, <1>3, <1>5, <3>1, <3>2 DEF Between
    <3> QED
      BY <1>3, <2>1, <3>2, <3>3 DEF Between
  <2>2. CASE chat' = <<>>
    <3>1. \A k \in 1 .. Len(chat') : FALSE
      BY <2>2
    <3> QED
      BY <3>1 DEF WhispersKnown
  <2> QED
    BY <2>1, <2>2
<1> QED
  BY <1>6, <1>7, <1>8, <1>9 DEF RosterInv

-----------------------------------------------------------------------------
(* Every step keeps the roster. *)

\* addParticipant: whoever takes a seat, the others stay where they were.
LEMMA SeatTaken ==
  ASSUME RosterInv, NEW n \in LobbyNames, NEW t \in Teams \cup {0}, NEW bot \in BOOLEAN,
         NEW i \in Identities \cup {NoIdentity}, AddParticipant(n, t, bot, i),
         running' \in BOOLEAN, owner' \in 0 .. MaxParticipant,
         gallery' = gallery, chat' \in {chat, <<>>}
  PROVE  RosterInv'
<1>1. seats \in [1 .. Seats -> Participant \cup {Nobody}]
  BY DEF RosterInv, RoomTypes, LobbyTypeOK
<1>2. /\ Free(seats) \in 1 .. Seats /\ seats[Free(seats)] = Nobody
      /\ seats' = [seats EXCEPT ![Free(seats)] = Entrant(n, t, bot, i)]
  BY <1>1, FreeIsFound, LobbyAssumption DEF AddParticipant
<1> QED
  BY <1>2, RosterEnters DEF AddParticipant

\* The room goes to a human who stays.
LEMMA HeirIsHuman ==
  ASSUME NEW leaving \in [1 .. Seats -> Participant \cup {Nobody}], Heirs(leaving) # {},
         NEW h, h = CHOOSE z \in Heirs(leaving) : \A y \in Heirs(leaving) : z <= y
  PROVE  h \in 1 .. Seats /\ leaving[h] \in Participant /\ ~leaving[h].bot
<1>1. Heirs(leaving) \in SUBSET (1 .. Seats) /\ Seats \in Nat
  BY LobbyAssumption DEF Heirs
<1>2. \E z \in Heirs(leaving) : \A y \in Heirs(leaving) : z <= y
  BY <1>1, FirstSlot
<1>3. h \in Heirs(leaving)
  BY <1>2
<1> QED
  BY <1>3 DEF Heirs

\* A message is appended; the two of a whisper are present.
LEMMA SpeakKeeps ==
  ASSUME RosterInv, NEW p \in Humans, Speak(p)
  PROVE  RosterInv'
<1>1. /\ \A s \in 1 .. Seats : seats[s] # Nobody =>
           seats[s] \in Participant /\ seats[s].id < nextPlayerId
      /\ chat \in Seq(Message) /\ Len(chat) <= MaxChat
      /\ nextPlayerId \in Nat
  BY DEF RosterInv, RoomTypes, LobbyTypeOK
<1>2. PICK a \in 1 .. Seats : seats[a] = p /\ p # Nobody /\ p \in Participant
  BY <1>1 DEF Humans, InSeats
<1>3. UNCHANGED <<running, owner, nextPlayerId, seats, gallery, bindings>>
  BY DEF Speak
<1>4. PICK m \in Message : /\ Len(chat) < MaxChat /\ chat' = Append(chat, m)
                           /\ Between(m)
  <2>1. CASE Says([sender |-> p.id, channel |-> "all", target |-> 0, of |-> {}])
    BY <1>2, <2>1 DEF Says, Message, Between, Participant
  <2>2. CASE Says([sender |-> p.id, channel |-> "team", target |-> p.team, of |-> {}])
    BY <1>2, <2>2 DEF Says, Message, Between, Participant
  <2>3. ASSUME NEW q \in Humans \ {p},
               Says([sender |-> p.id, channel |-> "whisper", target |-> q.id,
                     of |-> {Who(p), Who(q)}])
        PROVE  \E m \in Message : /\ Len(chat) < MaxChat /\ chat' = Append(chat, m)
                                  /\ Between(m)
    <3> DEFINE w == [sender |-> p.id, channel |-> "whisper", target |-> q.id,
                     of |-> {Who(p), Who(q)}]
    <3>1. PICK b \in 1 .. Seats : seats[b] = q /\ q # Nobody /\ q \in Participant
      BY <1>1 DEF Humans, InSeats
    <3>2. w \in Message
      BY <1>2, <3>1 DEF Message, Participant, Who
    <3>3. Between(w)
      <4>1. p.id < nextPlayerId /\ q.id \in Nat /\ q.id < nextPlayerId
        BY <1>1, <1>2, <3>1, NobodyIsNone
      <4>2. \A s \in 1 .. Seats : seats[s] # Nobody /\ seats[s].id \in {p.id, q.id} =>
              seats[s] \in {p, q}
        BY <1>2, <3>1 DEF RosterInv, PlacesDiffer, Differ
      <4> QED
        BY <4>1, <4>2 DEF Between
    <3> HIDE DEF w
    <3> QED
      BY <2>3, <3>2, <3>3 DEF Says, w
  <2> QED
    BY <2>1, <2>2, <2>3 DEF Speak
<1>5. RoomTypes'
  <2>1. chat' \in Seq(Message) /\ Len(chat') <= MaxChat
    BY <1>1, <1>4, LobbyAssumption
  <2> QED
    BY <1>3, <2>1, Zenon DEF RosterInv, RoomTypes, LobbyTypeOK
<1>6. PlacesDiffer'
  BY <1>3 DEF RosterInv, PlacesDiffer
<1>7. PlacesBound'
  BY <1>3 DEF RosterInv, PlacesBound, IsBound
<1>8. WhispersKnown'
  <2>1. \A k \in 1 .. Len(chat') : Between(chat'[k])
    <3>1. Len(chat') = Len(chat) + 1 /\ Len(chat) \in Nat
      BY <1>1, <1>4
    <3>2. \A k \in 1 .. Len(chat) : chat'[k] = chat[k]
      BY <1>1, <1>4
    <3>3. chat'[Len(chat) + 1] = m
      BY <1>1, <1>4
    <3> QED
      BY <1>4, <3>1, <3>2, <3>3 DEF RosterInv, WhispersKnown
  <2> QED
    BY <1>3, <2>1 DEF WhispersKnown, Between
<1> QED
  BY <1>5, <1>6, <1>7, <1>8 DEF RosterInv

\* Every step of the lobby keeps the roster.
LEMMA RosterStep == RosterInv /\ [LobbyNext]_lobbyVars => RosterInv'
<1> SUFFICES ASSUME RosterInv, [LobbyNext]_lobbyVars PROVE RosterInv'
  OBVIOUS
<1>1. /\ running \in BOOLEAN /\ owner \in 0 .. MaxParticipant
      /\ nextPlayerId \in 1 .. MaxParticipant + 1
      /\ seats \in [1 .. Seats -> Participant \cup {Nobody}]
      /\ gallery \in [1 .. Gallery -> Participant \cup {Nobody}]
      /\ chat \in Seq(Message) /\ Len(chat) <= MaxChat
  BY Zenon DEF RosterInv, RoomTypes, LobbyTypeOK
<1> DEFINE Stays == \A s \in 1 .. Seats : \/ seats'[s] = Nobody
                               \/ /\ seats[s] # Nobody /\ seats'[s].id = seats[s].id
                                  /\ Who(seats'[s]) = Who(seats[s])
<1>2. ASSUME NEW n \in LobbyNames, NEW i \in Identities \cup {NoIdentity}, StartRoom(n, i)
      PROVE  RosterInv'
  <2>1. owner' \in 0 .. MaxParticipant /\ running' \in BOOLEAN
    BY <1>1, <1>2, LobbyAssumption DEF StartRoom, AddParticipant, Admissible, NewId
  <2> QED
    BY <1>2, <2>1, SeatTaken DEF StartRoom
<1>3. ASSUME NEW n \in LobbyNames, NEW i \in Identities, Join(i, n)
      PROVE  RosterInv'
  BY <1>1, <1>3, SeatTaken DEF Join
<1>4. ASSUME NEW n \in LobbyNames, NEW i \in Identities, JoinSpectator(i, n)
      PROVE  RosterInv'
  <2>1. /\ Free(gallery) \in 1 .. Gallery /\ gallery[Free(gallery)] = Nobody
        /\ gallery' = [gallery EXCEPT ![Free(gallery)] = Entrant(n, 0, FALSE, i)]
    BY <1>1, <1>4, FreeIsFound, LobbyAssumption DEF JoinSpectator
  <2> QED
    BY <1>1, <1>4, <2>1, RosterEnters DEF JoinSpectator
<1>5. ASSUME NEW n \in LobbyNames, NEW t \in Teams \cup {0}, AddBot(n, t)
      PROVE  RosterInv'
  BY <1>1, <1>5, SeatTaken DEF AddBot
<1>6. ASSUME NEW s \in 1 .. Seats, RemoveBotSlot(s)
      PROVE  RosterInv'
  <2>1. Stays /\ seats' \in [1 .. Seats -> Participant \cup {Nobody}]
    BY <1>1, <1>6 DEF RemoveBotSlot
  <2> QED
    BY <1>1, <1>6, <2>1, RosterStays DEF RemoveBotSlot
<1>7. ASSUME Closed, UNCHANGED <<nextPlayerId, bindings>> PROVE RosterInv'
  <2>1. /\ seats' \in [1 .. Seats -> Participant \cup {Nobody}]
        /\ gallery' \in [1 .. Gallery -> Participant \cup {Nobody}]
        /\ \A s \in 1 .. Seats : seats'[s] = Nobody
        /\ \A s \in 1 .. Gallery : gallery'[s] \in {Nobody, gallery[s]}
    BY <1>7 DEF Closed
  <2>2. running' \in BOOLEAN /\ owner' = 0 /\ chat' \in {chat, <<>>}
    BY <1>7, Zenon DEF Closed
  <2>3. 0 \in 0 .. MaxParticipant
    BY LobbyAssumption
  <2> QED
    BY <1>7, <2>1, <2>2, <2>3, RosterStays
<1>8. ASSUME NEW s \in 1 .. Seats, LeavePlayer(s)
      PROVE  RosterInv'
  <2> DEFINE leaving == [seats EXCEPT ![s] = Nobody]
  <2>1. CASE Closed
    BY <1>7, <1>8, <2>1 DEF LeavePlayer
  <2>2. CASE seats' = leaving /\ UNCHANGED <<running, owner, gallery, chat>>
    <3>1. Stays /\ seats' \in [1 .. Seats -> Participant \cup {Nobody}]
      BY <1>1, <2>2
    <3> QED
      BY <1>1, <1>8, <2>2, <3>1, RosterStays DEF LeavePlayer
  <2>3. CASE /\ seats' = leaving /\ Heirs(leaving) # {}
             /\ owner' = leaving[CHOOSE h \in Heirs(leaving) : \A z \in Heirs(leaving) : h <= z].id
             /\ UNCHANGED <<running, gallery, chat>>
    <3>1. Stays /\ seats' \in [1 .. Seats -> Participant \cup {Nobody}]
      BY <1>1, <2>3
    <3>2. owner' \in 0 .. MaxParticipant
      <4> DEFINE h == CHOOSE y \in Heirs(leaving) : \A z \in Heirs(leaving) : y <= z
      <4>1. leaving \in [1 .. Seats -> Participant \cup {Nobody}]
        BY <1>1
      <4> HIDE DEF leaving
      <4>2. leaving[h] \in Participant
        BY <2>3, <4>1, HeirIsHuman
      <4>3. owner' = leaving[h].id
        BY <2>3
      <4> HIDE DEF h
      <4> QED
        BY <4>2, <4>3 DEF Participant
    <3> QED
      BY <1>1, <1>8, <2>3, <3>1, <3>2, RosterStays DEF LeavePlayer
  <2> QED
    BY <1>8, <2>1, <2>2, <2>3 DEF LeavePlayer
<1>9. ASSUME NEW s \in 1 .. Seats, NEW t \in Teams \cup {0}, SetPlayerTeam(s, t)
      PROVE  RosterInv'
  <2>1. seats' = [z \in 1 .. Seats |-> IF z = s THEN [seats[s] EXCEPT !.team = t] ELSE seats[z]]
    BY <1>1, <1>9 DEF SetPlayerTeam
  <2>2. seats[s] \in Participant
    BY <1>1, <1>9 DEF SetPlayerTeam
  <2>3. [seats[s] EXCEPT !.team = t] \in Participant
    BY <2>2 DEF Participant
  <2>4. Stays /\ seats' \in [1 .. Seats -> Participant \cup {Nobody}]
    BY <1>1, <1>9, <2>1, <2>2, <2>3 DEF SetPlayerTeam, Who, Participant
  <2> QED
    BY <1>1, <1>9, <2>4, RosterStays DEF SetPlayerTeam
<1>10. ASSUME NEW s \in 1 .. Gallery, LeaveSpectator(s)
       PROVE  RosterInv'
  <2>1. Stays
    BY <1>1, <1>10 DEF LeaveSpectator
  <2>2. /\ \A z \in 1 .. Gallery : gallery'[z] \in {Nobody, gallery[z]}
        /\ gallery' \in [1 .. Gallery -> Participant \cup {Nobody}]
    BY <1>1, <1>10 DEF LeaveSpectator
  <2> QED
    BY <1>1, <1>10, <2>1, <2>2, RosterStays DEF LeaveSpectator
<1>11. ASSUME Stop PROVE RosterInv'
  BY <1>7, <1>11 DEF Stop
<1>12. ASSUME NEW p \in Humans, Speak(p)
       PROVE  RosterInv'
  BY <1>12, SpeakKeeps
<1>13. ASSUME UNCHANGED lobbyVars PROVE RosterInv'
  <2>1. Stays
    BY <1>13 DEF lobbyVars
  <2> QED
    BY <1>1, <1>13, <2>1, RosterStays DEF lobbyVars
<1> QED
  BY <1>2, <1>3, <1>4, <1>5, <1>6, <1>8, <1>9, <1>10, <1>11, <1>12, <1>13 DEF LobbyNext

\* The roster of an empty lobby.
LEMMA RosterInit == LobbyInit => RosterInv
<1> SUFFICES ASSUME LobbyInit PROVE RosterInv
  OBVIOUS
<1>1. RoomTypes
  <2>1. /\ seats \in [1 .. Seats -> Participant \cup {Nobody}]
        /\ gallery \in [1 .. Gallery -> Participant \cup {Nobody}]
    BY DEF LobbyInit
  <2>7. nextPlayerId \in 1 .. MaxParticipant + 1 /\ owner \in 0 .. MaxParticipant
    BY LobbyAssumption DEF LobbyInit
  <2>8. running \in BOOLEAN
    BY Zenon DEF LobbyInit
  <2>2. IsFiniteSet(bindings) /\ Cardinality(bindings) = 0
    BY FS_EmptySet DEF LobbyInit
  <2>3. chat \in Seq(Message) /\ Len(chat) = 0
    BY DEF LobbyInit
  <2>4. 0 <= MaxBindings /\ 0 <= MaxChat
    BY LobbyAssumption
  <2>5. /\ \A s \in 1 .. Seats : seats[s] # Nobody => seats[s].id < nextPlayerId
        /\ \A s \in 1 .. Gallery : gallery[s] # Nobody => gallery[s].id < nextPlayerId
    BY DEF LobbyInit
  <2>6. bindings \subseteq [identity : Identities, name : LobbyNames]
    BY DEF LobbyInit
  <2> QED
    BY <2>1, <2>2, <2>3, <2>4, <2>5, <2>6, <2>7, <2>8 DEF RoomTypes, LobbyTypeOK
<1>2. PlacesDiffer
  BY DEF LobbyInit, PlacesDiffer, Differ
<1>3. PlacesBound
  BY DEF LobbyInit, PlacesBound, IsBound
<1>4. WhispersKnown
  <2>1. \A k \in 1 .. Len(chat) : FALSE
    BY DEF LobbyInit
  <2> QED
    BY <2>1 DEF WhispersKnown
<1> QED
  BY <1>1, <1>2, <1>3, <1>4 DEF RosterInv

-----------------------------------------------------------------------------
(* Who owns the room. *)

\* Somebody human in a seat owns an open room; a closed one is empty.
OwnerSits ==
  IF running
  THEN \E a \in 1 .. Seats : seats[a] # Nobody /\ ~seats[a].bot /\ seats[a].id = owner
  ELSE /\ owner = 0 /\ \A s \in 1 .. Seats : seats[s] = Nobody
       /\ \A s \in 1 .. Gallery : gallery[s] = Nobody

\* Every step of the lobby leaves an owner who sits there.
LEMMA OwnerStep == RosterInv /\ OwnerSits /\ [LobbyNext]_lobbyVars => OwnerSits'
<1> SUFFICES ASSUME RosterInv, OwnerSits, [LobbyNext]_lobbyVars PROVE OwnerSits'
  OBVIOUS
<1>1. /\ seats \in [1 .. Seats -> Participant \cup {Nobody}]
      /\ gallery \in [1 .. Gallery -> Participant \cup {Nobody}]
  BY DEF RosterInv, RoomTypes, LobbyTypeOK
<1>2. ASSUME NEW n \in LobbyNames, NEW t \in Teams \cup {0}, NEW bot \in BOOLEAN,
             NEW i \in Identities \cup {NoIdentity}, AddParticipant(n, t, bot, i)
      PROVE  /\ Entrant(n, t, bot, i) # Nobody
             /\ \E f \in 1 .. Seats : /\ seats[f] = Nobody /\ seats'[f] = Entrant(n, t, bot, i)
                                     /\ \A s \in 1 .. Seats \ {f} : seats'[s] = seats[s]
  <2>1. /\ Free(seats) \in 1 .. Seats /\ seats[Free(seats)] = Nobody
        /\ seats' = [seats EXCEPT ![Free(seats)] = Entrant(n, t, bot, i)]
    BY <1>1, <1>2, FreeIsFound, LobbyAssumption DEF AddParticipant
  <2>2. Entrant(n, t, bot, i) # Nobody
    BY <1>2, WhoEnters DEF AddParticipant
  <2> QED
    BY <1>1, <2>1, <2>2
<1>2a. ASSUME NEW n \in LobbyNames, NEW t \in Teams \cup {0}, NEW bot \in BOOLEAN,
              NEW i \in Identities \cup {NoIdentity}, AddParticipant(n, t, bot, i),
              ~bot, running', owner' = NewId(nextPlayerId)
       PROVE  OwnerSits'
  <2>1. PICK f \in 1 .. Seats : seats'[f] = Entrant(n, t, bot, i)
    BY <1>2, <1>2a
  <2>2. Entrant(n, t, bot, i) # Nobody
    BY <1>2, <1>2a
  <2>3. Entrant(n, t, bot, i).id = owner' /\ ~Entrant(n, t, bot, i).bot
    BY <1>2a DEF Entrant
  <2> QED
    BY <1>2a, <2>1, <2>2, <2>3 DEF OwnerSits
<1>3. ASSUME NEW n \in LobbyNames, NEW i \in Identities \cup {NoIdentity}, StartRoom(n, i)
      PROVE  OwnerSits'
  BY <1>3, <1>2a DEF StartRoom
<1>4. ASSUME NEW n \in LobbyNames, NEW t \in Teams \cup {0}, NEW bot \in BOOLEAN,
             NEW i \in Identities \cup {NoIdentity}, AddParticipant(n, t, bot, i),
             running, UNCHANGED <<running, owner>>
      PROVE  OwnerSits'
  <2>1. PICK f \in 1 .. Seats : /\ seats[f] = Nobody
                                /\ \A s \in 1 .. Seats \ {f} : seats'[s] = seats[s]
    BY <1>2, <1>4
  <2> QED
    BY <1>4, <2>1 DEF OwnerSits
<1>5. ASSUME NEW n \in LobbyNames, NEW i \in Identities, Join(i, n)
      PROVE  OwnerSits'
  BY <1>4, <1>5 DEF Join
<1>6. ASSUME NEW n \in LobbyNames, NEW i \in Identities, JoinSpectator(i, n)
      PROVE  OwnerSits'
  BY <1>6 DEF JoinSpectator, OwnerSits
<1>7. ASSUME NEW n \in LobbyNames, NEW t \in Teams \cup {0}, AddBot(n, t)
      PROVE  OwnerSits'
  BY <1>4, <1>7 DEF AddBot
<1>8. ASSUME NEW s \in 1 .. Seats, RemoveBotSlot(s)
      PROVE  OwnerSits'
  BY <1>1, <1>8 DEF RemoveBotSlot, OwnerSits
<1>9. ASSUME Closed PROVE OwnerSits'
  BY <1>9 DEF Closed, OwnerSits
<1>10. ASSUME NEW s \in 1 .. Seats, LeavePlayer(s)
       PROVE  OwnerSits'
  <2> DEFINE leaving == [seats EXCEPT ![s] = Nobody]
  <2>1. CASE Closed
    BY <1>9, <2>1
  <2>2. CASE seats[s].id # owner /\ seats' = leaving /\ UNCHANGED <<running, owner, gallery, chat>>
    <3>1. seats[s] # Nobody
      BY <1>10 DEF LeavePlayer, Humans, InSeats
    <3>2. running
      BY <3>1 DEF OwnerSits
    <3>3. PICK a \in 1 .. Seats : seats[a] # Nobody /\ ~seats[a].bot /\ seats[a].id = owner
      BY <3>2 DEF OwnerSits
    <3>4. seats'[a] = seats[a]
      BY <1>1, <2>2, <3>3
    <3> QED
      BY <2>2, <3>2, <3>3, <3>4 DEF OwnerSits
  <2>3. CASE /\ seats' = leaving /\ Heirs(leaving) # {}
             /\ owner' = leaving[CHOOSE h \in Heirs(leaving) : \A z \in Heirs(leaving) : h <= z].id
             /\ UNCHANGED <<running, gallery, chat>>
    <3>1. seats[s] # Nobody
      BY <1>10 DEF LeavePlayer, Humans, InSeats
    <3>2. running
      BY <3>1 DEF OwnerSits
    <3> DEFINE h == CHOOSE y \in Heirs(leaving) : \A z \in Heirs(leaving) : y <= z
    <3>3. leaving \in [1 .. Seats -> Participant \cup {Nobody}]
      BY <1>1
    <3> HIDE DEF leaving
    <3>4. h \in 1 .. Seats /\ leaving[h] \in Participant /\ ~leaving[h].bot
      BY <2>3, <3>3, HeirIsHuman
    <3>5. owner' = leaving[h].id
      BY <2>3
    <3> HIDE DEF h
    <3> QED
      BY <2>3, <3>2, <3>4, <3>5, NobodyIsNone DEF OwnerSits
  <2> QED
    BY <1>10, <2>1, <2>2, <2>3 DEF LeavePlayer
<1>11. ASSUME NEW s \in 1 .. Seats, NEW t \in Teams \cup {0}, SetPlayerTeam(s, t)
       PROVE  OwnerSits'
  <2>1. seats' = [z \in 1 .. Seats |-> IF z = s THEN [seats[s] EXCEPT !.team = t] ELSE seats[z]]
    BY <1>1, <1>11 DEF SetPlayerTeam
  <2>2. seats[s] \in Participant
    BY <1>1, <1>11 DEF SetPlayerTeam
  <2>3. /\ [seats[s] EXCEPT !.team = t] \in Participant
        /\ [seats[s] EXCEPT !.team = t].id = seats[s].id
        /\ [seats[s] EXCEPT !.team = t].bot = seats[s].bot
    BY <2>2 DEF Participant
  <2>4. PICK a \in 1 .. Seats : seats[a] # Nobody /\ ~seats[a].bot /\ seats[a].id = owner
    BY <1>11 DEF SetPlayerTeam, OwnerSits
  <2>5. seats'[a] # Nobody /\ ~seats'[a].bot /\ seats'[a].id = owner
    BY <2>1, <2>3, <2>4, NobodyIsNone
  <2> QED
    BY <1>11, <2>5 DEF SetPlayerTeam, OwnerSits
<1>12. ASSUME NEW s \in 1 .. Gallery, LeaveSpectator(s)
       PROVE  OwnerSits'
  BY <1>1, <1>12 DEF LeaveSpectator, OwnerSits
<1>13. ASSUME NEW p \in Humans, Speak(p)
       PROVE  OwnerSits'
  BY <1>13 DEF Speak, OwnerSits
<1>14. ASSUME UNCHANGED lobbyVars PROVE OwnerSits'
  BY <1>14 DEF lobbyVars, OwnerSits
<1> QED
  BY <1>3, <1>5, <1>6, <1>7, <1>8, <1>9, <1>10, <1>11, <1>12, <1>13, <1>14
     DEF LobbyNext, Stop

-----------------------------------------------------------------------------
(* What the invariant says. *)

\* Slots whose people differ hold as many people as are taken.
LEMMA TakenSlots ==
  ASSUME NEW N \in Nat, NEW slots \in [1 .. N -> Participant \cup {Nobody}],
         \A s, t \in 1 .. N : s # t => Differ(slots[s], slots[t])
  PROVE  /\ IsFiniteSet({slots[s] : s \in 1 .. N} \ {Nobody})
         /\ Cardinality({slots[s] : s \in 1 .. N} \ {Nobody})
              = Cardinality({s \in DOMAIN slots : slots[s] # Nobody})
<1> DEFINE People == {slots[s] : s \in 1 .. N} \ {Nobody}
           Taken == {s \in DOMAIN slots : slots[s] # Nobody}
           f == [s \in Taken |-> slots[s]]
<1>1. IsFiniteSet(Taken)
  <2>1. IsFiniteSet(1 .. N)
    BY FS_Interval
  <2>2. Taken \in SUBSET (1 .. N)
    OBVIOUS
  <2> QED
    BY <2>1, <2>2, FS_Subset
<1>2. f \in [Taken -> People]
  OBVIOUS
<1>3. \A s, t \in Taken : f[s] = f[t] => s = t
  BY DEF Differ
<1>4. \A p \in People : \E s \in Taken : f[s] = p
  OBVIOUS
<1> HIDE DEF f, People, Taken
<1>5. f \in Bijection(Taken, People)
  BY <1>2, <1>3, <1>4 DEF Bijection, Injection, Surjection, IsInjective
<1>6. IsFiniteSet(People) /\ Cardinality(People) = Cardinality(Taken)
  BY <1>1, <1>5, FS_Bijection DEF ExistsBijection
<1> QED
  BY <1>6 DEF People, Taken

\* The roster's invariant is what the room promises of it.
LEMMA RosterMeans == RosterInv => RosterIsDistinct /\ BindingsHold /\ WhispersArePrivate
<1> SUFFICES ASSUME RosterInv
             PROVE  RosterIsDistinct /\ BindingsHold /\ WhispersArePrivate
  OBVIOUS
<1>1. /\ seats \in [1 .. Seats -> Participant \cup {Nobody}]
      /\ gallery \in [1 .. Gallery -> Participant \cup {Nobody}]
      /\ \A s, t \in 1 .. Seats : s # t => Differ(seats[s], seats[t])
      /\ \A s, t \in 1 .. Gallery : s # t => Differ(gallery[s], gallery[t])
      /\ \A s \in 1 .. Seats, t \in 1 .. Gallery : Differ(seats[s], gallery[t])
      /\ Seats \in Nat /\ Gallery \in Nat
  BY LobbyAssumption DEF RosterInv, RoomTypes, LobbyTypeOK, PlacesDiffer
<1>2. Cardinality(Present)
        = Cardinality({s \in DOMAIN seats : seats[s] # Nobody})
          + Cardinality({s \in DOMAIN gallery : gallery[s] # Nobody})
  <2> DEFINE S == {s \in DOMAIN seats : seats[s] # Nobody}
             G == {s \in DOMAIN gallery : gallery[s] # Nobody}
  <2>1. IsFiniteSet(InSeats) /\ Cardinality(InSeats) = Cardinality(S)
    BY <1>1, TakenSlots, Zenon DEF InSeats
  <2>2. IsFiniteSet(Spectators) /\ Cardinality(Spectators) = Cardinality(G)
    BY <1>1, TakenSlots, Zenon DEF Spectators
  <2>3. InSeats \cap Spectators = {}
    BY <1>1 DEF InSeats, Spectators, Differ
  <2>4. Cardinality(InSeats \cap Spectators) = 0
    BY <2>3, FS_EmptySet
  <2>5. Cardinality(InSeats) \in Nat /\ Cardinality(Spectators) \in Nat
    BY <2>1, <2>2, FS_CardinalityType
  <2>6. Cardinality(InSeats \cup Spectators)
          = Cardinality(InSeats) + Cardinality(Spectators) - 0
    BY <2>1, <2>2, <2>4, FS_Union
  <2> HIDE DEF S, G
  <2>7. Cardinality(Present) = Cardinality(S) + Cardinality(G)
    BY <2>1, <2>2, <2>5, <2>6 DEF Present
  <2> QED
    BY <2>7 DEF S, G
<1>3. ASSUME NEW p \in Present, NEW q \in Present, p # q
      PROVE  Differ(p, q)
  <2>1. CASE \E s, t \in 1 .. Seats : p = seats[s] /\ q = seats[t]
    BY <1>1, <1>3, <2>1
  <2>2. CASE \E s, t \in 1 .. Gallery : p = gallery[s] /\ q = gallery[t]
    BY <1>1, <1>3, <2>2
  <2>3. CASE \E s \in 1 .. Seats, t \in 1 .. Gallery : p = seats[s] /\ q = gallery[t]
    BY <1>1, <2>3
  <2>4. CASE \E s \in 1 .. Seats, t \in 1 .. Gallery : q = seats[s] /\ p = gallery[t]
    BY <1>1, <2>4 DEF Differ
  <2> QED
    BY <2>1, <2>2, <2>3, <2>4 DEF Present, InSeats, Spectators
<1>4. RosterIsDistinct
  BY <1>2, <1>3 DEF RosterIsDistinct, Differ, Present, InSeats, Spectators
<1>5. BindingsHold
  BY DEF RosterInv, PlacesBound, IsBound, BindingsHold, Present, InSeats, Spectators
<1>6. WhispersArePrivate
  <2> SUFFICES ASSUME NEW m \in Ring, m.channel = "whisper",
                      NEW p \in InSeats, VisibleTo(m, p)
               PROVE  Who(p) \in m.of
    BY DEF WhispersArePrivate
  <2>1. PICK k \in 1 .. Len(chat) : m = chat[k]
    <3>1. DOMAIN chat = 1 .. Len(chat)
      BY DEF RosterInv, RoomTypes
    <3> QED
      BY <3>1 DEF Ring
  <2>2. Between(m)
    BY <2>1 DEF RosterInv, WhispersKnown
  <2>3. PICK s \in 1 .. Seats : p = seats[s] /\ p # Nobody
    BY DEF InSeats
  <2>4. p.id \in {m.sender, m.target}
    BY DEF VisibleTo
  <2> QED
    BY <2>2, <2>3, <2>4 DEF Between
<1> QED
  BY <1>4, <1>5, <1>6

\* A human in a seat owns an open room, and a closed one is empty.
LEMMA OwnerMeans == OwnerSits => OwnerIsHuman
BY DEF OwnerSits, OwnerIsHuman, Humans, Present, InSeats, Spectators

\* Whatever people do in the lobby, joining twice, coming back under another
\* name, leaving a room to its bots or whispering to somebody who leaves: an
\* open room belongs to a human in it and a closed one is empty, no id, name or
\* identity is two people's, an identity keeps its nickname from room to room,
\* and a whisper is read by the two it was between.
THEOREM LobbyStaysSound == LobbySpec => []LobbyInv
<1>1. LobbyInit => RosterInv /\ OwnerSits
  <2>1. LobbyInit => OwnerSits
    BY DEF LobbyInit, OwnerSits
  <2> QED
    BY <2>1, RosterInit
<1>2. RosterInv /\ OwnerSits /\ [LobbyNext]_lobbyVars => (RosterInv /\ OwnerSits)'
  BY RosterStep, OwnerStep
<1>3. RosterInv /\ OwnerSits => LobbyInv
  BY RosterMeans, OwnerMeans, Zenon DEF LobbyInv, RosterInv, RoomTypes
<1> QED
  BY <1>1, <1>2, <1>3, PTL DEF LobbySpec

-----------------------------------------------------------------------------
(* The client.                                                               *)

Flags == wanted \in BOOLEAN /\ following \in BOOLEAN /\ isOpen \in BOOLEAN

Data ==
  /\ client \in {"idle", "opened", "greeting", "joining", "joined"}
  /\ sequence \in 1 .. LastSequence
  /\ phaseOf \in {"closed", "opening", "open", "failed"}
  /\ pending \in Words \cup {NoWords}
  /\ received \in Seq([kind : Answered, of : Workers]) /\ Len(received) <= MaxReceived
  /\ worker \in [Workers -> {"none", "connecting", "looking", "sending", "sent",
                             "receiving", "delivering", "ending"}]
  /\ carries \in [Workers -> Words \cup [kind : Answered] \cup {NoWords}]
  /\ peer \in [Workers -> {"none", "new", "greeted", "joined"}]
  /\ upward \in [Workers -> Seq(Words)]
  /\ downward \in [Workers -> Seq(Answered)]
  /\ got \in [Workers -> 0 .. LastSequence]

\* A worker sends words and delivers an answer.
Carried ==
  \A e \in Workers : /\ worker[e] = "sending" => carries[e] \in Words
                     /\ worker[e] = "delivering" => carries[e] \in [kind : Answered]

SyncTypes == Flags /\ Data /\ Carried

\* The parts of the types, as the runs check them together.
LEMMA TypesMean == Flags /\ Data => SyncTypeOK
BY Zenon DEF Flags, Data, SyncTypeOK

\* The last sequence on its way to the server, and the one after it.
LastUp(e) == IF upward[e] = <<>> THEN got[e] ELSE upward[e][Len(upward[e])].seq
After(n) == (n % LastSequence) + 1

\* What the client and its flag say of the session they are in.
SessionKnown ==
  /\ phaseOf = "open" => isOpen
  /\ isOpen => client # "idle"
  /\ client = "idle" => sequence = 1
  /\ isOpen /\ worker["now"] = "connecting" =>
       phaseOf = "opening" /\ sequence = 1 /\ pending = NoWords
  /\ isOpen /\ worker["now"] = "sending" => pending = carries["now"]
  /\ isOpen /\ worker["now"] = "sent" => pending # NoWords
  /\ \A e \in Workers : worker[e] = "connecting" =>
       peer[e] = "none" /\ upward[e] = <<>> /\ got[e] = 0

\* What a worker sends comes after what it sent, also when its session is over;
\* so does what waits for the worker of the session that is open.
InOrder ==
  /\ \A e \in Workers : worker[e] = "sending" /\ peer[e] # "none" => carries[e].seq = After(LastUp(e))
  /\ isOpen /\ peer["now"] # "none" /\ worker["now"] # "sent" =>
       IF pending = NoWords THEN sequence = After(LastUp("now"))
       ELSE pending.seq = After(LastUp("now")) /\ sequence = After(pending.seq)
  /\ isOpen /\ peer["now"] # "none" /\ worker["now"] = "sent" => sequence = After(LastUp("now"))

SyncInvariant == SyncTypes /\ OwnSession /\ SessionKnown /\ InOrder

\* The sequence stays in its range when it wraps.
LEMMA AfterSequence ==
  /\ After(0) = 1
  /\ \A n \in 1 .. LastSequence : After(n) = IF n = LastSequence THEN 1 ELSE n + 1
<1>1. LastSequence \in Nat \ {0}
  BY SyncAssumption
<1>2. 0 % LastSequence = 0 /\ LastSequence % LastSequence = 0
  BY <1>1
<1>3. \A n \in 1 .. LastSequence : n # LastSequence => n % LastSequence = n
  BY <1>1
<1> QED
  BY <1>1, <1>2, <1>3 DEF After

\* What is left of a queue.
LEMMA RestOfQueue ==
  ASSUME NEW T, NEW q \in Seq(T), q # <<>>
  PROVE  /\ Tail(q) \in Seq(T) /\ Len(Tail(q)) = Len(q) - 1 /\ Len(q) \in Nat \ {0}
         /\ \A k \in 1 .. Len(q) - 1 : Tail(q)[k] = q[k + 1]
         /\ Tail(q) = <<>> <=> Len(q) = 1
<1>1. /\ Tail(q) \in Seq(T) /\ Len(Tail(q)) = Len(q) - 1 /\ Len(q) \in Nat \ {0}
      /\ \A k \in 1 .. Len(q) - 1 : Tail(q)[k] = q[k + 1]
  OBVIOUS
<1>2. \A r \in Seq(T) : r = <<>> <=> Len(r) = 0
  OBVIOUS
<1>3. Tail(q) = <<>> <=> Len(Tail(q)) = 0
  BY <1>1, <1>2, Zenon
<1> QED
  BY <1>1, <1>3

\* Whom the answers are of that are left in the ring.
LEMMA RingTail ==
  ASSUME Data, OwnSession, received # <<>>, received' = Tail(received)
  PROVE  /\ received' \in Seq([kind : Answered, of : Workers]) /\ Len(received') <= MaxReceived
         /\ \A k \in DOMAIN received' : received'[k].of = "now"
<1>1. received \in Seq([kind : Answered, of : Workers]) /\ Len(received) <= MaxReceived
  BY DEF Data
<1>2. /\ Tail(received) \in Seq([kind : Answered, of : Workers])
      /\ Len(Tail(received)) = Len(received) - 1 /\ Len(received) \in Nat
      /\ \A k \in 1 .. Len(received) - 1 : Tail(received)[k] = received[k + 1]
  BY <1>1, RestOfQueue
<1>3. \A k \in 1 .. Len(received) : received[k].of = "now"
  BY <1>1 DEF OwnSession
<1>4. Len(received') <= MaxReceived
  BY <1>1, <1>2, SyncAssumption
<1>5. DOMAIN received' = 1 .. Len(received) - 1
  BY <1>2
<1> QED
  BY <1>2, <1>3, <1>4, <1>5

\* The client before it is first opened.
LEMMA SyncInitHolds == SyncInit => SyncInvariant
<1> SUFFICES ASSUME SyncInit PROVE SyncInvariant
  OBVIOUS
<1>1. Flags
  BY Zenon DEF SyncInit, Flags
<1>2. Data
  BY SyncAssumption DEF SyncInit, Data
<1>3. Carried
  BY DEF SyncInit, Carried
<1>4. OwnSession
  <2>1. \A k \in DOMAIN received : FALSE
    BY DEF SyncInit
  <2> QED
    BY <2>1 DEF SyncInit, OwnSession
<1>5. SessionKnown /\ InOrder
  BY DEF SyncInit, SessionKnown, InOrder, Workers
<1> QED
  BY <1>1, <1>2, <1>3, <1>4, <1>5 DEF SyncInvariant, SyncTypes

-----------------------------------------------------------------------------
(* The main thread. *)

\* A session is opened: its worker is the newest.
LEMMA OpenKeeps ==
  ASSUME SyncInvariant, ServiceOpens PROVE SyncInvariant'
<1>1. /\ Data /\ isOpen' = TRUE /\ pending' = NoWords /\ received' = <<>> /\ phaseOf' = "opening"
      /\ client' = "opened" /\ client = "idle" /\ UNCHANGED <<wanted, following, sequence>>
      /\ worker' = Started(worker, "connecting") /\ carries' = Started(carries, NoWords)
      /\ peer' = Started(peer, "none") /\ got' = Started(got, 0)
      /\ upward' = Started(upward, <<>>) /\ downward' = Started(downward, <<>>)
  BY Zenon DEF ServiceOpens, OpenSession, Proceeds, SyncInvariant, SyncTypes
<1>2. Workers = {"now", "earlier"}
  BY DEF Workers
<1>3. Flags'
  BY <1>1, Zenon DEF SyncInvariant, SyncTypes, Flags
<1>4. Data'
  <2>1. \A f, v, T : f \in [Workers -> T] /\ v \in T => Started(f, v) \in [Workers -> T]
    BY <1>2 DEF Started
  <2>2. worker' \in [Workers -> {"none", "connecting", "looking", "sending", "sent",
                             "receiving", "delivering", "ending"}]
    BY <1>1, <2>1 DEF Data
  <2>3. carries' \in [Workers -> Words \cup [kind : Answered] \cup {NoWords}]
    BY <1>1, <2>1 DEF Data
  <2>4. peer' \in [Workers -> {"none", "new", "greeted", "joined"}]
    BY <1>1, <2>1 DEF Data
  <2>5. upward' \in [Workers -> Seq(Words)] /\ downward' \in [Workers -> Seq(Answered)]
    <3>1. <<>> \in Seq(Words) /\ <<>> \in Seq(Answered)
      OBVIOUS
    <3> QED
      BY <1>1, <2>1, <3>1, Zenon DEF Data
  <2>6. got' \in [Workers -> 0 .. LastSequence]
    <3>1. 0 \in 0 .. LastSequence
      BY SyncAssumption
    <3> QED
      BY <1>1, <2>1, <3>1, Zenon DEF Data
  <2> QED
    BY <1>1, <2>2, <2>3, <2>4, <2>5, <2>6, SyncAssumption DEF Data
<1>5. Carried'
  BY <1>1, <1>2 DEF SyncInvariant, SyncTypes, Carried, Started
<1>6. OwnSession'
  <2>1. \A k \in DOMAIN received' : FALSE
    BY <1>1
  <2> QED
    BY <1>1, <2>1 DEF OwnSession
<1>7. SessionKnown'
  BY <1>1, <1>2 DEF SyncInvariant, SessionKnown, Started
<1>8. InOrder'
  <2>1. peer'["now"] = "none" /\ worker'["now"] = "connecting"
    BY <1>1 DEF Started
  <2>2. worker'["earlier"] = "sending" /\ peer'["earlier"] # "none"
          => carries'["earlier"].seq = After(LastUp("earlier"))'
    BY <1>1, <1>2 DEF SyncInvariant, InOrder, LastUp, Started, After
  <2> QED
    BY <1>2, <2>1, <2>2 DEF InOrder
<1> QED
  BY <1>3, <1>4, <1>5, <1>6, <1>7, <1>8 DEF SyncInvariant, SyncTypes

\* The session is closed and the client starts over.
LEMMA CloseKeeps ==
  ASSUME SyncInvariant, StartsOver, wanted' \in BOOLEAN, CloseSession PROVE SyncInvariant'
<1>1. Data /\ Workers = {"now", "earlier"}
  BY DEF SyncInvariant, SyncTypes, Workers
<1>2. Flags'
  BY Zenon DEF Flags, CloseSession, StartsOver
<1>3. Data'
  BY <1>1, SyncAssumption DEF Data, CloseSession, EmptiesRing, StartsOver, workerVars
<1>4. Carried'
  BY DEF SyncInvariant, SyncTypes, Carried, CloseSession, workerVars
<1>5. OwnSession'
  <2>1. \A k \in DOMAIN received' : FALSE
    BY DEF CloseSession, EmptiesRing
  <2> QED
    BY <2>1 DEF OwnSession, CloseSession, EmptiesRing
<1>6. SessionKnown'
  BY DEF SyncInvariant, SessionKnown, CloseSession, StartsOver, workerVars
<1>7. InOrder'
  BY DEF SyncInvariant, InOrder, LastUp, CloseSession, workerVars
<1> QED
  BY <1>2, <1>3, <1>4, <1>5, <1>6, <1>7 DEF SyncInvariant, SyncTypes

\* Words are handed to the worker.
LEMMA SendKeeps ==
  ASSUME SyncInvariant, NEW kind \in Asked, SendsWords(kind), wanted' = wanted,
         following' = following,
         client' \in {"opened", "greeting", "joining", "joined"},
         received' = received \/ (received # <<>> /\ received' = Tail(received))
  PROVE  SyncInvariant'
<1>1. /\ Data /\ phaseOf = "open" /\ pending = NoWords /\ isOpen
      /\ pending' = [kind |-> kind, seq |-> sequence]
      /\ sequence' = IF sequence = LastSequence THEN 1 ELSE sequence + 1
      /\ UNCHANGED <<isOpen, phaseOf, worker, carries, peer, upward, downward, got>>
  BY DEF SyncInvariant, SyncTypes, SessionKnown, SendsWords, CanSend, workerVars, serverVars
<1>2. pending' \in Words /\ pending' # NoWords /\ pending'.seq = sequence
  BY <1>1, SyncAssumption DEF Data, Words
<1>3. sequence \in 1 .. LastSequence /\ sequence' \in 1 .. LastSequence
  BY <1>1, SyncAssumption DEF Data
<1>4. sequence' = After(sequence)
  BY <1>1, <1>3, AfterSequence
<1>5. received' \in Seq([kind : Answered, of : Workers]) /\ Len(received') <= MaxReceived
  BY <1>1, RingTail DEF SyncInvariant, Data
<1>6. Flags'
  BY <1>1, Zenon DEF Flags, SyncInvariant, SyncTypes
<1>7. Data'
  BY <1>1, <1>2, <1>3, <1>5 DEF Data
<1>8. Carried'
  BY <1>1 DEF SyncInvariant, SyncTypes, Carried
<1>9. OwnSession'
  <2>1. \A k \in DOMAIN received' : received'[k].of = "now"
    <3>1. CASE received' = received
      BY <3>1 DEF SyncInvariant, OwnSession
    <3>2. CASE received # <<>> /\ received' = Tail(received)
      BY <1>1, <3>2, RingTail DEF SyncInvariant
    <3> QED
      BY <3>1, <3>2
  <2> QED
    BY <1>1, <2>1 DEF OwnSession
<1>10. worker["now"] \notin {"sending", "sent"}
  <2>1. worker["now"] # "sent"
    BY <1>1 DEF SyncInvariant, SessionKnown
  <2>2. worker["now"] = "sending" => carries["now"] \in Words
    BY DEF SyncInvariant, SyncTypes, Carried, Workers
  <2>3. worker["now"] = "sending" => pending = carries["now"]
    BY <1>1 DEF SyncInvariant, SessionKnown
  <2> QED
    BY <1>1, <2>1, <2>2, <2>3, SyncAssumption
<1>11. SessionKnown'
  BY <1>1, <1>10 DEF SyncInvariant, SessionKnown
<1>12. InOrder'
  <2>1. UNCHANGED <<LastUp("now"), LastUp("earlier")>>
    BY <1>1 DEF LastUp
  <2>2. peer["now"] # "none" => sequence = After(LastUp("now"))
    BY <1>1, <1>10 DEF SyncInvariant, InOrder
  <2>3. \A e \in Workers : worker'[e] = "sending" /\ peer'[e] # "none"
                            => carries'[e].seq = After(LastUp(e))'
    BY <1>1 DEF SyncInvariant, InOrder, LastUp, After
  <2>4. peer'["now"] # "none" => pending'.seq = After(LastUp("now"))' /\ sequence' = After(pending'.seq)
    BY <1>1, <1>2, <1>4, <2>2 DEF LastUp, After
  <2> QED
    BY <1>1, <1>2, <1>10, <2>3, <2>4 DEF InOrder, After, LastUp
<1> QED
  BY <1>6, <1>7, <1>8, <1>9, <1>11, <1>12 DEF SyncInvariant, SyncTypes

\* An answer is taken from the ring.
LEMMA TakeKeeps ==
  ASSUME SyncInvariant, ServiceReceives PROVE SyncInvariant'
<1>1. /\ Data /\ received # <<>> /\ received' = Tail(received) /\ client # "idle"
      /\ client' = "joined" /\ UNCHANGED <<wanted, sequence, isOpen, phaseOf, pending, worker, carries,
                                          peer, upward, downward, got>>
  BY DEF SyncInvariant, SyncTypes, ServiceReceives, TakesWords, workerVars, serverVars
<1>2. received' \in Seq([kind : Answered, of : Workers]) /\ Len(received') <= MaxReceived
  BY <1>1, RingTail DEF SyncInvariant
<1>3. Flags'
  <2>1. following' \in BOOLEAN
    BY Zenon DEF ServiceReceives
  <2> QED
    BY <1>1, <2>1, Zenon DEF Flags, SyncInvariant, SyncTypes
<1>4. Data'
  BY <1>1, <1>2 DEF Data
<1>5. Carried'
  BY <1>1 DEF SyncInvariant, SyncTypes, Carried
<1>6. OwnSession'
  <2>1. \A k \in DOMAIN received' : received'[k].of = "now"
    BY <1>1, RingTail DEF SyncInvariant
  <2>2. isOpen
    BY <1>1 DEF SyncInvariant, OwnSession
  <2> QED
    BY <1>1, <2>1, <2>2 DEF OwnSession
<1>7. SessionKnown' /\ InOrder'
  BY <1>1 DEF SyncInvariant, SessionKnown, InOrder, LastUp, After
<1> QED
  BY <1>3, <1>4, <1>5, <1>6, <1>7 DEF SyncInvariant, SyncTypes

-----------------------------------------------------------------------------
(* The workers. *)

\* A step of a worker that only moves it, to where it carries nothing.
LEMMA MoveKeeps ==
  ASSUME SyncInvariant, NEW e \in Workers, worker[e] # "sent",
         NEW pc \in {"none", "looking", "receiving", "ending"}, Goes(e, pc),
         carries' = carries, UNCHANGED mainVars,
         UNCHANGED <<isOpen, pending, received, peer, upward, downward, got, phaseOf>>
  PROVE  SyncInvariant'
<1>1. /\ Data /\ worker' = [worker EXCEPT ![e] = pc]
      /\ UNCHANGED <<wanted, client, following, sequence, isOpen, pending, received, peer,
                     upward, downward, got, phaseOf, carries>>
  BY DEF SyncInvariant, SyncTypes, Goes, mainVars
<1>2. Flags'
  BY <1>1, Zenon DEF SyncInvariant, SyncTypes, Flags
<1>3. Data'
  BY <1>1 DEF Data
<1>4. Carried'
  BY <1>1 DEF SyncInvariant, SyncTypes, Carried, Data
<1>5. OwnSession'
  BY <1>1 DEF SyncInvariant, OwnSession
<1>6. SessionKnown'
  BY <1>1 DEF SyncInvariant, SessionKnown, Data
<1>7. InOrder'
  BY <1>1 DEF SyncInvariant, InOrder, LastUp, After, Data
<1> QED
  BY <1>2, <1>3, <1>4, <1>5, <1>6, <1>7 DEF SyncInvariant, SyncTypes

\* The worker's connection is made, or fails.
LEMMA ConnectsKeeps ==
  ASSUME SyncInvariant, NEW e \in Workers, Connects(e) PROVE SyncInvariant'
<1>1. /\ Data /\ worker' = [worker EXCEPT ![e] = "looking"] /\ worker[e] = "connecting"
      /\ peer' = [peer EXCEPT ![e] = "new"] /\ phaseOf' = "open" /\ e = "now" /\ isOpen
      /\ UNCHANGED <<wanted, client, following, sequence, isOpen, pending, received,
                     upward, downward, got, carries>>
  BY DEF SyncInvariant, SyncTypes, Connects, Goes, mainVars, Stopped, Workers
<1>2. Flags'
  BY <1>1, Zenon DEF SyncInvariant, SyncTypes, Flags
<1>3. Data'
  BY <1>1 DEF Data
<1>4. Carried'
  BY <1>1 DEF SyncInvariant, SyncTypes, Carried, Data
<1>5. OwnSession'
  BY <1>1 DEF SyncInvariant, OwnSession
<1>6. SessionKnown'
  BY <1>1 DEF SyncInvariant, SessionKnown, Data
<1>7. InOrder'
  <2>1. sequence = 1 /\ pending = NoWords /\ upward[e] = <<>> /\ got[e] = 0
    BY <1>1 DEF SyncInvariant, SessionKnown
  <2>2. sequence' = After(LastUp("now"))'
    BY <1>1, <2>1, AfterSequence DEF LastUp, After
  <2> QED
    BY <1>1, <2>1, <2>2 DEF SyncInvariant, InOrder, LastUp, After, Data
<1> QED
  BY <1>2, <1>3, <1>4, <1>5, <1>6, <1>7 DEF SyncInvariant, SyncTypes

\* The worker looks for words to send and for the end of its session.
LEMMA LooksKeeps ==
  ASSUME SyncInvariant, NEW e \in Workers, Looks(e) PROVE SyncInvariant'
<1>1. CASE carries' = carries /\ (Goes(e, "ending") \/ Goes(e, "receiving"))
  BY <1>1, MoveKeeps DEF Looks, nativeVars, serverVars
<1>2. CASE ~Stopped(e) /\ pending # NoWords /\ Goes(e, "sending") /\ Carries(e, pending)
  <2>1. /\ Data /\ worker' = [worker EXCEPT ![e] = "sending"] /\ worker[e] = "looking"
        /\ carries' = [carries EXCEPT ![e] = pending] /\ e = "now" /\ isOpen /\ pending # NoWords
        /\ UNCHANGED <<wanted, client, following, sequence, isOpen, pending, received, peer,
                       upward, downward, got, phaseOf>>
    BY <1>2 DEF SyncInvariant, SyncTypes, Looks, Goes, Carries, mainVars, nativeVars, serverVars,
                Stopped, Workers
  <2>2. Flags'
    BY <2>1, Zenon DEF SyncInvariant, SyncTypes, Flags
  <2>3. Data'
    BY <2>1 DEF Data
  <2>4. Carried'
    BY <2>1 DEF SyncInvariant, SyncTypes, Carried, Data
  <2>5. OwnSession'
    BY <2>1 DEF SyncInvariant, OwnSession
  <2>6. SessionKnown'
    BY <2>1 DEF SyncInvariant, SessionKnown, Data
  <2>7. InOrder'
    BY <2>1 DEF SyncInvariant, InOrder, LastUp, After, Data
  <2> QED
    BY <2>2, <2>3, <2>4, <2>5, <2>6, <2>7 DEF SyncInvariant, SyncTypes
<1> QED
  BY <1>1, <1>2 DEF Looks

\* The frame is sent: its sequence follows the one before.
LEMMA SendsFrameKeeps ==
  ASSUME SyncInvariant, NEW e \in Workers, SendsFrame(e) PROVE SyncInvariant'
<1>0. /\ Data /\ worker[e] = "sending" /\ carries[e] \in Words
      /\ carries' = [carries EXCEPT ![e] = NoWords]
      /\ UNCHANGED <<wanted, client, following, sequence, isOpen, pending, received, peer,
                     downward, got, phaseOf>>
  BY DEF SyncInvariant, SyncTypes, Carried, SendsFrame, Carries, mainVars, nativeVars
<1>1. PICK pc \in {"ending", "sent"} :
        /\ worker' = [worker EXCEPT ![e] = pc]
        /\ pc = "ending" => peer[e] = "none" /\ upward' = upward
        /\ pc = "sent" => upward' = [upward EXCEPT ![e] = Append(@, carries[e])]
  BY DEF SendsFrame, Goes
<1>2. Flags'
  BY <1>0, Zenon DEF SyncInvariant, SyncTypes, Flags
<1>3. Data'
  <2>1. upward' \in [Workers -> Seq(Words)]
    <3>1. Append(upward[e], carries[e]) \in Seq(Words)
      BY <1>0 DEF Data
    <3> QED
      BY <1>0, <1>1, <3>1 DEF Data
  <2> QED
    BY <1>0, <1>1, <2>1 DEF Data
<1>4. Carried'
  BY <1>0, <1>1 DEF SyncInvariant, SyncTypes, Carried, Data
<1>5. OwnSession'
  BY <1>0 DEF SyncInvariant, OwnSession
<1>6. SessionKnown'
  <2>1. isOpen /\ e = "now" => pending # NoWords
    BY <1>0, SyncAssumption DEF SyncInvariant, SessionKnown
  <2>2. \A w \in Workers : w # e => worker'[w] = worker[w] /\ upward'[w] = upward[w]
    BY <1>0, <1>1 DEF Data
  <2>3. worker'[e] \in {"ending", "sent"}
    BY <1>0, <1>1 DEF Data
  <2>4. carries'["now"] = IF e = "now" THEN NoWords ELSE carries["now"]
    BY <1>0 DEF Data, Workers
  <2> QED
    BY <1>0, <2>1, <2>2, <2>3, <2>4 DEF SyncInvariant, SessionKnown, Workers
<1>7. InOrder'
  <2>1. \A w \in Workers : w # e => /\ worker'[w] = worker[w] /\ carries'[w] = carries[w]
                                    /\ LastUp(w)' = LastUp(w)
    BY <1>0, <1>1 DEF Data, LastUp
  <2>2. worker'[e] = pc
    BY <1>0, <1>1 DEF Data
  <2>3. pc = "sent" => LastUp(e)' = carries[e].seq
    <3> SUFFICES ASSUME pc = "sent" PROVE LastUp(e)' = carries[e].seq
      OBVIOUS
    <3>1. upward'[e] = Append(upward[e], carries[e]) /\ upward[e] \in Seq(Words)
      BY <1>0, <1>1 DEF Data
    <3>2. upward'[e] # <<>> /\ upward'[e][Len(upward'[e])] = carries[e]
      BY <3>1
    <3> QED
      BY <3>2 DEF LastUp
  <2>4. e = "now" /\ isOpen /\ peer[e] # "none" => sequence = After(carries[e].seq)
    BY <1>0, SyncAssumption DEF SyncInvariant, SessionKnown, InOrder
  <2>5. \A w \in Workers : worker'[w] = "sending" /\ peer'[w] # "none"
                            => carries'[w].seq = After(LastUp(w))'
    BY <1>0, <2>1, <2>2 DEF SyncInvariant, InOrder, After
  <2>6. CASE e = "now"
    BY <1>0, <1>1, <2>2, <2>3, <2>4, <2>5, <2>6 DEF InOrder, After
  <2>7. CASE e # "now"
    BY <1>0, <2>1, <2>5, <2>7 DEF SyncInvariant, InOrder, After, Workers
  <2> QED
    BY <2>6, <2>7
<1> QED
  BY <1>2, <1>3, <1>4, <1>5, <1>6, <1>7 DEF SyncInvariant, SyncTypes

\* The worker's frame has gone out.
LEMMA SentFrameKeeps ==
  ASSUME SyncInvariant, NEW e \in Workers, SentFrame(e) PROVE SyncInvariant'
<1>1. /\ Data /\ worker' = [worker EXCEPT ![e] = "receiving"] /\ worker[e] = "sent"
      /\ pending' = IF Stopped(e) THEN pending ELSE NoWords
      /\ UNCHANGED <<wanted, client, following, sequence, isOpen, received, peer,
                     upward, downward, got, phaseOf, carries>>
  BY DEF SyncInvariant, SyncTypes, SentFrame, ClearsPending, Goes, mainVars, serverVars
<1>2. Flags'
  BY <1>1, Zenon DEF SyncInvariant, SyncTypes, Flags
<1>3. Data'
  BY <1>1 DEF Data
<1>4. Carried'
  BY <1>1 DEF SyncInvariant, SyncTypes, Carried, Data
<1>5. OwnSession'
  BY <1>1 DEF SyncInvariant, OwnSession
<1>6. SessionKnown'
  BY <1>1 DEF SyncInvariant, SessionKnown, Data, Stopped, Workers
<1>7. InOrder'
  BY <1>1 DEF SyncInvariant, InOrder, LastUp, After, Data, Stopped, Workers
<1> QED
  BY <1>2, <1>3, <1>4, <1>5, <1>6, <1>7 DEF SyncInvariant, SyncTypes

\* The worker receives an answer.
LEMMA ReceivesKeeps ==
  ASSUME SyncInvariant, NEW e \in Workers, Receives(e) PROVE SyncInvariant'
<1>1. CASE Goes(e, "ending") /\ UNCHANGED <<carries, downward>>
  BY <1>1, MoveKeeps DEF Receives, nativeVars
<1>2. CASE /\ downward[e] # <<>> /\ Goes(e, "delivering")
           /\ Carries(e, [kind |-> Head(downward[e])])
           /\ downward' = [downward EXCEPT ![e] = Tail(@)]
  <2>1. /\ Data /\ worker' = [worker EXCEPT ![e] = "delivering"] /\ worker[e] = "receiving"
        /\ carries' = [carries EXCEPT ![e] = [kind |-> Head(downward[e])]]
        /\ UNCHANGED <<wanted, client, following, sequence, isOpen, pending, received, peer,
                       upward, got, phaseOf>>
    BY <1>2 DEF SyncInvariant, SyncTypes, Receives, Goes, Carries, mainVars, nativeVars
  <2>2. Flags'
    BY <2>1, Zenon DEF SyncInvariant, SyncTypes, Flags
  <2>3. [kind |-> Head(downward[e])] \in [kind : Answered]
    BY <1>2, <2>1 DEF Data
  <2>4. downward' \in [Workers -> Seq(Answered)]
    <3>1. Tail(downward[e]) \in Seq(Answered)
      BY <1>2, <2>1, RestOfQueue DEF Data
    <3> QED
      BY <1>2, <2>1, <3>1 DEF Data
  <2>5. carries' \in [Workers -> Words \cup [kind : Answered] \cup {NoWords}]
    BY <2>1, <2>3, Zenon DEF Data
  <2>6. Data'
    BY <2>1, <2>4, <2>5 DEF Data
  <2>7. Carried'
    BY <2>1, <2>3 DEF SyncInvariant, SyncTypes, Carried, Data
  <2>8. OwnSession'
    BY <2>1 DEF SyncInvariant, OwnSession
  <2>9. SessionKnown'
    BY <2>1 DEF SyncInvariant, SessionKnown, Data
  <2>10. InOrder'
    BY <2>1 DEF SyncInvariant, InOrder, LastUp, After, Data
  <2> QED
    BY <2>2, <2>6, <2>7, <2>8, <2>9, <2>10 DEF SyncInvariant, SyncTypes
<1> QED
  BY <1>1, <1>2 DEF Receives

\* The worker delivers the answer to the ring, if its session is still the client's.
LEMMA DeliversKeeps ==
  ASSUME SyncInvariant, NEW e \in Workers, Delivers(e) PROVE SyncInvariant'
<1>0. /\ Data /\ worker[e] = "delivering" /\ carries[e] \in [kind : Answered]
      /\ carries' = [carries EXCEPT ![e] = NoWords]
      /\ UNCHANGED <<wanted, client, following, sequence, isOpen, pending, peer,
                     upward, downward, got, phaseOf>>
  BY DEF SyncInvariant, SyncTypes, Carried, Delivers, Carries, mainVars, serverVars
<1>1. PICK pc \in {"ending", "looking"} : worker' = [worker EXCEPT ![e] = pc]
  BY DEF Delivers, Goes
<1>2. \/ received' = received
      \/ /\ e = "now" /\ isOpen /\ Len(received) # MaxReceived
         /\ received' = Append(received, [kind |-> carries[e].kind, of |-> e])
  BY DEF Delivers, OverWhileWaiting, Stopped, RingFull, Workers
<1>3. received' \in Seq([kind : Answered, of : Workers]) /\ Len(received') <= MaxReceived
  <2>1. received \in Seq([kind : Answered, of : Workers]) /\ Len(received) <= MaxReceived
    BY <1>0 DEF Data
  <2>2. [kind |-> carries[e].kind, of |-> e] \in [kind : Answered, of : Workers]
    BY <1>0
  <2> DEFINE a == [kind |-> carries[e].kind, of |-> e]
             S == [kind : Answered, of : Workers]
  <2> HIDE DEF a, S
  <2>3. CASE received' = Append(received, a) /\ Len(received) # MaxReceived
    <3>1. a \in S /\ received \in Seq(S) /\ Len(received) <= MaxReceived
      BY <2>1, <2>2 DEF a, S
    <3>2. received' \in Seq(S) /\ Len(received') = Len(received) + 1 /\ Len(received) \in Nat
      BY <2>3, <3>1
    <3> QED
      BY <2>3, <3>1, <3>2, SyncAssumption DEF S
  <2> QED
    BY <1>2, <2>1, <2>3 DEF a
<1>4. Flags'
  BY <1>0, Zenon DEF SyncInvariant, SyncTypes, Flags
<1>5. Data'
  BY <1>0, <1>1, <1>3 DEF Data
<1>6. Carried'
  BY <1>0, <1>1 DEF SyncInvariant, SyncTypes, Carried, Data
<1>7. OwnSession'
  <2>1. CASE received' = received
    BY <1>0, <2>1 DEF SyncInvariant, OwnSession
  <2>2. CASE received' # received
    <3>1. received \in Seq([kind : Answered, of : Workers])
      BY <1>0 DEF Data
    <3>2. \A k \in 1 .. Len(received) : received[k].of = "now"
      BY <3>1 DEF SyncInvariant, OwnSession
    <3>3. \A k \in DOMAIN received' : received'[k].of = "now"
      BY <1>2, <2>2, <3>1, <3>2
    <3> QED
      BY <1>0, <1>2, <2>2, <3>3 DEF OwnSession
  <2> QED
    BY <2>1, <2>2
<1>8. SessionKnown'
  BY <1>0, <1>1 DEF SyncInvariant, SessionKnown, Data
<1>9. InOrder'
  BY <1>0, <1>1 DEF SyncInvariant, InOrder, LastUp, After, Data
<1> QED
  BY <1>4, <1>5, <1>6, <1>7, <1>8, <1>9 DEF SyncInvariant, SyncTypes

\* The worker ends.
LEMMA EndsKeeps ==
  ASSUME SyncInvariant, NEW e \in Workers, Ends(e) PROVE SyncInvariant'
<1>1. /\ Data /\ worker' = [worker EXCEPT ![e] = "none"] /\ worker[e] = "ending"
      /\ phaseOf' = IF Stopped(e) THEN phaseOf ELSE "failed"
      /\ peer' = [peer EXCEPT ![e] = "none"] /\ got' = [got EXCEPT ![e] = 0]
      /\ upward' = [upward EXCEPT ![e] = <<>>] /\ downward' = [downward EXCEPT ![e] = <<>>]
      /\ UNCHANGED <<wanted, client, following, sequence, isOpen, received, pending, carries>>
  BY DEF SyncInvariant, SyncTypes, Ends, Goes, mainVars
<1>2. Flags'
  BY <1>1, Zenon DEF SyncInvariant, SyncTypes, Flags
<1>3. Data'
  BY <1>1, SyncAssumption DEF Data
<1>4. Carried'
  BY <1>1 DEF SyncInvariant, SyncTypes, Carried, Data
<1>5. OwnSession'
  BY <1>1 DEF SyncInvariant, OwnSession
<1>6. SessionKnown'
  BY <1>1 DEF SyncInvariant, SessionKnown, Data, Stopped, Workers
<1>7. InOrder'
  BY <1>1 DEF SyncInvariant, InOrder, LastUp, After, Data, Workers
<1> QED
  BY <1>2, <1>3, <1>4, <1>5, <1>6, <1>7 DEF SyncInvariant, SyncTypes

-----------------------------------------------------------------------------
(* The server. *)

\* The connection ends on the server.
LEMMA DropsKeeps ==
  ASSUME SyncInvariant, NEW e \in Workers, Drops(e), ServerOnly PROVE SyncInvariant'
<1>1. /\ Data /\ peer' = [peer EXCEPT ![e] = "none"] /\ got' = [got EXCEPT ![e] = 0]
      /\ upward' = [upward EXCEPT ![e] = <<>>]
      /\ UNCHANGED <<wanted, client, following, sequence, isOpen, received, pending, phaseOf,
                     worker, carries, downward>>
  BY DEF SyncInvariant, SyncTypes, Drops, ServerOnly, mainVars, nativeVars, workerVars
<1>2. Flags'
  BY <1>1, Zenon DEF SyncInvariant, SyncTypes, Flags
<1>3. Data'
  BY <1>1, SyncAssumption DEF Data
<1>4. Carried'
  BY <1>1 DEF SyncInvariant, SyncTypes, Carried
<1>5. OwnSession'
  BY <1>1 DEF SyncInvariant, OwnSession
<1>6. SessionKnown'
  BY <1>1 DEF SyncInvariant, SessionKnown, Data
<1>7. InOrder'
  BY <1>1 DEF SyncInvariant, InOrder, LastUp, After, Data, Workers
<1> QED
  BY <1>2, <1>3, <1>4, <1>5, <1>6, <1>7 DEF SyncInvariant, SyncTypes

\* The server reads what it waits for: the last sequence on its way stays.
LEMMA WelcomeKeeps ==
  ASSUME SyncInvariant, NEW e \in Workers, peer[e] # "none", upward[e] # <<>>,
         NEW m, m = Head(upward[e]),
         upward' = [upward EXCEPT ![e] = Tail(@)],
         peer' = [peer EXCEPT ![e] = IF m.kind = "hello" THEN "greeted" ELSE "joined"],
         downward' = [downward EXCEPT ![e] =
                  CASE m.kind = "hello" -> Append(@, "ack")
                    [] m.kind = "join" -> Append(@, "response")
                    [] OTHER -> @],
         got' = [got EXCEPT ![e] = m.seq], ServerOnly
  PROVE  SyncInvariant'
<1>1. /\ Data
      /\ UNCHANGED <<wanted, client, following, sequence, isOpen, received, pending, phaseOf,
                     worker, carries>>
  BY DEF SyncInvariant, SyncTypes, ServerOnly, mainVars, nativeVars, workerVars
<1>2. upward[e] \in Seq(Words) /\ downward[e] \in Seq(Answered)
  BY <1>1 DEF Data
<1>3. /\ Tail(upward[e]) \in Seq(Words) /\ Len(Tail(upward[e])) = Len(upward[e]) - 1
      /\ Len(upward[e]) \in Nat \ {0}
      /\ \A k \in 1 .. Len(upward[e]) - 1 : Tail(upward[e])[k] = upward[e][k + 1]
      /\ Tail(upward[e]) = <<>> <=> Len(upward[e]) = 1
  BY <1>2, RestOfQueue
<1>4. m \in Words /\ m = upward[e][1]
  BY <1>2
<1>5. LastUp(e)' = LastUp(e)
  <2>1. upward'[e] = Tail(upward[e]) /\ got'[e] = m.seq
    BY <1>1 DEF Data
  <2>2. CASE Len(upward[e]) = 1
    <3>1. Tail(upward[e]) = <<>>
      BY <1>3, <2>2
    <3> QED
      BY <1>4, <2>1, <2>2, <3>1 DEF LastUp
  <2>3. CASE Len(upward[e]) # 1
    <3>1. Tail(upward[e]) # <<>> /\ Len(upward[e]) - 1 \in 1 .. Len(upward[e]) - 1
      BY <1>3, <2>3
    <3>2. Tail(upward[e])[Len(upward[e]) - 1] = upward[e][Len(upward[e])]
      BY <1>3, <3>1
    <3> QED
      BY <1>3, <2>1, <3>1, <3>2 DEF LastUp
  <2> QED
    BY <2>2, <2>3
<1>6. \A w \in Workers : w # e => LastUp(w)' = LastUp(w)
  BY <1>1 DEF LastUp, Data
<1>7. Flags'
  BY <1>1, Zenon DEF SyncInvariant, SyncTypes, Flags
<1>8. Data'
  <2>1. upward' \in [Workers -> Seq(Words)]
    BY <1>1, <1>3 DEF Data
  <2>2. got' \in [Workers -> 0 .. LastSequence]
    BY <1>1, <1>4 DEF Data, Words
  <2>3. downward' \in [Workers -> Seq(Answered)]
    <3>1. /\ Append(downward[e], "ack") \in Seq(Answered)
          /\ Append(downward[e], "response") \in Seq(Answered)
      BY <1>2 DEF Answered
    <3> QED
      BY <1>1, <1>2, <3>1 DEF Data
  <2> QED
    BY <1>1, <2>1, <2>2, <2>3 DEF Data
<1>9. Carried' /\ OwnSession'
  BY <1>1 DEF SyncInvariant, SyncTypes, Carried, OwnSession
<1>10. SessionKnown'
  BY <1>1 DEF SyncInvariant, SessionKnown, Data
<1>11. InOrder'
  <2>1. \A w \in Workers : peer'[w] # "none" => peer[w] # "none" /\ LastUp(w)' = LastUp(w)
    BY <1>1, <1>5, <1>6 DEF Data
  <2> QED
    BY <1>1, <2>1 DEF SyncInvariant, InOrder, After, Workers
<1> QED
  BY <1>7, <1>8, <1>9, <1>10, <1>11 DEF SyncInvariant, SyncTypes

\* The server tells a peer something.
LEMMA TellsKeeps ==
  ASSUME SyncInvariant, NEW e \in Workers, NEW kind \in {"snapshot", "chat"}, Tells(e, kind)
  PROVE  SyncInvariant'
<1>1. /\ Data /\ downward' = [downward EXCEPT ![e] = Append(@, kind)]
      /\ UNCHANGED <<wanted, client, following, sequence, isOpen, received, pending, phaseOf,
                     worker, carries, peer, upward, got>>
  BY DEF SyncInvariant, SyncTypes, Tells, ServerOnly, mainVars, nativeVars, workerVars
<1>2. Flags'
  BY <1>1, Zenon DEF SyncInvariant, SyncTypes, Flags
<1>3. Data'
  <2>1. Append(downward[e], kind) \in Seq(Answered)
    BY <1>1 DEF Data, Answered
  <2> QED
    BY <1>1, <2>1 DEF Data
<1>4. Carried' /\ OwnSession' /\ SessionKnown' /\ InOrder'
  BY <1>1 DEF SyncInvariant, SyncTypes, Carried, OwnSession, SessionKnown, InOrder, LastUp, After
<1> QED
  BY <1>2, <1>3, <1>4 DEF SyncInvariant, SyncTypes

-----------------------------------------------------------------------------
\* A worker goes from sending to sent by its frame alone.
LEMMA SentOnly ==
  ASSUME SyncInvariant, SyncNext, NEW e \in Workers, worker[e] = "sending", worker'[e] = "sent"
  PROVE  SendsFrame(e)
<1>1. /\ worker \in [Workers -> {"none", "connecting", "looking", "sending", "sent",
                                 "receiving", "delivering", "ending"}]
      /\ Workers = {"now", "earlier"}
  BY DEF SyncInvariant, SyncTypes, Data, Workers
<1>2. worker' # worker
  OBVIOUS
<1>3. ~ServiceOpens
  BY <1>1 DEF ServiceOpens, OpenSession, Started
<1>4. PICK w \in Workers : Works(w) \/ ConnectFails(w)
  BY <1>2, <1>3 DEF SyncNext, Enters, ServiceOff, Service, ServiceFailed, ServiceGreets,
       ServiceUnexpected, ServiceJoins, ServiceReceives, SendInput, Disconnect, CloseSession,
       SendsWords, ServerReads, ServerRefuses, IdleCloses, Breaks, Tells, ServerOnly, workerVars
<1>5. SendsFrame(w)
  BY <1>1, <1>4 DEF Works, ConnectFails, Connects, Looks, SentFrame, Receives, Delivers, Ends, Goes
<1>6. w = e
  BY <1>1, <1>5 DEF SendsFrame, Goes
<1> QED
  BY <1>5, <1>6

\* Every step of the client, its workers and its peers keeps the invariant.
LEMMA SyncStep == SyncInvariant /\ [SyncNext]_syncVars => SyncInvariant'
<1> SUFFICES ASSUME SyncInvariant, [SyncNext]_syncVars PROVE SyncInvariant'
  OBVIOUS
<1>1. ASSUME Enters \/ UNCHANGED syncVars \/ (ServiceOff /\ client = "idle") PROVE SyncInvariant'
  <2>1. /\ UNCHANGED <<client, nativeVars, workerVars, serverVars>>
        /\ sequence' = sequence
    BY <1>1 DEF Enters, ServiceOff, syncVars, mainVars, StartsOver, SyncInvariant, SessionKnown
  <2>2. UNCHANGED <<client, sequence, isOpen, received, pending, phaseOf,
                    worker, carries, peer, upward, downward, got>>
    BY <2>1 DEF nativeVars, workerVars, serverVars
  <2>3. wanted' \in BOOLEAN /\ following' \in BOOLEAN
    BY <1>1, Zenon DEF Enters, ServiceOff, syncVars, mainVars, StartsOver, SyncInvariant,
                       SyncTypes, Flags
  <2>4. Flags'
    BY <2>2, <2>3, Zenon DEF Flags, SyncInvariant, SyncTypes
  <2>5. Data'
    BY <2>2 DEF SyncInvariant, SyncTypes, Data
  <2>6. Carried' /\ OwnSession' /\ SessionKnown' /\ InOrder'
    BY <2>2 DEF SyncInvariant, SyncTypes, Carried, OwnSession, SessionKnown, InOrder, LastUp, After
  <2> QED
    BY <2>4, <2>5, <2>6 DEF SyncInvariant, SyncTypes
<1>2. ASSUME ServiceOff, client # "idle" PROVE SyncInvariant'
  <2>1. wanted' \in BOOLEAN
    BY <1>2, Zenon DEF ServiceOff
  <2> QED
    BY <1>2, <2>1, CloseKeeps DEF ServiceOff
<1>3. ASSUME Disconnect PROVE SyncInvariant'
  <2>1. wanted' \in BOOLEAN
    BY <1>3, Zenon DEF Disconnect, SyncInvariant, SyncTypes, Flags
  <2> QED
    BY <1>3, <2>1, CloseKeeps DEF Disconnect
<1>4. ASSUME ServiceGreets PROVE SyncInvariant'
  BY <1>4, SendKeeps DEF ServiceGreets, Proceeds, Asked
<1>5. ASSUME ServiceJoins PROVE SyncInvariant'
  BY <1>5, SendKeeps DEF ServiceJoins, Proceeds, TakesWords, Asked
<1>6. ASSUME SendInput PROVE SyncInvariant'
  BY <1>6, SendKeeps DEF SendInput, Asked
<1>7. ASSUME Service PROVE SyncInvariant'
  BY <1>3, <1>4, <1>5, <1>7, OpenKeeps, TakeKeeps DEF Service, ServiceFailed, ServiceUnexpected
<1>8. ASSUME NEW e \in Workers, Works(e) \/ ConnectFails(e) PROVE SyncInvariant'
  <2>1. CASE ConnectFails(e)
    BY <2>1, MoveKeeps DEF ConnectFails, nativeVars, serverVars
  <2> QED
    BY <1>8, <2>1, ConnectsKeeps, LooksKeeps, SendsFrameKeeps, SentFrameKeeps, ReceivesKeeps,
       DeliversKeeps, EndsKeeps DEF Works
<1>9. ASSUME NEW e \in Workers, ServerReads(e) PROVE SyncInvariant'
  BY <1>9, DropsKeeps, WelcomeKeeps DEF ServerReads
<1>10. ASSUME NEW e \in Workers, ServerRefuses(e) \/ IdleCloses(e) \/ Breaks(e)
       PROVE  SyncInvariant'
  BY <1>10, DropsKeeps DEF ServerRefuses, IdleCloses, Breaks
<1> QED
  BY <1>1, <1>2, <1>6, <1>7, <1>8, <1>9, <1>10, TellsKeeps DEF SyncNext

\* Whatever the worker of an earlier session still does, wherever it was when its
\* session was closed, the main thread is handed nothing of it and what it has
\* pending is not taken from it; nothing is left pending in a closed session.
THEOREM SessionsStayApart == SyncSpec => []SyncInv
<1>1. SyncInvariant => SyncInv
  BY TypesMean DEF SyncInvariant, SyncTypes, SyncInv
<1> QED
  BY <1>1, SyncInitHolds, SyncStep, PTL DEF SyncSpec

\* What the client hands over is sent once and in the order of its sequence, which
\* starts again after its last: no message is lost between the threads, sent twice
\* or taken by the worker of another session, and this also while sessions are
\* closed and opened again.
THEOREM WordsGoInOrder == SyncSpec => InSequence
<1>1. SyncInvariant /\ [SyncNext]_syncVars =>
        [\A e \in Workers :
           worker[e] = "sending" /\ worker'[e] = "sent" =>
             LET m == upward'[e][Len(upward'[e])]
                 last == IF upward[e] = <<>> THEN got[e] ELSE upward[e][Len(upward[e])].seq
             IN m.seq = (last % LastSequence) + 1]_syncVars
  <2> SUFFICES ASSUME SyncInvariant, SyncNext,
                      NEW e \in Workers, worker[e] = "sending", worker'[e] = "sent"
               PROVE  upward'[e][Len(upward'[e])].seq = After(LastUp(e))
    BY DEF After, LastUp
  <2>1. SendsFrame(e)
    BY SentOnly
  <2>2. peer[e] # "none" /\ upward' = [upward EXCEPT ![e] = Append(@, carries[e])]
    <3>1. worker \in [Workers -> {"none", "connecting", "looking", "sending", "sent",
                                   "receiving", "delivering", "ending"}]
      BY DEF SyncInvariant, SyncTypes, Data
    <3> QED
      BY <2>1, <3>1 DEF SendsFrame, Goes
  <2>3. upward[e] \in Seq(Words) /\ upward'[e] = Append(upward[e], carries[e])
    BY <2>2 DEF SyncInvariant, SyncTypes, Data
  <2>4. upward'[e][Len(upward'[e])] = carries[e]
    BY <2>3
  <2> QED
    BY <2>2, <2>4 DEF SyncInvariant, InOrder
<1> QED
  BY <1>1, SyncInitHolds, SyncStep, PTL DEF SyncSpec, InSequence

-----------------------------------------------------------------------------
(* The match.                                                                *)


\* The strengthening of SeatsMatchPlayers that every step preserves: ids are
\* given out once, in increasing order, and a free slot has no seat.
SeatInv ==
  /\ route \in [Slots -> Route]
  /\ seat \in [Slots -> Seat]
  /\ pid \in [Slots -> 0 .. MaxPlayerId]
  /\ life \in [Ids -> Life]
  /\ nextId \in Nat \ {0}
  /\ \A s \in Slots : route[s] = "free" => seat[s] = "none"
  /\ \A s \in Seated("player") : pid[s] < nextId
  /\ SeatsMatchPlayers

\* The roster l holds exactly the seated players, one seat each.
Matches(l) ==
  /\ l \in [Ids -> Life]
  /\ Roster(l) = SeatedIds
  /\ \A s, t \in Seated("player") : pid[s] = pid[t] => s = t

\* What a step does to the slots in lost, seats and arena together.
Releases(l, lost) ==
  /\ route' = [s \in Slots |-> IF s \in lost THEN "free" ELSE route[s]]
  /\ seat' = [s \in Slots |-> IF s \in lost THEN "none" ELSE seat[s]]
  /\ pid' = [s \in Slots |-> IF s \in lost THEN 0 ELSE pid[s]]
  /\ life' = Without(l, Removed(lost))
  /\ UNCHANGED nextId

\* Releasing any set of slots removes exactly their players from the arena.
LEMMA ReleaseKeepsSeats ==
  ASSUME SeatInv, NEW l, Matches(l), NEW lost \in SUBSET Slots, Releases(l, lost)
  PROVE  SeatInv'
<1> USE DEF SeatInv, Releases, Matches
<1>1. /\ route' \in [Slots -> Route] /\ seat' \in [Slots -> Seat]
      /\ pid' \in [Slots -> 0 .. MaxPlayerId] /\ nextId' \in Nat \ {0}
  <2>1. 0 \in 0 .. MaxPlayerId /\ "none" \in Seat /\ "free" \in Route
    BY MatchAssumption DEF Seat, Route
  <2> QED
    BY <2>1
<1>2. life' \in [Ids -> Life]
  BY DEF Without, Life
<1>3. \A s \in Slots : route'[s] = "free" => seat'[s] = "none"
  OBVIOUS
<1>4. Seated("player")' = Seated("player") \ lost
  BY DEF Seated
<1>5. \A s \in Seated("player")' : s \in Seated("player") /\ pid'[s] = pid[s]
  BY <1>4 DEF Seated
<1>6. \A s \in Seated("player")' : pid'[s] < nextId'
  BY <1>5
<1>7. Players' = Roster(l) \ Removed(lost)
  BY DEF Players, Roster, Without
<1>8. SeatedIds' = {pid[s] : s \in Seated("player")'}
  <2>1. SeatedIds' = {pid'[s] : s \in Seated("player")'}
    BY DEF SeatedIds
  <2>2. \A s \in Seated("player")' : pid'[s] = pid[s]
    BY <1>5
  <2> HIDE DEF Releases
  <2> QED
    BY <2>1, <2>2
<1>9. Players' = SeatedIds'
  <2>1. Removed(lost) = {pid[s] : s \in lost \cap Seated("player")}
    BY DEF Removed
  <2>2. Roster(l) = {pid[s] : s \in Seated("player")}
    BY DEF SeatedIds
  <2>3. ASSUME NEW s \in Seated("player") \ lost PROVE pid[s] \notin Removed(lost)
    BY <2>1
  <2>4. SeatedIds' \subseteq Players'
    BY <1>4, <1>7, <1>8, <2>2, <2>3
  <2>5. Players' \subseteq SeatedIds'
    BY <1>4, <1>7, <1>8, <2>1, <2>2
  <2> QED
    BY <2>4, <2>5
<1>10. \A s, t \in Seated("player")' : pid'[s] = pid'[t] => s = t
  BY <1>5
<1> QED
  BY <1>1, <1>2, <1>3, <1>6, <1>9, <1>10 DEF SeatsMatchPlayers

\* Falling changes no roster.
LEMMA FallsKeepRoster ==
  ASSUME NEW l \in [Ids -> Life], NEW fell \in SUBSET Alive(l), NEW onSpawn
  PROVE  Falls(l, fell, onSpawn) \in [Ids -> Life]
         /\ Roster(Falls(l, fell, onSpawn)) = Roster(l)
BY DEF Falls, Roster, Alive, Life, Fallen

\* Respawning changes no roster.
LEMMA RespawnKeepsRoster ==
  ASSUME NEW l \in [Ids -> Life]
  PROVE  Respawned(l) \in [Ids -> Life] /\ Roster(Respawned(l)) = Roster(l)
BY DEF Respawned, Roster, Life, Fallen

\* Whatever a tick ends with, a roster that matched the seats still does.
LEMMA SettleKeepsSeats ==
  ASSUME SeatInv, NEW l, Matches(l), NEW tr, NEW due, NEW lost \in SUBSET Slots,
         Settle(l, tr, due, lost), UNCHANGED nextId
  PROVE  SeatInv'
<1>1. Matches(Respawned(l))
  BY RespawnKeepsRoster DEF Matches
<1>2. CASE Broadcast(l, tr, lost)
  <2>1. Releases(l, lost)
    BY <1>2 DEF Broadcast, Releases
  <2> QED
    BY <2>1, ReleaseKeepsSeats
<1>3. CASE Broadcast(Respawned(l), TrainingRespawned(tr, l), lost)
  <2>1. Releases(Respawned(l), lost)
    BY <1>3 DEF Broadcast, Releases
  <2> QED
    BY <1>1, <2>1, ReleaseKeepsSeats
<1>4. CASE life' = l /\ UNCHANGED <<route, seat, pid>>
  BY <1>4 DEF SeatInv, Matches, SeatsMatchPlayers, SeatedIds, Seated, Players
<1> QED
  BY <1>2, <1>3, <1>4 DEF Settle

\* A tick settles a roster that has lost nobody to those who fell in it.
LEMMA AdvanceSettles ==
  ASSUME NEW l, Matches(l), NEW tr, NEW w, Advance(l, tr, w)
  PROVE  /\ UNCHANGED nextId
         /\ \E m, due : \E lost \in SUBSET Slots : Matches(m) /\ Settle(m, tr, due, lost)
<1>1. PICK inputs \in SUBSET Alive(l) : \E shots \in SUBSET (Alive(l) \ inputs) :
        \E onSpawn \in SUBSET (inputs \cup shots) :
        \E lost \in SUBSET (Seated("player") \cup Seated("spectator")) : \E due :
          Settle(Falls(l, inputs \cup shots, onSpawn), tr, due, lost)
  BY Zenon DEF Advance
<1>2. PICK shots \in SUBSET (Alive(l) \ inputs) :
        \E onSpawn \in SUBSET (inputs \cup shots) :
        \E lost \in SUBSET (Seated("player") \cup Seated("spectator")) : \E due :
          Settle(Falls(l, inputs \cup shots, onSpawn), tr, due, lost)
  BY <1>1
<1>3. PICK onSpawn \in SUBSET (inputs \cup shots),
           lost \in SUBSET (Seated("player") \cup Seated("spectator")) :
        \E due : Settle(Falls(l, inputs \cup shots, onSpawn), tr, due, lost)
  BY <1>2
<1> DEFINE m == Falls(l, inputs \cup shots, onSpawn)
<1>4. inputs \cup shots \in SUBSET Alive(l) /\ lost \in SUBSET Slots
  BY DEF Seated
<1>5. Matches(m)
  BY <1>4, FallsKeepRoster DEF Matches
<1> HIDE DEF m
<1>6. UNCHANGED nextId
  BY DEF Advance
<1> QED
  BY <1>3, <1>4, <1>5, <1>6 DEF m

\* A tick over a roster that matches the seats leaves one that matches.
LEMMA AdvanceKeepsSeats ==
  ASSUME SeatInv, NEW l, Matches(l), NEW tr, NEW w, Advance(l, tr, w)
  PROVE  SeatInv'
BY AdvanceSettles, SettleKeepsSeats

\* Every step of the server keeps seats and players in step.
LEMMA StepKeepsSeats == SeatInv /\ [Next]_vars => SeatInv'
<1> SUFFICES ASSUME SeatInv, [Next]_vars PROVE SeatInv'
  OBVIOUS
<1>0. Matches(life)
  BY DEF SeatInv, Matches, SeatsMatchPlayers, Players
<1>1. ASSUME NEW s \in Slots, Connect(s) PROVE SeatInv'
  <2>1. seat' = seat
    BY <1>1 DEF Connect, SeatInv, Seat
  <2> QED
    BY <1>1, <2>1
       DEF Connect, Route, match, arena, SeatInv, SeatsMatchPlayers, SeatedIds, Seated, Players
<1>2. ASSUME NEW s \in Slots, NEW r \in Route, Upgrade(s, r) PROVE SeatInv'
  BY <1>2 DEF Upgrade, SeatInv, SeatsMatchPlayers, SeatedIds, Seated, Players, match, arena
<1>3. ASSUME NEW s \in Slots, Leave(s) PROVE SeatInv'
  <2>1. Releases(life, {s})
    BY <1>3 DEF Leave, Releases, SeatInv
  <2> QED
    BY <1>0, <2>1, ReleaseKeepsSeats
<1>4. ASSUME NEW s \in Slots, NEW role, JoinAccepted(s, role) PROVE SeatInv'
  <2>1. nextId \in Ids /\ nextId' = nextId + 1
    BY <1>4 DEF JoinAccepted, HasRoom, SeatInv, Ids
  <2>2. CASE role = "spectator"
    <3>1. seat' = [seat EXCEPT ![s] = "spectator"] /\ UNCHANGED <<pid, life, route>>
      BY <1>4, <2>2 DEF JoinAccepted
    <3>2. seat[s] = "none" /\ route[s] # "free"
      BY <1>4, <2>2 DEF JoinAccepted, Asks, RolesOf
    <3>3. Seated("player")' = Seated("player") /\ SeatedIds' = SeatedIds
      BY <3>1, <3>2 DEF Seated, SeatedIds, SeatInv
    <3> QED
      <4>1. SeatsMatchPlayers'
        BY <3>1, <3>3 DEF SeatInv, SeatsMatchPlayers, Players
      <4>2. \A t \in Seated("player")' : pid'[t] < nextId'
        BY <2>1, <3>1, <3>3 DEF SeatInv, Seated
      <4>3. seat' \in [Slots -> Seat]
        BY <3>1 DEF SeatInv, Seat
      <4>4. \A t \in Slots : route'[t] = "free" => seat'[t] = "none"
        BY <3>1, <3>2 DEF SeatInv
      <4> QED
        BY <2>1, <3>1, <4>1, <4>2, <4>3, <4>4 DEF SeatInv
  <2>3. CASE role # "spectator"
    <3>1. /\ seat' = [seat EXCEPT ![s] = "player"]
          /\ pid' = [pid EXCEPT ![s] = nextId]
          /\ life' = [life EXCEPT ![nextId] = "alive"]
          /\ route' = route
      BY <1>4, <2>3 DEF JoinAccepted
    <3>2. seat[s] = "none" /\ route[s] # "free"
      BY <1>4 DEF JoinAccepted, Asks, RolesOf
    <3>3. Seated("player")' = Seated("player") \cup {s} /\ s \notin Seated("player")
      BY <3>1, <3>2 DEF Seated, SeatInv
    <3>4. \A t \in Seated("player") : pid'[t] = pid[t] /\ pid[t] < nextId
      BY <3>1, <3>3 DEF Seated, SeatInv
    <3>5. pid'[s] = nextId
      BY <3>1 DEF SeatInv
    <3>6. SeatedIds' = SeatedIds \cup {nextId}
      BY <3>3, <3>4, <3>5 DEF SeatedIds
    <3>7. Players' = Players \cup {nextId}
      BY <2>1, <3>1 DEF Players, Roster, SeatInv
    <3>8. SeatsMatchPlayers'
      BY <3>3, <3>4, <3>5, <3>6, <3>7 DEF SeatInv, SeatsMatchPlayers
    <3>9. \A t \in Seated("player")' : pid'[t] < nextId'
      BY <2>1, <3>3, <3>4, <3>5 DEF SeatInv, Seated
    <3>10. seat' \in [Slots -> Seat] /\ life' \in [Ids -> Life]
      BY <3>1 DEF SeatInv, Seat, Life
    <3>11. pid' \in [Slots -> 0 .. MaxPlayerId]
      BY <2>1, <3>1 DEF SeatInv, Ids
    <3> QED
      BY <2>1, <3>1, <3>2, <3>8, <3>9, <3>10, <3>11 DEF SeatInv
  <2> QED
    BY <2>2, <2>3
<1>5. ASSUME NEW s \in Slots, NEW role, JoinRefused(s, role) PROVE SeatInv'
  BY <1>5 DEF JoinRefused, conns, SeatInv, SeatsMatchPlayers, SeatedIds, Seated, Players
<1>6. ASSUME NEW s \in Slots, NEW role, JoinUnanswered(s, role) PROVE SeatInv'
  <2>1. nextId' = nextId + 1 /\ UNCHANGED <<seat, pid, life>>
    BY <1>6 DEF JoinUnanswered, arena
  <2>2. seat[s] = "none" /\ route' = [route EXCEPT ![s] = "free"]
    BY <1>6 DEF JoinUnanswered, Asks
  <2>3. \A t \in Seated("player") : pid[t] < nextId'
    BY <2>1 DEF SeatInv, Seated
  <2> QED
    BY <2>1, <2>2, <2>3 DEF Route, SeatInv, SeatsMatchPlayers, SeatedIds, Seated, Players
<1>7. ASSUME NEW s \in Slots, NEW m \in Maps, CastVote(s, m) PROVE SeatInv'
  BY <1>7 DEF CastVote, match, arena, SeatInv, SeatsMatchPlayers, SeatedIds, Seated, Players
<1>8. ASSUME NEW s \in Slots, NEW t \in Slots, Kick(s, t) PROVE SeatInv'
  <2>1. /\ seat' = [seat EXCEPT ![t] = "none"]
        /\ pid' = [pid EXCEPT ![t] = 0]
        /\ life' = Without(life, {pid[t]})
        /\ UNCHANGED <<route, nextId>>
        /\ t \in Seated("player")
    BY <1>8 DEF Kick, Seated
  <2>2. Seated("player")' = Seated("player") \ {t}
    BY <2>1 DEF Seated, SeatInv
  <2>3. \A u \in Seated("player")' : u \in Seated("player") /\ pid'[u] = pid[u]
    BY <2>1, <2>2 DEF SeatInv, Seated
  <2>4. SeatedIds' = SeatedIds \ {pid[t]}
    BY <2>1, <2>2, <2>3 DEF SeatedIds, SeatInv, SeatsMatchPlayers
  <2>5. Players' = Players \ {pid[t]}
    BY <2>1 DEF Players, Roster, Without
  <2>6. SeatsMatchPlayers'
    BY <2>3, <2>4, <2>5 DEF SeatInv, SeatsMatchPlayers
  <2>7. seat' \in [Slots -> Seat] /\ life' \in [Ids -> Life]
    BY <2>1 DEF SeatInv, Seat, Without, Life
  <2>8. pid' \in [Slots -> 0 .. MaxPlayerId]
    <3>1. 0 \in 0 .. MaxPlayerId
      BY MatchAssumption
    <3> QED
      BY <2>1, <3>1 DEF SeatInv
  <2>9. \A u \in Slots : route'[u] = "free" => seat'[u] = "none"
    BY <2>1 DEF SeatInv
  <2>10. \A u \in Seated("player")' : pid'[u] < nextId'
    BY <2>1, <2>3 DEF SeatInv
  <2>11. route' \in [Slots -> Route] /\ nextId' \in Nat \ {0}
    BY <2>1 DEF SeatInv
  <2> QED
    BY <2>6, <2>7, <2>8, <2>9, <2>10, <2>11, Zenon DEF SeatInv
<1>9. ASSUME NEW s \in Slots, StartMapVote(s) PROVE SeatInv'
  BY <1>9 DEF StartMapVote, arena, SeatInv, SeatsMatchPlayers, SeatedIds, Seated, Players
<1>10. CASE Tick
  <2>1. CASE TickPlays \/ TickBreaks
    BY <1>0, <2>1, AdvanceKeepsSeats DEF TickPlays, TickBreaks
  <2>2. CASE TickTransitions
    <3> DEFINE l == [i \in Ids |-> IF i \in SeatedIds THEN "alive" ELSE "out"]
    <3>1. Matches(l)
      BY DEF Matches, Roster, SeatInv, SeatsMatchPlayers, Players, Life
    <3>2. Advance(l, FALSE, 0)
      BY <2>2 DEF TickTransitions
    <3> QED
      BY <3>1, <3>2, AdvanceKeepsSeats
  <2>3. CASE TransitionFails
    BY <2>3
       DEF TransitionFails, conns, arena, SeatInv, SeatsMatchPlayers, SeatedIds, Seated, Players
  <2> QED
    BY <1>10, <2>1, <2>2, <2>3 DEF Tick
<1>11. CASE UNCHANGED vars
  BY <1>11 DEF vars, conns, arena, SeatInv, SeatsMatchPlayers, SeatedIds, Seated, Players
<1> QED
  BY <1>1, <1>2, <1>3, <1>4, <1>5, <1>6, <1>7, <1>8, <1>9, <1>10, <1>11 DEF Next

\* An empty server has neither seats nor players.
LEMMA InitialSeats == Init => SeatInv
<1> SUFFICES ASSUME Init PROVE SeatInv
  OBVIOUS
<1>1. seat \in [Slots -> Seat] /\ life \in [Ids -> Life]
  BY DEF Init, Seat, Life
<1>2. pid \in [Slots -> 0 .. MaxPlayerId]
  <2>1. 0 \in 0 .. MaxPlayerId
    BY MatchAssumption
  <2> QED
    BY <2>1 DEF Init
<1>3. Seated("player") = {} /\ Players = {}
  BY DEF Init, Seated, Players, Roster
<1>4. route \in [Slots -> Route]
  BY DEF Init, Route
<1>5. nextId \in Nat \ {0} /\ \A s \in Slots : route[s] = "free" => seat[s] = "none"
  BY DEF Init
<1> QED
  BY <1>1, <1>2, <1>3, <1>5, <1>4 DEF SeatInv, SeatsMatchPlayers, SeatedIds

\* The simulation holds exactly the seated players, one seat each, whatever
\* joins, leaves, kicks, failing sends, waves and map changes come together.
THEOREM SeatsAndPlayersAgree == Spec => []SeatsMatchPlayers
<1>1. SeatInv => SeatsMatchPlayers
  BY DEF SeatInv
<1> QED
  BY <1>1, InitialSeats, StepKeepsSeats, PTL DEF Spec

-----------------------------------------------------------------------------
\* A wave that is scheduled waits at least one tick and at most the cap.
LEMMA IntervalCapped ==
  ASSUME NEW l, Roster(l) # {}
  PROVE  Interval(l) \in 1 .. RespawnCap
<1>1. Roster(l) \subseteq Ids /\ IsFiniteSet(Ids)
  BY MatchAssumption, FS_Interval DEF Roster, Ids
<1>2. IsFiniteSet(Roster(l))
  BY <1>1, FS_Subset
<1> DEFINE n == Cardinality(Roster(l)) * RespawnUnit
<1>3. n \in Nat \ {0}
  <2>1. Cardinality(Roster(l)) \in Nat \ {0}
    BY <1>2, FS_CardinalityType, FS_EmptySet
  <2> DEFINE c == Cardinality(Roster(l))
  <2> HIDE DEF c
  <2>2. c \in Nat \ {0} /\ RespawnUnit \in Nat \ {0}
    BY <2>1, MatchAssumption DEF c
  <2>3. c * RespawnUnit \in Nat \ {0}
    BY <2>2
  <2> QED
    BY <2>3 DEF c
<1>4. Interval(l) = IF n > RespawnCap THEN RespawnCap ELSE n
  BY DEF Interval
<1> HIDE DEF n
<1> QED
  BY <1>3, <1>4, MatchAssumption

\* Scheduling never cancels a wave, and leaves one whenever somebody fell.
LEMMA ScheduleWaits ==
  ASSUME NEW w \in Nat, NEW l, NEW fell, fell # {} => Roster(l) # {}
  PROVE  /\ Schedule(w, l, fell) \in Nat
         /\ w > 0 => Schedule(w, l, fell) > 0
         /\ fell # {} => Schedule(w, l, fell) > 0
         /\ fell = {} => Schedule(w, l, fell) = w
<1>1. CASE fell # {} /\ w = 0
  BY <1>1, IntervalCapped DEF Schedule
<1>2. CASE ~(fell # {} /\ w = 0)
  BY <1>2 DEF Schedule
<1> QED
  BY <1>1, <1>2

\* A tick from an arena whose fallen players wait ends in such an arena.
LEMMA AdvanceKeepsWave ==
  ASSUME NEW l, NEW tr, NEW w \in Nat, Dead(l) # {} => w > 0, Advance(l, tr, w)
  PROVE  wave' \in Nat /\ FallenAwaitWave'
<1>1. PICK inputs \in SUBSET Alive(l) : \E shots \in SUBSET (Alive(l) \ inputs) :
        \E onSpawn \in SUBSET (inputs \cup shots) :
        \E lost \in SUBSET (Seated("player") \cup Seated("spectator")) :
          LET w1 == Schedule(w, l, inputs)
              w2 == IF w1 = 0 THEN 0 ELSE w1 - 1
              w3 == Schedule(w2, l, shots)
          IN /\ wave' = w3
             /\ Settle(Falls(l, inputs \cup shots, onSpawn), tr, w1 > 0 /\ w3 = 0, lost)
  BY Zenon DEF Advance
<1>2. PICK shots \in SUBSET (Alive(l) \ inputs) :
        \E onSpawn \in SUBSET (inputs \cup shots) :
        \E lost \in SUBSET (Seated("player") \cup Seated("spectator")) :
          LET w1 == Schedule(w, l, inputs)
              w2 == IF w1 = 0 THEN 0 ELSE w1 - 1
              w3 == Schedule(w2, l, shots)
          IN /\ wave' = w3
             /\ Settle(Falls(l, inputs \cup shots, onSpawn), tr, w1 > 0 /\ w3 = 0, lost)
  BY <1>1
<1>3. PICK onSpawn \in SUBSET (inputs \cup shots),
           lost \in SUBSET (Seated("player") \cup Seated("spectator")) :
          LET w1 == Schedule(w, l, inputs)
              w2 == IF w1 = 0 THEN 0 ELSE w1 - 1
              w3 == Schedule(w2, l, shots)
          IN /\ wave' = w3
             /\ Settle(Falls(l, inputs \cup shots, onSpawn), tr, w1 > 0 /\ w3 = 0, lost)
  BY <1>2
<1> DEFINE w1 == Schedule(w, l, inputs)
           w2 == IF w1 = 0 THEN 0 ELSE w1 - 1
           w3 == Schedule(w2, l, shots)
           m  == Falls(l, inputs \cup shots, onSpawn)
<1>4. (inputs # {} => Roster(l) # {}) /\ (shots # {} => Roster(l) # {})
  BY DEF Alive, Roster
<1>5. /\ w1 \in Nat /\ (w > 0 => w1 > 0) /\ (inputs # {} => w1 > 0)
  BY <1>4, ScheduleWaits
<1>6. w2 \in Nat
  BY <1>5
<1>7. w3 \in Nat /\ (shots # {} => w3 > 0)
  <2> HIDE DEF w2
  <2> QED
    BY <1>4, <1>6, ScheduleWaits
<1>8. wave' = w3 /\ Settle(m, tr, w1 > 0 /\ w3 = 0, lost)
  BY <1>3
<1>9. Dead(m) # {} => Dead(l) # {} \/ inputs # {} \/ shots # {}
  BY DEF Dead, Falls
<1> HIDE DEF w1, w2, w3, m
<1>10. CASE w3 > 0
  BY <1>7, <1>8, <1>10 DEF FallenAwaitWave
<1>11. CASE w3 = 0 /\ w1 > 0
  <2>1. CASE Broadcast(Respawned(m), TrainingRespawned(tr, m), lost)
    BY <1>8, <1>11, <2>1 DEF Broadcast, Without, Respawned, Dead, Fallen, FallenAwaitWave
  <2>2. CASE up' = FALSE
    BY <1>8, <1>11, <2>2 DEF FallenAwaitWave
  <2> QED
    BY <1>8, <1>11, <2>1, <2>2 DEF Settle
<1>12. CASE w3 = 0 /\ w1 = 0
  <2>1. Dead(m) = {}
    BY <1>5, <1>7, <1>9, <1>12
  <2>2. Broadcast(m, tr, lost)
    BY <1>8, <1>12 DEF Settle
  <2> QED
    BY <1>8, <1>12, <2>1, <2>2 DEF Broadcast, Without, Dead, Fallen, FallenAwaitWave
<1> QED
  BY <1>5, <1>7, <1>10, <1>11, <1>12

\* A fallen player always has a respawn wave to wait for, whatever leaves,
\* respawns and map changes come between its fall and its wave.
THEOREM TheFallenAwaitAWave == Spec => []FallenAwaitWave
<1> DEFINE WaveInv == SeatInv /\ wave \in Nat /\ FallenAwaitWave
<1>1. Init => WaveInv
  BY InitialSeats DEF Init, FallenAwaitWave, Dead, Fallen
<1>2. WaveInv /\ [Next]_vars => WaveInv'
  <2> SUFFICES ASSUME WaveInv, [Next]_vars PROVE WaveInv'
    OBVIOUS
  <2>0. SeatInv'
    BY StepKeepsSeats
  <2> USE <2>0 DEF FallenAwaitWave, Dead, Fallen, arena
  <2>1. ASSUME NEW s \in Slots, Connect(s) PROVE WaveInv'
    BY <2>1 DEF Connect
  <2>2. ASSUME NEW s \in Slots, NEW r \in Route, Upgrade(s, r) PROVE WaveInv'
    BY <2>2 DEF Upgrade
  <2>3. ASSUME NEW s \in Slots, Leave(s) PROVE WaveInv'
    BY <2>3 DEF Leave, Without
  <2>4. ASSUME NEW s \in Slots, NEW role, JoinAccepted(s, role) PROVE WaveInv'
    <3>1. life \in [Ids -> Life]
      BY DEF SeatInv
    <3> QED
      BY <2>4, <3>1 DEF JoinAccepted
  <2>5. ASSUME NEW s \in Slots, NEW role, JoinRefused(s, role) \/ JoinUnanswered(s, role)
        PROVE  WaveInv'
    BY <2>5 DEF JoinRefused, JoinUnanswered
  <2>6. ASSUME NEW s \in Slots, NEW m \in Maps, CastVote(s, m) PROVE WaveInv'
    BY <2>6 DEF CastVote
  <2>7. ASSUME NEW s \in Slots, NEW t \in Slots, Kick(s, t) PROVE WaveInv'
    BY <2>7 DEF Kick, Without
  <2>8. ASSUME NEW s \in Slots, StartMapVote(s) PROVE WaveInv'
    BY <2>8 DEF StartMapVote
  <2>9. CASE TickPlays \/ TickBreaks
    BY <2>9, AdvanceKeepsWave DEF TickPlays, TickBreaks
  <2>10. CASE TickTransitions
    <3> DEFINE l == [i \in Ids |-> IF i \in SeatedIds THEN "alive" ELSE "out"]
    <3>1. Dead(l) = {} /\ Advance(l, FALSE, 0)
      BY <2>10 DEF TickTransitions
    <3> HIDE DEF l
    <3> QED
      BY <3>1, AdvanceKeepsWave
  <2>11. CASE TransitionFails
    BY <2>11 DEF TransitionFails
  <2>12. CASE UNCHANGED vars
    BY <2>12 DEF vars
  <2> QED
    BY <2>1, <2>2, <2>3, <2>4, <2>5, <2>6, <2>7, <2>8, <2>9, <2>10, <2>11, <2>12 DEF Next, Tick
<1> QED
  BY <1>1, <1>2, PTL DEF Spec

-----------------------------------------------------------------------------
\* A tick that starts from the roster of the seated players ends training only
\* with the last of them, or respawning one alone.
LEMMA AdvanceKeepsTraining ==
  ASSUME SeatInv, TrainingHasPlayers, NEW l, Matches(l), NEW tr \in BOOLEAN,
         tr => training, NEW w, Advance(l, tr, w)
  PROVE  TrainingHasPlayers'
<1>1. PICK m, due : Matches(m) /\ \E lost \in SUBSET Slots : Settle(m, tr, due, lost)
  BY AdvanceSettles
<1>10. PICK lost \in SUBSET Slots : Settle(m, tr, due, lost)
  BY <1>1
<1>2. Roster(m) = Players /\ Roster(Respawned(m)) = Players
  BY <1>1, RespawnKeepsRoster DEF SeatInv, SeatsMatchPlayers, Matches
<1>3. nextId' = nextId
  BY AdvanceSettles
<1>4. ASSUME NEW n, NEW t \in BOOLEAN, Broadcast(n, t, lost), Roster(n) = Players, t => tr
      PROVE  TrainingHasPlayers'
  <2>1. Players' = Players \ Removed(lost)
    BY <1>4 DEF Broadcast, Without, Players, Roster
  <2>2. training' => t /\ (Removed(lost) = {} \/ Players \ Removed(lost) # {})
    BY <1>4 DEF Broadcast, TrainingAfter
  <2> QED
    BY <1>3, <1>4, <2>1, <2>2 DEF TrainingHasPlayers
<1>5. CASE Broadcast(m, tr, lost)
  BY <1>2, <1>4, <1>5
<1>6. CASE Broadcast(Respawned(m), TrainingRespawned(tr, m), lost)
  <2>1. TrainingRespawned(tr, m) \in BOOLEAN /\ (TrainingRespawned(tr, m) => tr)
    BY DEF TrainingRespawned
  <2> QED
    BY <1>2, <1>4, <1>6, <2>1
<1>7. CASE life' = m /\ training' = training
  <2>1. Players' = Players
    BY <1>2, <1>7 DEF Players
  <2> QED
    BY <1>3, <1>7, <2>1 DEF TrainingHasPlayers
<1> QED
  BY <1>10, <1>5, <1>6, <1>7 DEF Settle

\* The roster a map change starts from holds the seated players.
LEMMA TransitionRoster ==
  ASSUME SeatInv
  PROVE  Matches([i \in Ids |-> IF i \in SeatedIds THEN "alive" ELSE "out"])
BY DEF Matches, Roster, SeatInv, SeatsMatchPlayers, Players, Life

\* Training is raised for a player that is admitted with it, and falls with the
\* last one.
LEMMA TrainingStep ==
  SeatInv /\ training \in BOOLEAN /\ TrainingHasPlayers /\ [Next]_vars => TrainingHasPlayers'
<1> SUFFICES ASSUME SeatInv, training \in BOOLEAN, TrainingHasPlayers, [Next]_vars
             PROVE  TrainingHasPlayers'
  OBVIOUS
<1>1. ASSUME UNCHANGED <<life, training>>, nextId' >= nextId, nextId' \in Nat
      PROVE  TrainingHasPlayers'
  <2>1. nextId \in Nat /\ MaxPlayerId \in Nat
    BY MatchAssumption DEF SeatInv
  <2>2. Players' = Players
    BY <1>1 DEF Players
  <2>3. nextId' <= MaxPlayerId => nextId <= MaxPlayerId
    BY <1>1, <2>1
  <2> QED
    BY <1>1, <2>2, <2>3 DEF TrainingHasPlayers
<1>2. nextId \in Nat
  BY DEF SeatInv
<1>3. ASSUME NEW s \in Slots, \/ Connect(s) \/ (\E r \in Route : Upgrade(s, r))
                              \/ (\E m \in Maps : CastVote(s, m)) \/ StartMapVote(s)
      PROVE  TrainingHasPlayers'
  BY <1>1, <1>2, <1>3 DEF Connect, Upgrade, CastVote, StartMapVote, arena
<1>4. ASSUME NEW gone, life' = Without(life, gone), UNCHANGED nextId,
             training' = TrainingAfter(training, life, gone)
      PROVE  TrainingHasPlayers'
  <2>1. Players' = Players \ gone
    BY <1>4 DEF Players, Roster, Without
  <2>2. training' => training /\ (gone = {} \/ Players \ gone # {})
    BY <1>4 DEF TrainingAfter, Players
  <2> QED
    BY <1>4, <2>1, <2>2 DEF TrainingHasPlayers
<1>5. ASSUME NEW s \in Slots, Leave(s) PROVE TrainingHasPlayers'
  BY <1>4, <1>5 DEF Leave
<1>6. ASSUME NEW s \in Slots, NEW t \in Slots, Kick(s, t) PROVE TrainingHasPlayers'
  BY <1>4, <1>6 DEF Kick
<1>7. ASSUME NEW s \in Slots, NEW role, JoinAccepted(s, role) PROVE TrainingHasPlayers'
  <2>1. nextId \in Ids /\ nextId' = nextId + 1 /\ training' = Trains(role)
    BY <1>2, <1>7 DEF JoinAccepted, HasRoom, SeatInv, Ids
  <2>2. CASE role = "spectator"
    <3>1. life' = life /\ training' = training
      BY <1>7, <2>1, <2>2 DEF JoinAccepted, Trains
    <3> QED
      BY <1>1, <1>2, <2>1, <3>1
  <2>3. CASE role # "spectator"
    <3>1. life' = [life EXCEPT ![nextId] = "alive"]
      BY <1>7, <2>3 DEF JoinAccepted
    <3>2. nextId \in Players'
      BY <2>1, <3>1 DEF SeatInv, Players, Roster
    <3> QED
      BY <3>2 DEF TrainingHasPlayers
  <2> QED
    BY <2>2, <2>3
<1>8. ASSUME NEW s \in Slots, NEW role, JoinRefused(s, role) PROVE TrainingHasPlayers'
  <2>1. life' = life /\ nextId' = nextId /\ training' = Trains(role)
    BY <1>8 DEF JoinRefused, conns
  <2>2. Players' = Players
    BY <2>1 DEF Players
  <2>3. CASE role = "training" /\ Players = {} /\ ~training
    <3>1. ~HasRoom(role) /\ Trains(role)
      BY <1>8, <2>3 DEF JoinRefused, Trains
    <3>2. Cardinality(Players) < MaxTrainees
      BY <2>3, FS_EmptySet, MatchAssumption
    <3>3. ~(nextId <= MaxPlayerId)
      BY <2>3, <3>1, <3>2 DEF HasRoom
    <3> QED
      BY <2>1, <3>3 DEF TrainingHasPlayers
  <2>4. CASE ~(role = "training" /\ Players = {} /\ ~training)
    BY <2>1, <2>2, <2>4 DEF Trains, TrainingHasPlayers
  <2> QED
    BY <2>3, <2>4
<1>9. ASSUME NEW s \in Slots, NEW role, JoinUnanswered(s, role) PROVE TrainingHasPlayers'
  BY <1>1, <1>2, <1>9 DEF JoinUnanswered, arena
<1>10. CASE TickPlays \/ TickBreaks
  <2>1. Matches(life) /\ Advance(life, training, wave)
    BY <1>10 DEF TickPlays, TickBreaks, SeatInv, SeatsMatchPlayers, Matches, Players
  <2> QED
    BY <2>1, AdvanceKeepsTraining
<1>11. CASE TickTransitions
  BY <1>11, TransitionRoster, AdvanceKeepsTraining DEF TickTransitions
<1>12. CASE TransitionFails
  BY <1>1, <1>2, <1>12 DEF TransitionFails, conns, arena
<1>13. CASE UNCHANGED vars
  BY <1>1, <1>2, <1>13 DEF vars, conns, arena
<1> QED
  BY <1>3, <1>5, <1>6, <1>7, <1>8, <1>9, <1>10, <1>11, <1>12, <1>13 DEF Next, Tick

-----------------------------------------------------------------------------
\* A tick leaves the wave at most the cap away.
LEMMA AdvanceCapsWave ==
  ASSUME NEW l, NEW tr, NEW w \in 0 .. RespawnCap, Advance(l, tr, w)
  PROVE  wave' \in 0 .. RespawnCap
<1>1. PICK inputs, shots :
        /\ inputs \in SUBSET Alive(l) /\ shots \in SUBSET Alive(l)
        /\ wave' = Schedule(IF Schedule(w, l, inputs) = 0 THEN 0
                            ELSE Schedule(w, l, inputs) - 1, l, shots)
  BY Zenon DEF Advance
<1>2. ASSUME NEW v \in 0 .. RespawnCap, NEW fell \in SUBSET Alive(l)
      PROVE  Schedule(v, l, fell) \in 0 .. RespawnCap
  <2>1. CASE fell # {} /\ v = 0
    <3>1. Roster(l) # {}
      BY <2>1 DEF Alive, Roster
    <3>2. Interval(l) \in 0 .. RespawnCap
      BY <3>1, IntervalCapped
    <3> QED
      BY <2>1, <3>2 DEF Schedule
  <2> QED
    BY <2>1 DEF Schedule
<1> DEFINE w1 == Schedule(w, l, inputs)
<1>3. w1 \in 0 .. RespawnCap
  BY <1>1, <1>2
<1>4. wave' = Schedule(IF w1 = 0 THEN 0 ELSE w1 - 1, l, shots)
  BY <1>1
<1> HIDE DEF w1
<1>5. (IF w1 = 0 THEN 0 ELSE w1 - 1) \in 0 .. RespawnCap
  BY <1>3, MatchAssumption
<1> QED
  BY <1>1, <1>2, <1>4, <1>5

\* A tick keeps the flags Boolean.
LEMMA AdvanceTypes ==
  ASSUME NEW l, Matches(l), NEW tr \in BOOLEAN, training \in BOOLEAN, NEW w, Advance(l, tr, w)
  PROVE  up' \in BOOLEAN /\ training' \in BOOLEAN
<1>1. PICK m, due : \E lost \in SUBSET Slots : Settle(m, tr, due, lost)
  BY AdvanceSettles
<1>2. PICK lost \in SUBSET Slots : Settle(m, tr, due, lost)
  BY <1>1
<1>3. up' \in BOOLEAN
  BY <1>2, Zenon DEF Settle
<1>4. ASSUME NEW n, NEW t \in BOOLEAN, Broadcast(n, t, lost) PROVE training' \in BOOLEAN
  BY <1>4, Zenon DEF Broadcast, TrainingAfter
<1>5. TrainingRespawned(tr, m) \in BOOLEAN
  BY Zenon DEF TrainingRespawned
<1>6. \/ Broadcast(Respawned(m), TrainingRespawned(tr, m), lost)
      \/ training' = training
      \/ Broadcast(m, tr, lost)
  BY <1>2, Zenon DEF Settle
<1>7. training' \in BOOLEAN
  BY <1>4, <1>5, <1>6, Zenon
<1> QED
  BY <1>3, <1>7

\* The types SeatInv leaves out: the clocks, the votes and the flags.
MatchTypes ==
  /\ vote \in [Slots -> Maps \cup {NoVote}]
  /\ phase \in {"active", "intermission"}
  /\ left \in Nat
  /\ map \in Maps
  /\ nextId \in 1 .. MaxPlayerId + 1
ArenaTypes ==
  /\ up \in BOOLEAN
  /\ training \in BOOLEAN
  /\ wave \in 0 .. RespawnCap

\* The clocks, the votes and the ids stay in their ranges.
LEMMA MatchTypesStep == SeatInv /\ MatchTypes /\ [Next]_vars => MatchTypes'
<1> SUFFICES ASSUME SeatInv, MatchTypes, [Next]_vars PROVE MatchTypes'
  OBVIOUS
<1> USE MatchAssumption DEF MatchTypes
<1>1. ASSUME NEW s \in Slots, Connect(s) PROVE MatchTypes'
  BY <1>1 DEF Connect, match
<1>2. ASSUME NEW s \in Slots, NEW r \in Route, Upgrade(s, r) PROVE MatchTypes'
  BY <1>2 DEF Upgrade, match
<1>3. ASSUME NEW s \in Slots, Leave(s) PROVE MatchTypes'
  BY <1>3 DEF Leave, match
<1>4. ASSUME NEW s \in Slots, NEW role, JoinAccepted(s, role) PROVE MatchTypes'
  BY <1>4 DEF JoinAccepted, HasRoom, match
<1>5. ASSUME NEW s \in Slots, NEW role, JoinRefused(s, role) PROVE MatchTypes'
  BY <1>5 DEF JoinRefused, match, conns
<1>6. ASSUME NEW s \in Slots, NEW role, JoinUnanswered(s, role) PROVE MatchTypes'
  BY <1>6 DEF JoinUnanswered, HasRoom, match
<1>7. ASSUME NEW s \in Slots, NEW m \in Maps, CastVote(s, m) PROVE MatchTypes'
  BY <1>7 DEF CastVote, match
<1>8. ASSUME NEW s \in Slots, NEW t \in Slots, Kick(s, t) PROVE MatchTypes'
  BY <1>8 DEF Kick, match
<1>9. ASSUME BeginIntermission, UNCHANGED nextId PROVE MatchTypes'
  BY <1>9 DEF BeginIntermission
<1>10. ASSUME NEW s \in Slots, StartMapVote(s) PROVE MatchTypes'
  BY <1>9, <1>10 DEF StartMapVote
<1>11. CASE TickPlays
  <2>1. UNCHANGED <<nextId, phase, map, vote>> /\ left' = IF left = 0 THEN 0 ELSE left - 1
    BY <1>11 DEF TickPlays, Advance
  <2> QED
    BY <2>1
<1>12. CASE TickBreaks
  <2>1. UNCHANGED nextId /\ BeginIntermission
    BY <1>12 DEF TickBreaks, Advance
  <2> QED
    BY <1>9, <2>1
<1>13. CASE TickTransitions
  <2>1. UNCHANGED nextId /\ phase' = "active" /\ left' = ActiveTicks /\ map' = Elected
    BY <1>13 DEF TickTransitions, Advance
  <2>2. vote' = [s \in Slots |-> IF seat[s] = "player" THEN NoVote ELSE vote[s]]
    BY <1>13 DEF TickTransitions
  <2>3. Elected \in Maps
    BY DEF Elected, Maps
  <2> QED
    BY <2>1, <2>2, <2>3
<1>14. CASE TransitionFails
  BY <1>14 DEF TransitionFails, conns, match
<1>15. CASE UNCHANGED vars
  BY <1>15 DEF vars, conns, match
<1> QED
  BY <1>1, <1>2, <1>3, <1>4, <1>5, <1>6, <1>7, <1>8, <1>10, <1>11, <1>12, <1>13, <1>14, <1>15
     DEF Next, Tick

\* The flags stay Boolean and the wave within its cap.
LEMMA ArenaTypesStep == SeatInv /\ ArenaTypes /\ [Next]_vars => ArenaTypes'
<1> SUFFICES ASSUME SeatInv, ArenaTypes, [Next]_vars PROVE ArenaTypes'
  OBVIOUS
<1>0. Matches(life)
  BY DEF SeatInv, Matches, SeatsMatchPlayers, Players
<1>1. ASSUME up' = up, wave' = wave, training' \in BOOLEAN PROVE ArenaTypes'
  BY <1>1, Zenon DEF ArenaTypes
<1>2. ASSUME NEW l, NEW gone PROVE TrainingAfter(training, l, gone) \in BOOLEAN
  BY Zenon DEF TrainingAfter, ArenaTypes
<1>3. ASSUME NEW s \in Slots, \/ Connect(s) \/ (\E r \in Route : Upgrade(s, r))
                              \/ (\E m \in Maps : CastVote(s, m)) \/ StartMapVote(s)
      PROVE  ArenaTypes'
  <2>1. up' = up /\ wave' = wave /\ training' = training
    BY <1>3, Zenon DEF Connect, Upgrade, CastVote, StartMapVote, arena
  <2> QED
    BY <1>1, <2>1, Zenon DEF ArenaTypes
<1>4. ASSUME NEW s \in Slots, Leave(s) PROVE ArenaTypes'
  BY <1>1, <1>2, <1>4, Zenon DEF Leave
<1>5. ASSUME NEW s \in Slots, NEW t \in Slots, Kick(s, t) PROVE ArenaTypes'
  BY <1>1, <1>2, <1>5, Zenon DEF Kick
<1>6. ASSUME NEW s \in Slots, NEW role,
             JoinAccepted(s, role) \/ JoinRefused(s, role) \/ JoinUnanswered(s, role)
      PROVE  ArenaTypes'
  <2>1. up' = up /\ wave' = wave /\ (training' = Trains(role) \/ training' = training)
    BY <1>6, Zenon DEF JoinAccepted, JoinRefused, JoinUnanswered, arena
  <2>2. Trains(role) \in BOOLEAN /\ training \in BOOLEAN
    BY Zenon DEF Trains, ArenaTypes
  <2> QED
    BY <1>1, <2>1, <2>2, Zenon
<1>7. ASSUME NEW l, Matches(l), NEW tr \in BOOLEAN, NEW w \in 0 .. RespawnCap, Advance(l, tr, w)
      PROVE  ArenaTypes'
  <2>1. wave' \in 0 .. RespawnCap
    BY <1>7, AdvanceCapsWave
  <2>2. up' \in BOOLEAN /\ training' \in BOOLEAN
    BY <1>7, AdvanceTypes DEF ArenaTypes
  <2> QED
    BY <2>1, <2>2, Zenon DEF ArenaTypes
<1>8. CASE TickPlays \/ TickBreaks
  <2>1. Advance(life, training, wave) /\ training \in BOOLEAN /\ wave \in 0 .. RespawnCap
    BY <1>8, Zenon DEF TickPlays, TickBreaks, ArenaTypes
  <2> QED
    BY <1>0, <1>7, <2>1
<1>9. CASE TickTransitions
  <2>1. 0 \in 0 .. RespawnCap /\ FALSE \in BOOLEAN
    BY MatchAssumption
  <2> QED
    BY <1>7, <1>9, <2>1, TransitionRoster DEF TickTransitions
<1>10. CASE TransitionFails
  BY <1>10, Zenon DEF TransitionFails, arena, ArenaTypes
<1>11. CASE UNCHANGED vars
  BY <1>1, <1>11, Zenon DEF vars, arena, ArenaTypes
<1> QED
  BY <1>3, <1>4, <1>5, <1>6, <1>8, <1>9, <1>10, <1>11 DEF Next, Tick

\* Training never outlives its trainees while ids remain: whether they leave,
\* are kicked, lose their connection in a broadcast, or the map changes, the
\* flag falls with the last of them; and every variable keeps its type.
THEOREM TrainingEndsWithTrainees == Spec => []TrainingInv
<1> DEFINE Inv == SeatInv /\ MatchTypes /\ ArenaTypes /\ TrainingHasPlayers
<1>1. Init => Inv
  <2> SUFFICES ASSUME Init PROVE Inv
    OBVIOUS
  <2>1. MatchTypes
    BY MatchAssumption DEF Init, MatchTypes, Maps, NoVote
  <2>2. ArenaTypes
    <3>1. wave \in 0 .. RespawnCap
      BY MatchAssumption DEF Init
    <3> QED
      BY <3>1 DEF Init, ArenaTypes
  <2>3. TrainingHasPlayers
    BY DEF Init, TrainingHasPlayers
  <2> QED
    BY <2>1, <2>2, <2>3, InitialSeats
<1>2. Inv /\ [Next]_vars => Inv'
  <2>1. ArenaTypes => training \in BOOLEAN
    BY DEF ArenaTypes
  <2> QED
    BY <2>1, StepKeepsSeats, MatchTypesStep, ArenaTypesStep, TrainingStep
<1>3. Inv => TrainingInv
  BY DEF TrainingInv, TypeOK, SeatInv, MatchTypes, ArenaTypes
<1> QED
  BY <1>1, <1>2, <1>3, PTL DEF Spec

\* Some of the seats: their number, and that it is not less than nothing.
LEMMA VotesAreNumbers ==
  ASSUME NEW m \in Maps
  PROVE  Votes(m) \in Nat /\ (Votes(m) > 0 => \E s \in Seated("player") : vote[s] = m)
<1> DEFINE V == {s \in Seated("player") : vote[s] = m}
<1>1. MaxConnections \in Nat
  BY MatchAssumption
<1>2. IsFiniteSet(Slots)
  BY <1>1, FS_Interval DEF Slots
<1>3. IsFiniteSet(V)
  BY <1>2, FS_Subset DEF Seated
<1>4. Cardinality(V) \in Nat /\ (V = {} => Cardinality(V) = 0)
  BY <1>3, FS_CardinalityType, FS_EmptySet
<1>5. Votes(m) = Cardinality(V)
  BY DEF Votes
<1>6. ASSUME Votes(m) > 0 PROVE V # {}
  BY <1>4, <1>5, <1>6
<1> QED
  BY <1>4, <1>5, <1>6

\* The map changes only where players vote, and only to what one of those who are
\* seated in that moment voted for: no vote outlives the seat it was cast from.
THEOREM SeatedElect == Spec => ElectedBySeated
<1>1. ASSUME [Next]_vars, map' # map
      PROVE  \E s \in Seated("player") : vote[s] = map'
  <2>1. CASE Tick
    <3>1. ASSUME TickTransitions PROVE map' = Elected
      BY <3>1 DEF TickTransitions
    <3>2. map' = Elected
      BY <1>1, <2>1, <3>1 DEF Tick, TickPlays, TickBreaks, BeginIntermission, TransitionFails, match
    <3>3. Votes(1) \in Nat /\ Votes(2) \in Nat
      BY VotesAreNumbers DEF Maps
    <3>4. (map' = 1 /\ Votes(1) > 0) \/ (map' = 2 /\ Votes(2) > 0)
      BY <1>1, <3>2, <3>3 DEF Elected
    <3> QED
      BY <3>4, VotesAreNumbers DEF Maps
  <2>2. CASE ~Tick
    BY <1>1, <2>2 DEF Next, vars, match, Connect, Upgrade, Leave, JoinAccepted, JoinRefused,
                      JoinUnanswered, CastVote, Kick, StartMapVote, BeginIntermission
  <2> QED
    BY <2>1, <2>2
<1>2. [Next]_vars => [map' # map => \E s \in Seated("player") : vote[s] = map']_vars
  BY <1>1
<1> QED
  BY <1>2, PTL DEF Spec, ElectedBySeated
-----------------------------------------------------------------------------
(* The words of a document.  Every document of the runs is laid out as the   *)
(* same list of parts, whoever wrote it; both readers read those parts back, *)
(* and a seal of equal words is equal, whatever the checksum computes.       *)

\* What every document has, whatever its version.
NodeFields == [id : Int, parent : Int, kind : Int, x : Int, y : Int, z : Int, rotation : Int,
               scaleX : Int, scaleY : Int, scaleZ : Int, color : Int, asset : Int]

NodeOf(n, v) ==
  /\ n \in NodeFields
  /\ v < 2 => n.scaleY = n.scaleX /\ n.scaleZ = n.scaleX /\ n.color = White
  /\ v < 3 => n.asset = 0

\* A node that holds what its version does is one that the version can say, and keeps
\* what the version says.
LEMMA UprightIsNode ==
  ASSUME NEW n \in NodeFields, NEW v \in 1 .. 4
  PROVE  /\ NodeOf(Upright(n, v), v)
         /\ \A f \in {"id", "parent", "kind", "x", "y", "z", "rotation", "scaleX"} :
              Upright(n, v)[f] = n[f]
         /\ v >= 2 => /\ Upright(n, v).scaleY = n.scaleY /\ Upright(n, v).scaleZ = n.scaleZ
                      /\ Upright(n, v).color = n.color
         /\ v >= 3 => Upright(n, v).asset = n.asset
<1> DEFINE u == Upright(n, v)
<1>1. White \in Int
  BY SMT DEF White
<1>2. DOMAIN n = {"id", "parent", "kind", "x", "y", "z", "rotation", "scaleX", "scaleY", "scaleZ",
                  "color", "asset"}
  BY DEF NodeFields
<1>3. /\ DOMAIN u = DOMAIN n
      /\ \A f \in DOMAIN n : u[f] = IF f \in {"scaleY", "scaleZ"} /\ v < 2 THEN n.scaleX
                                   ELSE IF f = "color" /\ v < 2 THEN White
                                   ELSE IF f = "asset" /\ v < 3 THEN 0 ELSE n[f]
      /\ u = [f \in DOMAIN n |-> u[f]]
  BY DEF Upright
<1> HIDE DEF u
<1>4. \A f \in {"id", "parent", "kind", "x", "y", "z", "rotation", "scaleX"} : u[f] = n[f]
  BY <1>2, <1>3
<1>5. /\ v >= 2 => u.scaleY = n.scaleY /\ u.scaleZ = n.scaleZ /\ u.color = n.color
      /\ v < 2 => u.scaleY = n.scaleX /\ u.scaleZ = n.scaleX /\ u.color = White
      /\ v >= 3 => u.asset = n.asset
      /\ v < 3 => u.asset = 0
  BY <1>2, <1>3
<1>6. u \in NodeFields
  <2>1. \A f \in DOMAIN n : n[f] \in Int
    BY <1>2 DEF NodeFields
  <2>2. \A f \in DOMAIN n : u[f] \in Int
    BY <1>1, <1>2, <1>3, <2>1
  <2> QED
    BY <1>2, <1>3, <2>2 DEF NodeFields
<1>7. NodeOf(u, v)
  BY <1>4, <1>5, <1>6 DEF NodeOf
<1> QED
  BY <1>4, <1>5, <1>7 DEF u

\* Nodes with the same fields are the same.
LEMMA NodesEqual ==
  ASSUME NEW n \in NodeFields, NEW h \in NodeFields,
         n.id = h.id, n.parent = h.parent, n.kind = h.kind, n.x = h.x, n.y = h.y, n.z = h.z,
         n.rotation = h.rotation, n.scaleX = h.scaleX, n.scaleY = h.scaleY, n.scaleZ = h.scaleZ,
         n.color = h.color, n.asset = h.asset
  PROVE  n = h
BY DEF NodeFields

\* A signed value comes back from its word, on the page and on the server.
LEMMA SignsReturn ==
  ASSUME NEW value \in Int
  PROVE  /\ EncodeSigned(value) \in Int
         /\ PageSigned(EncodeSigned(value)) = value /\ DecodeSigned(EncodeSigned(value)) = value
<1> DEFINE w == EncodeSigned(value)
<1>1. CASE value < 0
  <2>1. w = -value * 2 - 1
    BY <1>1 DEF EncodeSigned
  <2>2. w \in Int /\ w >= 0 /\ w % 2 = 1 /\ -(w \div 2) - 1 = value
    BY <1>1, <2>1
  <2> QED
    BY <2>2 DEF PageSigned, DecodeSigned
<1>2. CASE ~(value < 0)
  <2>1. w = value * 2
    BY <1>2 DEF EncodeSigned
  <2>2. w \in Int /\ w % 2 = 0 /\ w \div 2 = value
    BY <1>2, <2>1
  <2> QED
    BY <2>2 DEF PageSigned, DecodeSigned
<1> QED
  BY <1>1, <1>2

\* The words of a node.
NodeWords(n, v) ==
  <<n.id, n.parent, n.kind, EncodeSigned(n.x), EncodeSigned(n.y), EncodeSigned(n.z),
    EncodeSigned(n.rotation), n.scaleX>>
  \o (IF v >= 2 THEN <<n.scaleY, n.scaleZ, n.color, 0>> ELSE <<>>)
  \o (IF v >= 3 THEN <<n.asset>> ELSE <<>>)

\* What the words of a node say.
NodeSays(w, n, v) ==
  /\ w \in Seq(Int) /\ Len(w) = Stride(v) /\ Stride(v) \in 8 .. 13
  /\ w[1] = n.id /\ w[2] = n.parent /\ w[3] = n.kind /\ w[4] = EncodeSigned(n.x)
  /\ w[5] = EncodeSigned(n.y) /\ w[6] = EncodeSigned(n.z)
  /\ w[7] = EncodeSigned(n.rotation) /\ w[8] = n.scaleX
  /\ v >= 2 => w[9] = n.scaleY /\ w[10] = n.scaleZ /\ w[11] = n.color /\ w[12] = 0
  /\ v >= 3 => w[13] = n.asset

\* The words of a node say its fields at the places of the layout.
LEMMA NodeIsWritten ==
  ASSUME NEW n, NEW v \in 1 .. 4, NodeOf(n, v)
  PROVE  NodeSays(NodeWords(n, v), n, v)
<1> DEFINE a == <<n.id, n.parent, n.kind, EncodeSigned(n.x), EncodeSigned(n.y), EncodeSigned(n.z),
                  EncodeSigned(n.rotation), n.scaleX>>
           b == IF v >= 2 THEN <<n.scaleY, n.scaleZ, n.color, 0>> ELSE <<>>
           c == IF v >= 3 THEN <<n.asset>> ELSE <<>>
           w == NodeWords(n, v)
<1>1. n \in NodeFields
  BY DEF NodeOf
<1>2. /\ EncodeSigned(n.x) \in Int /\ EncodeSigned(n.y) \in Int /\ EncodeSigned(n.z) \in Int
      /\ EncodeSigned(n.rotation) \in Int
  BY <1>1, SignsReturn DEF NodeFields
<1>3. /\ a \in Seq(Int) /\ Len(a) = 8 /\ a[1] = n.id /\ a[2] = n.parent /\ a[3] = n.kind
      /\ a[4] = EncodeSigned(n.x) /\ a[5] = EncodeSigned(n.y) /\ a[6] = EncodeSigned(n.z)
      /\ a[7] = EncodeSigned(n.rotation) /\ a[8] = n.scaleX
  BY <1>1, <1>2 DEF NodeFields
<1>4. b \in Seq(Int) /\ c \in Seq(Int)
  BY <1>1 DEF NodeFields
<1>5. /\ v < 2 => Len(b) = 0
      /\ v >= 2 => Len(b) = 4 /\ b[1] = n.scaleY /\ b[2] = n.scaleZ /\ b[3] = n.color /\ b[4] = 0
      /\ v < 3 => Len(c) = 0
      /\ v >= 3 => Len(c) = 1 /\ c[1] = n.asset
  OBVIOUS
<1>6. w = a \o b \o c
  BY Zenon DEF NodeWords
<1> SUFFICES NodeSays(w, n, v)
  OBVIOUS
<1> HIDE DEF a, b, c, w
<1>7. JoinedThree(w, a, b, c, Int)
  BY <1>3, <1>4, <1>6, JoinsThree
<1>8. /\ w \in Seq(Int) /\ Len(w) = 8 + Len(b) + Len(c) /\ \A i \in 1 .. 8 : w[i] = a[i]
      /\ \A i \in 1 .. Len(b) : w[8 + i] = b[i]
      /\ \A i \in 1 .. Len(c) : w[8 + Len(b) + i] = c[i]
  BY <1>3, <1>7 DEF JoinedThree
<1>9. /\ w[1] = n.id /\ w[2] = n.parent /\ w[3] = n.kind /\ w[4] = EncodeSigned(n.x)
      /\ w[5] = EncodeSigned(n.y) /\ w[6] = EncodeSigned(n.z)
      /\ w[7] = EncodeSigned(n.rotation) /\ w[8] = n.scaleX
  <2>1. /\ w[1] = a[1] /\ w[2] = a[2] /\ w[3] = a[3] /\ w[4] = a[4]
        /\ w[5] = a[5] /\ w[6] = a[6] /\ w[7] = a[7] /\ w[8] = a[8]
    BY <1>8
  <2> QED
    BY <1>3, <2>1, Zenon
<1>10. CASE v = 1
  <2>1. Len(b) = 0 /\ Len(c) = 0 /\ ~ (v >= 2) /\ ~ (v >= 3) /\ Stride(v) = 8
    BY <1>5, <1>10 DEF Stride
  <2>2. Len(w) = 8
    BY <1>8, <2>1
  <2> QED
    BY <1>8, <1>9, <2>1, <2>2 DEF NodeSays
<1>11. CASE v = 2
  <2>1. /\ Len(b) = 4 /\ Len(c) = 0 /\ ~ (v >= 3) /\ Stride(v) = 12
        /\ b[1] = n.scaleY /\ b[2] = n.scaleZ /\ b[3] = n.color /\ b[4] = 0
    BY <1>5, <1>11 DEF Stride
  <2>2. /\ 1 \in 1 .. Len(b) /\ 2 \in 1 .. Len(b) /\ 3 \in 1 .. Len(b) /\ 4 \in 1 .. Len(b)
        /\ Len(w) = 12
    BY <1>8, <2>1
  <2>3. w[8 + 1] = b[1] /\ w[8 + 2] = b[2] /\ w[8 + 3] = b[3] /\ w[8 + 4] = b[4]
    BY <1>8, <2>2
  <2> QED
    BY <1>8, <1>9, <2>1, <2>2, <2>3 DEF NodeSays
<1>12. CASE v \in {3, 4}
  <2>1. /\ Len(b) = 4 /\ Len(c) = 1 /\ Stride(v) = 13 /\ c[1] = n.asset
        /\ b[1] = n.scaleY /\ b[2] = n.scaleZ /\ b[3] = n.color /\ b[4] = 0
    BY <1>5, <1>12 DEF Stride
  <2>2. /\ 1 \in 1 .. Len(b) /\ 2 \in 1 .. Len(b) /\ 3 \in 1 .. Len(b) /\ 4 \in 1 .. Len(b)
        /\ Len(w) = 13 /\ 1 \in 1 .. Len(c)
    BY <1>8, <2>1
  <2>3. /\ w[8 + 1] = b[1] /\ w[8 + 2] = b[2] /\ w[8 + 3] = b[3] /\ w[8 + 4] = b[4]
        /\ w[8 + Len(b) + 1] = c[1]
    BY <1>8, <2>2
  <2> QED
    BY <1>8, <1>9, <2>1, <2>2, <2>3 DEF NodeSays
<1>13. v = 1 \/ v = 2 \/ v \in {3, 4}
  OBVIOUS
<1> QED
  BY <1>10, <1>11, <1>12, <1>13, Zenon

\* The node that starts at a word.
NodeAt(words, c, reader) ==
  LET signed(word) == IF reader = "page" THEN PageSigned(word) ELSE DecodeSigned(word)
      v == words[2]
  IN Upright(
        [id |-> words[c], parent |-> words[c + 1], kind |-> words[c + 2],
         x |-> signed(words[c + 3]), y |-> signed(words[c + 4]), z |-> signed(words[c + 5]),
         rotation |-> signed(words[c + 6]), scaleX |-> words[c + 7],
         scaleY |-> IF v >= 2 THEN words[c + 8] ELSE 0,
         scaleZ |-> IF v >= 2 THEN words[c + 9] ELSE 0,
         color |-> IF v >= 2 THEN words[c + 10] ELSE 0,
         asset |-> IF v >= 3 THEN words[c + 12] ELSE 0], v)

\* A node that is read from its words is the node, for either reader.
LEMMA NodeIsRead ==
  ASSUME NEW words, NEW c \in Nat, NEW reader, NEW v \in 1 .. 4, words[2] = v,
         NEW n, NodeOf(n, v), NEW w, NodeSays(w, n, v),
         \A j \in 1 .. Stride(v) : words[(c - 1) + j] = w[j]
  PROVE  NodeAt(words, c, reader) = n
<1> DEFINE signed(word) == IF reader = "page" THEN PageSigned(word) ELSE DecodeSigned(word)
           r == [id |-> words[c], parent |-> words[c + 1], kind |-> words[c + 2],
                 x |-> signed(words[c + 3]), y |-> signed(words[c + 4]), z |-> signed(words[c + 5]),
                 rotation |-> signed(words[c + 6]), scaleX |-> words[c + 7],
                 scaleY |-> IF v >= 2 THEN words[c + 8] ELSE 0,
                 scaleZ |-> IF v >= 2 THEN words[c + 9] ELSE 0,
                 color |-> IF v >= 2 THEN words[c + 10] ELSE 0,
                 asset |-> IF v >= 3 THEN words[c + 12] ELSE 0]
<1>1. n \in NodeFields
  BY DEF NodeOf
<1>2. Stride(v) \in 8 .. 13
  BY DEF NodeSays
<1>3. /\ words[c] = w[1] /\ words[c + 1] = w[2] /\ words[c + 2] = w[3] /\ words[c + 3] = w[4]
      /\ words[c + 4] = w[5] /\ words[c + 5] = w[6] /\ words[c + 6] = w[7] /\ words[c + 7] = w[8]
  <2>1. \A j \in 1 .. 8 : words[(c - 1) + j] = w[j]
    BY <1>2
  <2>2. /\ (c - 1) + 1 = c /\ (c - 1) + 2 = c + 1 /\ (c - 1) + 3 = c + 2 /\ (c - 1) + 4 = c + 3
        /\ (c - 1) + 5 = c + 4 /\ (c - 1) + 6 = c + 5 /\ (c - 1) + 7 = c + 6 /\ (c - 1) + 8 = c + 7
    OBVIOUS
  <2> QED
    BY <2>1, <2>2
<1>4. v >= 2 => words[c + 8] = w[9] /\ words[c + 9] = w[10] /\ words[c + 10] = w[11]
  <2> SUFFICES ASSUME v >= 2
               PROVE  words[c + 8] = w[9] /\ words[c + 9] = w[10] /\ words[c + 10] = w[11]
    OBVIOUS
  <2>1. 9 \in 1 .. Stride(v) /\ 10 \in 1 .. Stride(v) /\ 11 \in 1 .. Stride(v)
    BY DEF Stride
  <2>2. (c - 1) + 9 = c + 8 /\ (c - 1) + 10 = c + 9 /\ (c - 1) + 11 = c + 10
    OBVIOUS
  <2> QED
    BY <2>1, <2>2
<1>5. v >= 3 => words[c + 12] = w[13]
  <2> SUFFICES ASSUME v >= 3 PROVE words[c + 12] = w[13]
    OBVIOUS
  <2>1. 13 \in 1 .. Stride(v)
    BY DEF Stride
  <2>2. (c - 1) + 13 = c + 12
    OBVIOUS
  <2> QED
    BY <2>1, <2>2
<1>6. /\ signed(EncodeSigned(n.x)) = n.x /\ signed(EncodeSigned(n.y)) = n.y
      /\ signed(EncodeSigned(n.z)) = n.z /\ signed(EncodeSigned(n.rotation)) = n.rotation
  <2>1. n.x \in Int /\ n.y \in Int /\ n.z \in Int /\ n.rotation \in Int
    BY <1>1 DEF NodeFields
  <2>2. ASSUME NEW value \in Int PROVE signed(EncodeSigned(value)) = value
    BY SignsReturn
  <2> QED
    BY <2>1, <2>2
<1> HIDE DEF signed
<1>7. /\ r.id = n.id /\ r.parent = n.parent /\ r.kind = n.kind
      /\ r.x = n.x /\ r.y = n.y /\ r.z = n.z
      /\ r.rotation = n.rotation /\ r.scaleX = n.scaleX
      /\ v >= 2 => r.scaleY = n.scaleY /\ r.scaleZ = n.scaleZ /\ r.color = n.color
      /\ v < 2 => r.scaleY = 0 /\ r.scaleZ = 0 /\ r.color = 0
      /\ v >= 3 => r.asset = n.asset
      /\ v < 3 => r.asset = 0
  <2>1. /\ w[1] = n.id /\ w[2] = n.parent /\ w[3] = n.kind /\ w[8] = n.scaleX
        /\ v >= 2 => w[9] = n.scaleY /\ w[10] = n.scaleZ /\ w[11] = n.color
        /\ v >= 3 => w[13] = n.asset
    BY DEF NodeSays
  <2>2. /\ r.id = n.id /\ r.parent = n.parent /\ r.kind = n.kind
        /\ r.x = n.x /\ r.y = n.y /\ r.z = n.z
        /\ r.rotation = n.rotation /\ r.scaleX = n.scaleX
    <3>1. /\ r.id = words[c] /\ r.parent = words[c + 1] /\ r.kind = words[c + 2]
          /\ r.x = signed(words[c + 3]) /\ r.y = signed(words[c + 4])
          /\ r.z = signed(words[c + 5]) /\ r.rotation = signed(words[c + 6])
          /\ r.scaleX = words[c + 7]
      BY Zenon
    <3>2. /\ w[4] = EncodeSigned(n.x) /\ w[5] = EncodeSigned(n.y) /\ w[6] = EncodeSigned(n.z)
          /\ w[7] = EncodeSigned(n.rotation)
      BY DEF NodeSays
    <3> HIDE DEF r
    <3> QED
      BY <1>3, <1>6, <2>1, <3>1, <3>2
  <2>3. /\ v >= 2 => r.scaleY = n.scaleY /\ r.scaleZ = n.scaleZ /\ r.color = n.color
        /\ v < 2 => r.scaleY = 0 /\ r.scaleZ = 0 /\ r.color = 0
    BY <1>4, <2>1
  <2>4. (v >= 3 => r.asset = n.asset) /\ (v < 3 => r.asset = 0)
    BY <1>5, <2>1
  <2> QED
    BY <2>2, <2>3, <2>4, Zenon
<1>8. r = [id |-> r.id, parent |-> r.parent, kind |-> r.kind, x |-> r.x, y |-> r.y, z |-> r.z,
           rotation |-> r.rotation, scaleX |-> r.scaleX, scaleY |-> r.scaleY, scaleZ |-> r.scaleZ,
           color |-> r.color, asset |-> r.asset]
  OBVIOUS
<1>9. NodeAt(words, c, reader) = Upright(r, v)
  BY Zenon DEF NodeAt, signed
<1> HIDE DEF r
<1>10. r \in NodeFields
  <2>1. /\ r.id \in Int /\ r.parent \in Int /\ r.kind \in Int
        /\ r.x \in Int /\ r.y \in Int /\ r.z \in Int
        /\ r.rotation \in Int /\ r.scaleX \in Int
    BY <1>1, <1>7 DEF NodeFields
  <2>2. r.scaleY \in Int /\ r.scaleZ \in Int /\ r.color \in Int /\ r.asset \in Int
    BY <1>1, <1>7 DEF NodeFields
  <2> QED
    BY <1>8, <2>1, <2>2 DEF NodeFields
<1> DEFINE u == Upright(r, v)
<1>11. /\ NodeOf(u, v)
       /\ \A f \in {"id", "parent", "kind", "x", "y", "z", "rotation", "scaleX"} : u[f] = r[f]
       /\ v >= 2 => u.scaleY = r.scaleY /\ u.scaleZ = r.scaleZ /\ u.color = r.color
       /\ v >= 3 => u.asset = r.asset
  BY <1>10, UprightIsNode
<1> HIDE DEF u
<1>12. u \in NodeFields
  BY <1>11 DEF NodeOf
<1>13. /\ u.id = n.id /\ u.parent = n.parent /\ u.kind = n.kind
       /\ u.x = n.x /\ u.y = n.y /\ u.z = n.z
       /\ u.rotation = n.rotation /\ u.scaleX = n.scaleX
  BY <1>7, <1>11
<1>14. u.scaleY = n.scaleY /\ u.scaleZ = n.scaleZ /\ u.color = n.color /\ u.asset = n.asset
  BY <1>7, <1>11, <1>13 DEF NodeOf
<1>15. u = n
  BY <1>1, <1>12, <1>13, <1>14, NodesEqual
<1> QED
  BY <1>9, <1>15 DEF u

\* What a project, a node or a revision is counted with.
LEMMA LargestAre ==
  /\ MaxNumber \in Int /\ MaxNumber > 2000 /\ MaxTurn \in Int /\ MaxTurn <= MaxNumber
  /\ MaxTurn > 90 /\ White \in Int /\ White > 1 /\ Modulus \in Int /\ Modulus > MaxNumber
BY SMT DEF MaxNumber, MaxTurn, White, Modulus

LEMMA NumbersAre ==
  /\ Numbers \subseteq Int /\ 1 \in Numbers
  /\ \A n \in Numbers : n > 0
BY LargestAre, SMT DEF Numbers

\* What the page asks of a program.
HeaderStands(program) ==
  /\ program[1] = 1111839304 /\ program[2] = 1
  /\ program[6] \in 1 .. 64 /\ program[7] \in 1 .. 128 /\ program[8] \in 1 .. 64
  /\ program[10] = Len(program)
  /\ Len(program) = 10 + program[6] * 2 + program[7] * 3 + program[8] * 3

\* The ranges of a node's fields.
LEMMA RangesAre ==
  /\ \A k \in Int : 1 <= k /\ k <= MaxNumber => k \in Numbers
  /\ \A k \in Int : -MaxNumber <= k /\ k <= MaxNumber => k \in Positions
  /\ \A k \in Int : -MaxTurn <= k /\ k <= MaxTurn => k \in Turns
  /\ 0 \in Colors /\ 1 \in Colors /\ White \in Colors
  /\ \A k \in Int : 0 <= k /\ k <= MaxNumber => k \in AssetTokens
BY LargestAre, SMT DEF Numbers, Positions, Turns, Colors, AssetTokens

\* A node whose fields are within their ranges is taken.
LEMMA FieldsAreTaken ==
  ASSUME NEW n, n.id \in Numbers, n.kind \in Numbers,
         n.x \in Positions, n.y \in Positions, n.z \in Positions,
         n.rotation \in Turns,
         n.scaleX \in Numbers, n.scaleY \in Numbers, n.scaleZ \in Numbers,
         n.color \in Colors, n.asset \in AssetTokens
  PROVE  NodeTaken(n)
<1>1. \A f \in {"x", "y", "z"} : n[f] \in Positions
  OBVIOUS
<1>2. \A f \in {"scaleX", "scaleY", "scaleZ"} : n[f] \in Numbers
  OBVIOUS
<1> QED
  BY <1>1, <1>2, Zenon DEF NodeTaken

\* A program that a document of the version may have, and that is encoded as it is.
ProgramStands(program, v) ==
  program # <<>> => v = 4 /\ ProgramTaken(program) /\ Recoded(program) = program

\* A document of a version that the studio takes.
Stands(d, v) ==
  /\ v \in 1 .. 4
  /\ d.ns \in Int /\ d.project \in Int /\ d.revision \in Int /\ d.generation \in Int
  /\ d.generation > 0
  /\ d.nodes \in Seq(NodeFields) /\ Len(d.nodes) \in 1 .. 64
  /\ \A i \in 1 .. Len(d.nodes) : NodeOf(d.nodes[i], v) /\ d.nodes[i].parent >= 0
  /\ d.assets \in Seq(Seq(Int)) /\ Len(d.assets) \in 0 .. 32
  /\ \A i \in 1 .. Len(d.assets) : Len(d.assets[i]) = 5
  /\ d.program \in Seq(Int) /\ ProgramStands(d.program, v)
  /\ StudioTakes(d)

\* What the studio takes depends on these fields.
LEMMA TakesTheSame ==
  ASSUME NEW d, NEW c, StudioTakes(d),
         c.nodes = d.nodes, c.assets = d.assets, c.program = d.program,
         c.ns \in Numbers, c.project \in Numbers, c.revision \in Numbers
  PROVE  StudioTakes(c)
BY Zenon DEF StudioTakes

\* A program that is taken has the header that the page asks for,
LEMMA HeaderIs ==
  ASSUME NEW p, ProgramTaken(p)
  PROVE  Len(p) \in 18 .. 776 /\ HeaderStands(p)
BY SMT DEF ProgramTaken, ProgramHeader, HeaderStands

\* and as many rules as it says, whose words name their actions.
LEMMA RulesAreRead ==
  ASSUME NEW p \in Seq(Int), ProgramTaken(p)
  PROVE  /\ DOMAIN Compiled(p) = 1 .. p[8]
         /\ \A k \in 1 .. p[8] :
              /\ Compiled(p)[k].action \in 6 .. 9
              /\ p[10 + p[6] * 2 + p[7] * 3 + 3 * k] = Compiled(p)[k].action
<1> DEFINE rules == Compiled(p)
           at == 10 + 2 * p[6] + 3 * p[7]
           part(k) == SubSeq(p, at + 3 * k - 2, at + 3 * k)
<1>1. HeaderStands(p)
  BY HeaderIs
<1>2. RulesStand(p)
  BY Zenon DEF ProgramTaken
<1>3. ProgramRules(p) = [k \in 1 .. p[8] |-> part(k)]
  BY Zenon DEF ProgramRules, Triples
<1>4. ProgramRules(p) = [k \in DOMAIN rules |-> RuleWords(rules[k])]
  BY <1>2, Zenon DEF RulesStand
<1>5. \A k \in DOMAIN rules :
        BranchStands(KindsOf(p), ToSet(ProgramEdges(p)), Branches(p)[k])
  BY <1>2, Zenon DEF RulesStand
<1>6. \A k \in DOMAIN rules :
        rules[k] = RuleOf(KindsOf(p), ToSet(ProgramEdges(p)), Branches(p)[k])
  BY Zenon DEF Compiled
<1>7. \A k \in DOMAIN rules : rules[k].action \in 6 .. 9
  BY <1>5, <1>6, Zenon DEF BranchStands, Actions
<1> HIDE DEF rules
<1>8. DOMAIN rules = 1 .. p[8] /\ \A k \in 1 .. p[8] : part(k) = RuleWords(rules[k])
  <2>1. DOMAIN [k \in 1 .. p[8] |-> part(k)] = DOMAIN [k \in DOMAIN rules |-> RuleWords(rules[k])]
    BY <1>3, <1>4, Zenon
  <2>2. DOMAIN rules = 1 .. p[8]
    BY <2>1, Zenon
  <2>3. ASSUME NEW k \in 1 .. p[8] PROVE part(k) = RuleWords(rules[k])
    <3>1. ProgramRules(p)[k] = part(k)
      BY <1>3, Zenon
    <3>2. ProgramRules(p)[k] = RuleWords(rules[k])
      BY <1>4, <2>2, Zenon
    <3> QED
      BY <3>1, <3>2, Zenon
  <2> QED
    BY <2>2, <2>3, Zenon
<1>9. ASSUME NEW k \in 1 .. p[8]
      PROVE  p[10 + p[6] * 2 + p[7] * 3 + 3 * k] = rules[k].action
  <2> DEFINE from == at + 3 * k - 3
  <2>1. /\ from \in Nat /\ from + 3 <= Len(p) /\ at + 3 * k - 2 = from + 1
        /\ at + 3 * k = from + 3 /\ 10 + p[6] * 2 + p[7] * 3 + 3 * k = from + 3
    <3> DEFINE a == p[6]
               b == p[7]
               c == p[8]
               l == Len(p)
    <3>1. /\ a \in 1 .. 64 /\ b \in 1 .. 128 /\ c \in 1 .. 64
          /\ l = 10 + a * 2 + b * 3 + c * 3 /\ k \in 1 .. c
      BY <1>1, SMT DEF HeaderStands
    <3>2. at = 10 + 2 * a + 3 * b /\ from = at + 3 * k - 3
      OBVIOUS
    <3> HIDE DEF a, b, c, l, at, from
    <3>3. /\ from \in Nat /\ from + 3 <= l /\ at + 3 * k - 2 = from + 1
          /\ at + 3 * k = from + 3 /\ 10 + a * 2 + b * 3 + 3 * k = from + 3
      BY <3>1, <3>2
    <3> QED
      BY <3>3 DEF a, b, l
  <2> HIDE DEF from, at
  <2>2. RuleWords(rules[k])[3] = rules[k].action
    BY SMT DEF RuleWords
  <2>3. SubSeq(p, from + 1, from + 3)[3] = p[from + 3]
    BY <2>1
  <2>4. SubSeq(p, from + 1, from + 3) = RuleWords(rules[k])
    BY <1>8, <2>1, Zenon
  <2> QED
    BY <2>1, <2>2, <2>3, <2>4, Zenon
<1> QED
  BY <1>7, <1>8, <1>9, Zenon DEF rules

\* The page shows the cards that the server plays.
LEMMA CardsAreShown ==
  ASSUME NEW p \in Seq(Int), p # <<>> => ProgramTaken(p)
  PROVE  PageCards(p) = ServerCards(p)
<1>1. CASE p = <<>>
  BY <1>1, Zenon DEF PageCards, ServerCards
<1>2. CASE p # <<>>
  <2> DEFINE rules == Compiled(p)
             f(k) == p[(10 + p[6] * 2 + p[7] * 3) + 3 * k]
             actions == {f(k) : k \in 1 .. p[8]}
  <2>1. DOMAIN rules = 1 .. p[8] /\ \A k \in 1 .. p[8] : f(k) = rules[k].action
    BY <1>2, RulesAreRead, Zenon
  <2>2. PageCards(p) = {card \in {1, 2} : (IF card = 1 THEN 6 ELSE 7) \in actions}
    BY <1>2, Zenon DEF PageCards
  <2>3. ServerCards(p) = {card \in {1, 2} : \E k \in DOMAIN rules : rules[k].action = 5 + card}
    BY <1>2, Zenon DEF ServerCards
  <2> HIDE DEF rules, f
  <2>4. ASSUME NEW card \in {1, 2}
        PROVE  (IF card = 1 THEN 6 ELSE 7) \in actions
                 <=> \E k \in DOMAIN rules : rules[k].action = 5 + card
    <3>1. (IF card = 1 THEN 6 ELSE 7) = 5 + card
      OBVIOUS
    <3>2. 5 + card \in actions <=> \E k \in 1 .. p[8] : f(k) = 5 + card
      BY Zenon
    <3> QED
      BY <2>1, <3>1, <3>2, Zenon
  <2> QED
    BY <2>2, <2>3, <2>4, Zenon
<1> QED
  BY <1>1, <1>2

AssetsEnd(d, v) == 11 + Len(d.nodes) * Stride(v) + Len(d.assets) * 5

\* The words, but for their seal, are those of a document.
LaidOut(words, d, v) ==
  /\ (\E T : words \in Seq(T)) /\ Len(words) = AssetsEnd(d, v) + Len(d.program)
  /\ words[1] = Magic /\ words[2] = v /\ words[3] = Len(words) /\ words[5] = d.ns
  /\ words[6] = d.project /\ words[7] = d.revision /\ words[8] = Len(d.nodes)
  /\ words[9] = Len(d.assets) /\ words[10] = d.generation /\ words[11] = Len(d.program)
  /\ \A k \in 1 .. Len(d.nodes), j \in 1 .. Stride(v) :
       words[11 + ((k - 1) * Stride(v) + j)] = NodeWords(d.nodes[k], v)[j]
  /\ \A k \in 1 .. Len(d.assets), j \in 1 .. 5 :
       words[11 + Len(d.nodes) * Stride(v) + ((k - 1) * 5 + j)] = d.assets[k][j]
  /\ \A j \in 1 .. Len(d.program) : words[AssetsEnd(d, v) + j] = d.program[j]

\* How many words a node has.
LEMMA StrideIs ==
  ASSUME NEW v \in 1 .. 4
  PROVE  Stride(v) \in 8 .. 13
BY DEF Stride

\* Where the parts of a document are.
LEMMA PartsAre ==
  ASSUME NEW d, NEW v, Stands(d, v)
  PROVE  /\ Len(d.nodes) \in Nat /\ Len(d.assets) \in Nat /\ Len(d.program) \in Nat
         /\ Stride(v) \in Nat /\ Len(d.nodes) * Stride(v) \in Nat /\ AssetsEnd(d, v) \in Nat
         /\ AssetsEnd(d, v) = 11 + Len(d.nodes) * Stride(v) + Len(d.assets) * 5
         /\ AssetsEnd(d, v) >= 11
<1>1. Len(d.nodes) \in Nat /\ Len(d.assets) \in Nat /\ Len(d.program) \in Nat
  BY LenProperties DEF Stands
<1>2. Stride(v) \in Nat
  <2>1. v \in 1 .. 4
    BY DEF Stands
  <2>2. Stride(v) \in 8 .. 13
    BY <2>1, StrideIs
  <2> QED
    BY <2>2
<1> DEFINE n == Len(d.nodes)
           s == Stride(v)
           m == Len(d.assets)
           t == n * s
<1>3. t \in Nat
  <2> HIDE DEF n, s
  <2> QED
    BY <1>1, <1>2, MoreTimes DEF n, s
<1>4. AssetsEnd(d, v) = 11 + t + m * 5
  BY DEF AssetsEnd
<1> HIDE DEF n, s, m, t
<1>5. m \in Nat
  BY <1>1 DEF m
<1>6. AssetsEnd(d, v) \in Nat /\ AssetsEnd(d, v) >= 11
  BY <1>3, <1>4, <1>5
<1> QED
  BY <1>1, <1>2, <1>3, <1>4, <1>6 DEF n, s, m, t

\* The nodes of words that are laid out are those of the document.
LEMMA NodesAreRead ==
  ASSUME NEW d, NEW v, Stands(d, v), NEW words, LaidOut(words, d, v), NEW reader
  PROVE  Decoded(words, reader).nodes = d.nodes
<1>1. Decoded(words, reader).nodes =
        [i \in 1 .. words[8] |-> NodeAt(words, 12 + (i - 1) * Stride(words[2]), reader)]
  BY Zenon DEF Decoded, NodeAt
<1>2. words[2] = v /\ words[8] = Len(d.nodes)
  BY DEF LaidOut
<1>3. ASSUME NEW i \in 1 .. Len(d.nodes)
      PROVE  NodeAt(words, 12 + (i - 1) * Stride(v), reader) = d.nodes[i]
  <2> DEFINE at == (i - 1) * Stride(v)
             c == 12 + at
             n == d.nodes[i]
             w == NodeWords(n, v)
  <2>1. Stride(v) \in Nat /\ i - 1 \in Nat
    BY PartsAre
  <2>2. at \in Nat
    BY <2>1, MoreTimes
  <2>3. NodeOf(n, v) /\ v \in 1 .. 4
    BY DEF Stands
  <2>4. NodeSays(w, n, v)
    BY <2>3, NodeIsWritten
  <2>5. ASSUME NEW j \in 1 .. Stride(v) PROVE words[(c - 1) + j] = w[j]
    <3>1. words[11 + (at + j)] = w[j]
      BY DEF LaidOut
    <3>2. (c - 1) + j = 11 + (at + j)
      <4> HIDE DEF at
      <4> QED
        BY <2>1, <2>2
    <3> QED
      BY <3>1, <3>2
  <2> HIDE DEF at, w
  <2>6. c \in Nat
    BY <2>2
  <2> HIDE DEF c
  <2>7. NodeAt(words, c, reader) = n
    BY <1>2, <2>3, <2>4, <2>5, <2>6, NodeIsRead
  <2> QED
    BY <2>7 DEF c, at
<1>4. d.nodes \in Seq(NodeFields)
  BY DEF Stands
<1>5. d.nodes = [i \in 1 .. Len(d.nodes) |-> d.nodes[i]]
  BY <1>4
<1> DEFINE f == [i \in 1 .. Len(d.nodes) |-> NodeAt(words, 12 + (i - 1) * Stride(v), reader)]
<1>6. f = [i \in 1 .. Len(d.nodes) |-> d.nodes[i]]
  BY <1>3, Zenon
<1> QED
  BY <1>1, <1>2, <1>5, <1>6, Zenon

\* So are the assets,
LEMMA AssetsAreRead ==
  ASSUME NEW d, NEW v, Stands(d, v), NEW words, LaidOut(words, d, v), NEW reader
  PROVE  Decoded(words, reader).assets = d.assets
<1> DEFINE at == 12 + Len(d.nodes) * Stride(v)
           part(i) == SubSeq(words, at + 5 * (i - 1), at + 5 * i - 1)
<1>1. words[2] = v /\ words[8] = Len(d.nodes) /\ words[9] = Len(d.assets)
  BY DEF LaidOut
<1>2. Decoded(words, reader).assets = [i \in 1 .. Len(d.assets) |-> part(i)]
  <2>1. Decoded(words, reader).assets =
          [i \in 1 .. words[9] |-> SubSeq(words, 12 + words[8] * Stride(words[2]) + 5 * (i - 1),
                                          12 + words[8] * Stride(words[2]) + 5 * i - 1)]
    BY Zenon DEF Decoded
  <2> QED
    BY <1>1, <2>1, Zenon
<1>3. ASSUME NEW i \in 1 .. Len(d.assets) PROVE part(i) = d.assets[i]
  <2> DEFINE t == Len(d.nodes) * Stride(v)
             m == Len(d.assets)
             from == 11 + t + (i - 1) * 5
  <2>1. t \in Nat /\ m \in Nat /\ Len(d.program) \in Nat /\ AssetsEnd(d, v) = 11 + t + m * 5
    BY PartsAre
  <2>2. /\ Len(words) = AssetsEnd(d, v) + Len(d.program)
        /\ \A j \in 1 .. 5 : words[11 + t + ((i - 1) * 5 + j)] = d.assets[i][j]
    BY DEF LaidOut
  <2>3. d.assets[i] \in Seq(Int) /\ Len(d.assets[i]) = 5
    BY ElementOfSeq DEF Stands
  <2>4. part(i) = SubSeq(words, 12 + t + 5 * (i - 1), 12 + t + 5 * i - 1)
    BY Zenon
  <2>50. PICK W : words \in Seq(W)
    BY DEF LaidOut
  <2> DEFINE L == Len(words)
             p == Len(d.program)
  <2>5. /\ i \in 1 .. m /\ L = (11 + t + m * 5) + p /\ words \in Seq(W) /\ L = Len(words)
        /\ p \in Nat
    BY <2>1, <2>2, <2>50
  <2> HIDE DEF t, m, part, L, p
  <2>6. /\ from \in Nat /\ from + 5 <= L
        /\ 12 + t + 5 * (i - 1) = from + 1 /\ 12 + t + 5 * i - 1 = from + 5
    BY <2>1, <2>5
  <2>7. ASSUME NEW j \in 1 .. 5 PROVE words[from + j] = d.assets[i][j]
    <3>1. from + j = 11 + t + ((i - 1) * 5 + j)
      BY <2>1, <2>5
    <3> QED
      BY <2>2, <3>1
  <2> HIDE DEF from
  <2> DEFINE list == d.assets[i]
             n == 5
  <2>8. list \in Seq(Int) /\ Len(list) = n /\ \A j \in 1 .. n : words[from + j] = list[j]
    BY <2>3, <2>7
  <2> HIDE DEF list
  <2>9. words \in Seq(W) /\ from \in Nat /\ n \in Nat /\ from + n <= Len(words)
    BY <2>5, <2>6
  <2> HIDE DEF n
  <2>10. SubSeq(words, from + 1, from + n) = list
    BY <2>8, <2>9, SubSeqIs
  <2> QED
    BY <2>4, <2>6, <2>10 DEF list, n
<1>4. d.assets = [i \in 1 .. Len(d.assets) |-> d.assets[i]]
  <2> DEFINE list == d.assets
  <2>1. list \in Seq(Seq(Int))
    BY DEF Stands
  <2> HIDE DEF list
  <2>2. list = [i \in 1 .. Len(list) |-> list[i]]
    BY <2>1
  <2> QED
    BY <2>2 DEF list
<1> HIDE DEF part
<1>5. [i \in 1 .. Len(d.assets) |-> part(i)] = [i \in 1 .. Len(d.assets) |-> d.assets[i]]
  BY <1>3, Zenon
<1> QED
  BY <1>2, <1>4, <1>5, Zenon

\* and the program, from the end of the assets on: to the end of the words for the
\* decoder, and as many words as the header says for the seal.
LEMMA ProgramIsRead ==
  ASSUME NEW d, NEW v, Stands(d, v), NEW words, LaidOut(words, d, v), NEW reader
  PROVE  /\ Decoded(words, reader).program = d.program
         /\ LET at == 12 + Len(d.nodes) * Stride(v) + Len(d.assets) * 5
            IN SubSeq(words, at, at + words[11] - 1) = d.program
<1> DEFINE t == Len(d.nodes) * Stride(v)
           m == Len(d.assets)
           p == Len(d.program)
           from == 11 + t + m * 5
<1>1. t \in Nat /\ m \in Nat /\ p \in Nat /\ AssetsEnd(d, v) = from
  BY PartsAre
<1>2. /\ Len(words) = from + p
      /\ \A j \in 1 .. p : words[from + j] = d.program[j]
      /\ words[2] = v /\ words[8] = Len(d.nodes) /\ words[9] = m /\ words[11] = p
  BY <1>1 DEF LaidOut
<1>3. d.program \in Seq(Int)
  BY DEF Stands
<1>4. Decoded(words, reader).program =
        SubSeq(words, 12 + t + m * 5, IF reader = "page" THEN Len(words)
                                      ELSE (12 + t + m * 5) + p - 1)
  <2>1. Decoded(words, reader).program =
          SubSeq(words, 12 + words[8] * Stride(words[2]) + words[9] * 5,
                 IF reader = "page" THEN Len(words)
                 ELSE (12 + words[8] * Stride(words[2]) + words[9] * 5) + words[11] - 1)
    BY Zenon DEF Decoded
  <2> QED
    BY <1>2, <2>1, Zenon
<1>5. LET at == 12 + Len(d.nodes) * Stride(v) + Len(d.assets) * 5
      IN SubSeq(words, at, at + words[11] - 1) =
           SubSeq(words, 12 + t + m * 5, (12 + t + m * 5) + p - 1)
  BY <1>2, Zenon
<1>60. PICK W : words \in Seq(W)
  BY DEF LaidOut
<1> DEFINE list == d.program
<1>6. /\ list \in Seq(Int) /\ Len(list) = p /\ words \in Seq(W)
      /\ \A j \in 1 .. p : words[from + j] = list[j]
  BY <1>2, <1>3, <1>60
<1> HIDE DEF t, m, p, list
<1>7. from \in Nat /\ 12 + t + m * 5 = from + 1 /\ (from + 1) + p - 1 = from + p
  BY <1>1
<1> HIDE DEF from
<1>8. p \in Nat /\ from + p <= Len(words)
  BY <1>1, <1>2, <1>7
<1>9. SubSeq(words, from + 1, from + p) = list
  BY <1>6, <1>7, <1>8, SubSeqIs
<1> QED
  BY <1>2, <1>4, <1>5, <1>7, <1>9 DEF list

\* What is mixed of a document.
MixedOf(ns, project, revision, generation, nodes, assets, program, v) ==
  <<v, ns, project, revision, generation, Len(nodes)>>
  \o FlattenSeq([i \in DOMAIN nodes |-> PageMixed(nodes[i], v)])
  \o <<Len(assets)>> \o FlattenSeq(assets)
  \o (IF v = 4 THEN <<Len(program)>> \o program ELSE <<>>)

\* What is mixed depends on the fields of a document and on nothing else.
LEMMA MixedIs ==
  ASSUME NEW d, NEW v
  PROVE  Mixed(d, v) = MixedOf(d.ns, d.project, d.revision, d.generation, d.nodes, d.assets,
                               d.program, v)
<1> DEFINE f == [i \in DOMAIN d.nodes |-> PageMixed(d.nodes[i], v)]
           g == [i \in DOMAIN d.nodes |-> LET n == d.nodes[i] IN
                  <<n.id, n.parent, n.kind, n.x, n.y, n.z, n.rotation, n.scaleX>>
                  \o (IF v >= 2 THEN <<n.scaleY, n.scaleZ, n.color>> ELSE <<>>)
                  \o (IF v >= 3 THEN <<n.asset>> ELSE <<>>)]
<1>1. f = g
  BY Zenon DEF PageMixed
<1>2. Mixed(d, v) = <<v, d.ns, d.project, d.revision, d.generation, Len(d.nodes)>>
        \o FlattenSeq(g) \o <<Len(d.assets)>> \o FlattenSeq(d.assets)
        \o (IF v = 4 THEN <<Len(d.program)>> \o d.program ELSE <<>>)
  BY Zenon DEF Mixed
<1>3. MixedOf(d.ns, d.project, d.revision, d.generation, d.nodes, d.assets, d.program, v) =
        <<v, d.ns, d.project, d.revision, d.generation, Len(d.nodes)>>
        \o FlattenSeq(f) \o <<Len(d.assets)>> \o FlattenSeq(d.assets)
        \o (IF v = 4 THEN <<Len(d.program)>> \o d.program ELSE <<>>)
  BY Zenon DEF MixedOf
<1> HIDE DEF f, g
<1> QED
  BY <1>1, <1>2, <1>3, Zenon

\* What is read of a document is the document, and its seal is the same.
LEMMA DocumentIsRead ==
  ASSUME NEW d, NEW v, Stands(d, v), NEW words, LaidOut(words, d, v), NEW reader
  PROVE  /\ Decoded(words, reader).nodes = d.nodes /\ Decoded(words, reader).assets = d.assets
         /\ Decoded(words, reader).program = d.program
         /\ Mixed(Decoded(words, reader), words[2]) = Mixed(d, v)
<1> DEFINE x == Decoded(words, reader)
<1>1. x.nodes = d.nodes /\ x.assets = d.assets /\ x.program = d.program
  BY NodesAreRead, AssetsAreRead, ProgramIsRead
<1>2. x.ns = words[5] /\ x.project = words[6] /\ x.revision = words[7] /\ x.generation = words[10]
  BY Zenon DEF Decoded
<1>3. /\ words[5] = d.ns /\ words[6] = d.project /\ words[7] = d.revision
      /\ words[10] = d.generation /\ words[2] = v
  BY DEF LaidOut
<1> HIDE DEF x
<1>4. Mixed(x, v) = MixedOf(x.ns, x.project, x.revision, x.generation, x.nodes, x.assets,
                            x.program, v)
  BY MixedIs, Zenon
<1>5. Mixed(d, v) = MixedOf(d.ns, d.project, d.revision, d.generation, d.nodes, d.assets,
                            d.program, v)
  BY MixedIs, Zenon
<1>6. Mixed(x, v) = Mixed(d, v)
  BY <1>1, <1>2, <1>3, <1>4, <1>5, Zenon
<1> QED
  BY <1>1, <1>3, <1>6, Zenon DEF x

\* The reserved word of a node is 0.
LEMMA ReservedIsZero ==
  ASSUME NEW d, NEW v, Stands(d, v), NEW words, LaidOut(words, d, v), v >= 2,
         NEW i \in 1 .. Len(d.nodes)
  PROVE  words[11 + (i - 1) * Stride(v) + 12] = 0
<1> DEFINE w == NodeWords(d.nodes[i], v)
           at == (i - 1) * Stride(v)
<1>1. v \in 1 .. 4 /\ Len(d.nodes) \in 1 .. 64
  BY DEF Stands
<1>2. NodeOf(d.nodes[i], v)
  BY Zenon DEF Stands
<1>3. NodeSays(w, d.nodes[i], v)
  BY <1>1, <1>2, NodeIsWritten
<1>4. w[12] = 0
  BY <1>3, Zenon DEF NodeSays
<1>5. 12 \in 1 .. Stride(v) /\ Stride(v) \in Nat
  BY <1>1, SMT DEF Stride
<1>6. words[11 + (at + 12)] = w[12]
  BY <1>5, Zenon DEF LaidOut
<1>7. at \in Nat
  <2>1. i - 1 \in Nat
    BY <1>1
  <2> QED
    BY <1>5, <2>1, MoreTimes
<1> HIDE DEF at, w
<1>8. 11 + at + 12 = 11 + (at + 12)
  BY <1>7
<1> QED
  BY <1>4, <1>6, <1>8 DEF at

\* The page computes the seal that the server sets.
LEMMA SealIsShared ==
  ASSUME NEW d, NEW v, Stands(d, v), NEW words, LaidOut(words, d, v)
  PROVE  PageChecksum(words) = SealOf(Mixed(d, v))
<1> DEFINE x == PageDecoded(words)
           at == 12 + Len(d.nodes) * Stride(v) + Len(d.assets) * 5
<1>1. x.nodes = d.nodes /\ x.assets = d.assets
  BY DocumentIsRead DEF PageDecoded
<1>2. /\ words[5] = d.ns /\ words[6] = d.project /\ words[7] = d.revision
      /\ words[10] = d.generation /\ words[2] = v /\ words[11] = Len(d.program)
  BY DEF LaidOut
<1>3. SubSeq(words, at, at + words[11] - 1) = d.program
  BY ProgramIsRead, Zenon
<1>4. PageChecksum(words) =
        LET behaviorAt == 12 + Len(x.nodes) * Stride(words[2]) + Len(x.assets) * 5
        IN IF words[2] >= 2
              /\ \E i \in DOMAIN x.nodes : words[11 + (i - 1) * Stride(words[2]) + 12] # 0
           THEN -1
           ELSE SealOf(<<words[2], words[5], words[6], words[7], words[10], Len(x.nodes)>>
            \o FlattenSeq([i \in DOMAIN x.nodes |-> PageMixed(x.nodes[i], words[2])])
            \o <<Len(x.assets)>> \o FlattenSeq(x.assets)
            \o (IF words[2] = 4
                THEN <<words[11]>> \o SubSeq(words, behaviorAt, behaviorAt + words[11] - 1)
                ELSE <<>>))
  BY Zenon DEF PageChecksum
<1> HIDE DEF x
<1>8. v >= 2 => \A i \in DOMAIN x.nodes : words[11 + (i - 1) * Stride(v) + 12] = 0
  <2>1. DOMAIN d.nodes = 1 .. Len(d.nodes)
    <3>1. d.nodes \in Seq(NodeFields)
      BY DEF Stands
    <3> QED
      BY <3>1, LenProperties
  <2>2. v >= 2 => \A i \in 1 .. Len(d.nodes) : words[11 + (i - 1) * Stride(v) + 12] = 0
    BY ReservedIsZero
  <2> QED
    BY <1>1, <2>1, <2>2, Zenon
<1>5. PageChecksum(words) =
        SealOf(<<v, d.ns, d.project, d.revision, d.generation, Len(d.nodes)>>
            \o FlattenSeq([i \in DOMAIN d.nodes |-> PageMixed(d.nodes[i], v)])
            \o <<Len(d.assets)>> \o FlattenSeq(d.assets)
            \o (IF v = 4 THEN <<words[11]>> \o SubSeq(words, at, at + words[11] - 1) ELSE <<>>))
  BY <1>1, <1>2, <1>4, <1>8, Zenon
<1> HIDE DEF at
<1>6. PageChecksum(words) = SealOf(MixedOf(d.ns, d.project, d.revision, d.generation, d.nodes,
                                           d.assets, d.program, v))
  <2>1. PageChecksum(words) =
        SealOf(<<v, d.ns, d.project, d.revision, d.generation, Len(d.nodes)>>
            \o FlattenSeq([i \in DOMAIN d.nodes |-> PageMixed(d.nodes[i], v)])
            \o <<Len(d.assets)>> \o FlattenSeq(d.assets)
            \o (IF v = 4 THEN <<Len(d.program)>> \o d.program ELSE <<>>))
    BY <1>2, <1>3, <1>5, Zenon
  <2> QED
    BY <2>1, Zenon DEF MixedOf
<1>7. Mixed(d, v) = MixedOf(d.ns, d.project, d.revision, d.generation, d.nodes, d.assets,
                            d.program, v)
  BY MixedIs, Zenon
<1> QED
  BY <1>6, <1>7, Zenon

\* A seal is above zero, whatever the words.
LEMMA SealIsAbove ==
  ASSUME NEW values
  PROVE  SealOf(values) > 0
<1> DEFINE sum == MixAll(137, values)
<1>1. SealOf(values) = IF sum > 0 THEN sum ELSE 1
  BY Zenon DEF SealOf, SealFrom
<1> HIDE DEF sum
<1>2. 1 > 0
  OBVIOUS
<1> QED
  BY <1>1, <1>2, Zenon

\* What the studio holds of a document that it took, and its seal.
LEMMA AdoptedIs ==
  ASSUME NEW d, NEW x, d.nodes \in Seq(NodeFields),
         \A i \in 1 .. Len(d.nodes) : d.nodes[i].parent >= 0, ProgramStands(d.program, 4),
         x.ns = d.ns, x.project = d.project, x.revision = d.revision,
         x.generation = d.generation, x.nodes = d.nodes, x.assets = d.assets,
         x.program = d.program
  PROVE  Mixed(Adopted(x), 4) = Mixed(d, 4)
<1> DEFINE y == Adopted(x)
           floored(n) == [n EXCEPT !.parent = IF @ > 0 THEN @ ELSE 0]
<1>1. /\ y.ns = x.ns /\ y.project = x.project /\ y.revision = x.revision
      /\ y.generation = x.generation /\ y.assets = x.assets
      /\ y.nodes = [i \in DOMAIN x.nodes |-> floored(x.nodes[i])]
      /\ y.program = IF x.program = <<>> THEN <<>> ELSE Recoded(x.program)
  BY Zenon DEF Adopted
<1>2. y.program = d.program
  BY <1>1, Zenon DEF ProgramStands
<1>3. y.nodes = d.nodes
  <2>1. ASSUME NEW n \in NodeFields, n.parent >= 0 PROVE floored(n) = n
    BY <2>1 DEF NodeFields
  <2>2. DOMAIN d.nodes = 1 .. Len(d.nodes) /\ d.nodes = [i \in DOMAIN d.nodes |-> d.nodes[i]]
    BY LenProperties
  <2>3. \A i \in DOMAIN d.nodes : d.nodes[i] \in NodeFields
    BY <2>2, ElementOfSeq
  <2> HIDE DEF floored
  <2>4. \A i \in DOMAIN d.nodes : floored(d.nodes[i]) = d.nodes[i]
    BY <2>1, <2>2, <2>3, Zenon
  <2>5. [i \in DOMAIN d.nodes |-> floored(d.nodes[i])] = [i \in DOMAIN d.nodes |-> d.nodes[i]]
    BY <2>4, Zenon
  <2> QED
    BY <1>1, <2>2, <2>5, Zenon
<1> HIDE DEF y
<1>4. Mixed(y, 4) = MixedOf(y.ns, y.project, y.revision, y.generation, y.nodes, y.assets,
                            y.program, 4)
  BY MixedIs, Zenon
<1>5. Mixed(d, 4) = MixedOf(d.ns, d.project, d.revision, d.generation, d.nodes, d.assets,
                            d.program, 4)
  BY MixedIs, Zenon
<1> QED
  BY <1>1, <1>2, <1>3, <1>4, <1>5, Zenon DEF y

\* How long a document may be.
LEMMA LengthIs ==
  ASSUME NEW d, NEW v, Stands(d, v)
  PROVE  AssetsEnd(d, v) + Len(d.program) \in 11 .. 11 + 64 * 13 + 32 * 5 + 776
<1> DEFINE n == Len(d.nodes)
           s == Stride(v)
           m == Len(d.assets)
           p == Len(d.program)
           t == n * s
<1>1. v \in 1 .. 4 /\ n \in 1 .. 64 /\ m \in 0 .. 32
  BY DEF Stands
<1>2. s \in 8 .. 13
  BY <1>1, StrideIs
<1>3. p \in 0 .. 776
  <2>1. CASE d.program = <<>>
    BY <2>1
  <2>2. CASE d.program # <<>>
    <3>1. ProgramTaken(d.program)
      BY <2>2, Zenon DEF Stands, ProgramStands
    <3>2. p \in 18 .. 776
      BY <3>1, HeaderIs
    <3> HIDE DEF p
    <3> QED
      BY <3>2
  <2> QED
    BY <2>1, <2>2
<1>4. t \in 0 .. 64 * 13
  <2> HIDE DEF n, s
  <2>1. s \in {8, 9, 10, 11, 12, 13}
    BY <1>2
  <2> QED
    BY <1>1, <2>1
<1>5. AssetsEnd(d, v) = 11 + t + m * 5
  BY PartsAre
<1> HIDE DEF n, s, m, p, t
<1>6. 11 + t + m * 5 + p \in 11 .. 11 + 64 * 13 + 32 * 5 + 776
  BY <1>1, <1>3, <1>4
<1> QED
  BY <1>5, <1>6 DEF p

\* The server takes words that are laid out and sealed: no check of its decoder fails.
LEMMA SealedIsTaken ==
  ASSUME NEW d, NEW v, Stands(d, v), NEW words, LaidOut(words, d, v),
         words[4] = SealOf(Mixed(d, v))
  PROVE  ServerAccepts(words)
<1> DEFINE x == Decoded(words, "server")
<1>1. /\ words[1] = Magic /\ words[2] = v /\ words[3] = Len(words) /\ words[5] = d.ns
      /\ words[6] = d.project /\ words[7] = d.revision /\ words[8] = Len(d.nodes)
      /\ words[9] = Len(d.assets) /\ words[10] = d.generation /\ words[11] = Len(d.program)
      /\ Len(words) = AssetsEnd(d, v) + Len(d.program)
  BY DEF LaidOut
<1>2. /\ v \in 1 .. 4 /\ Len(d.nodes) \in 1 .. 64 /\ Len(d.assets) \in 0 .. 32
      /\ d.generation > 0 /\ ProgramStands(d.program, v) /\ StudioTakes(d)
  BY DEF Stands
<1>3. d.ns \in Numbers /\ d.project \in Numbers /\ d.revision \in Numbers
  BY <1>2, Zenon DEF StudioTakes
<1>4. /\ x.nodes = d.nodes /\ x.assets = d.assets /\ x.program = d.program
      /\ Mixed(x, words[2]) = Mixed(d, v)
  BY DocumentIsRead
<1>5. x.ns = d.ns /\ x.project = d.project /\ x.revision = d.revision
      /\ x.generation = d.generation
  <2>1. x.ns = words[5] /\ x.project = words[6] /\ x.revision = words[7]
        /\ x.generation = words[10]
    BY Zenon DEF Decoded
  <2> QED
    BY <1>1, <2>1, Zenon
<1> HIDE DEF x
<1>6. StudioTakes(x)
  BY <1>2, <1>3, <1>4, <1>5, TakesTheSame
<1>7. words[4] = SealOf(Mixed(IF v = 4 THEN Adopted(x) ELSE x, v))
  <2>1. CASE v = 4
    <3>1. /\ d.nodes \in Seq(NodeFields) /\ ProgramStands(d.program, 4)
          /\ \A i \in 1 .. Len(d.nodes) : d.nodes[i].parent >= 0
      BY <2>1, Zenon DEF Stands
    <3>2. Mixed(Adopted(x), 4) = Mixed(d, 4)
      BY <1>4, <1>5, <3>1, AdoptedIs
    <3> QED
      BY <2>1, <3>2, Zenon
  <2>2. CASE v # 4
    BY <1>1, <1>4, <2>2, Zenon
  <2> QED
    BY <2>1, <2>2
<1>8. words[4] > 0
  BY SealIsAbove
<1>9. Len(words) >= 11 /\ Len(words) <= 11 + 64 * 13 + 32 * 5 + 776
  <2> DEFINE L == Len(words)
  <2>1. L \in 11 .. 11 + 64 * 13 + 32 * 5 + 776
    BY <1>1, LengthIs, Zenon
  <2> HIDE DEF L
  <2>2. L >= 11 /\ L <= 11 + 64 * 13 + 32 * 5 + 776
    BY <2>1
  <2> QED
    BY <2>2 DEF L
<1>10. words[5] > 0 /\ words[6] > 0 /\ words[7] > 0 /\ words[8] > 0 /\ words[10] > 0
       /\ words[8] <= 64 /\ words[9] \in 0 .. 32
  <2>1. d.ns > 0 /\ d.project > 0 /\ d.revision > 0
    BY <1>3, NumbersAre
  <2> DEFINE n == Len(d.nodes)
             m == Len(d.assets)
  <2>2. n \in 1 .. 64
    BY <1>2, Zenon
  <2>3. m \in 0 .. 32
    BY <1>2, Zenon
  <2> HIDE DEF n, m
  <2>4. n > 0 /\ n <= 64
    BY <2>2
  <2>5. words[8] = n /\ words[9] = m
    BY <1>1, Zenon DEF n, m
  <2> QED
    BY <1>1, <1>2, <2>1, <2>3, <2>4, <2>5, Zenon
<1>11. words[11] = 0 \/ (v = 4 /\ words[11] \in 18 .. 776)
  <2>1. CASE d.program = <<>>
    BY <1>1, <2>1
  <2>2. CASE d.program # <<>>
    <3>1. v = 4 /\ ProgramTaken(d.program)
      BY <1>2, <2>2, Zenon DEF ProgramStands
    <3> QED
      BY <1>1, <3>1, HeaderIs
  <2> QED
    BY <2>1, <2>2
<1>12. ASSUME v >= 2, NEW i \in 1 .. words[8]
       PROVE  words[11 + (i - 1) * Stride(v) + 12] = 0
  BY <1>1, <1>12, ReservedIsZero
<1> HIDE DEF x
<1>13. \A i \in {4, 5, 6, 7, 8, 10} : words[i] > 0
  BY <1>8, <1>10
<1>14. ServerAccepts(words) <=>
         /\ Len(words) >= 11 /\ words[1] = Magic /\ words[2] \in 1 .. 4
         /\ words[3] = Len(words) /\ Len(words) <= 11 + 64 * 13 + 32 * 5 + 776
         /\ \A i \in {4, 5, 6, 7, 8, 10} : words[i] > 0
         /\ words[8] <= 64 /\ words[9] \in 0 .. 32
         /\ words[11] = 0 \/ (words[2] = 4 /\ words[11] \in 18 .. 776)
         /\ words[2] >= 2 =>
              \A i \in 1 .. words[8] : words[11 + (i - 1) * Stride(words[2]) + 12] = 0
         /\ StudioTakes(x)
         /\ words[4] = SealOf(Mixed(IF words[2] = 4 THEN Adopted(x) ELSE x, words[2]))
  BY Zenon DEF ServerAccepts, x
<1>15. \A i \in 1 .. words[8] : v >= 2 => words[11 + (i - 1) * Stride(v) + 12] = 0
  BY <1>12, Zenon
<1> QED
  BY <1>1, <1>2, <1>6, <1>7, <1>9, <1>10, <1>11, <1>13, <1>14, <1>15, Zenon

\* Words that are laid out and sealed are accepted by both.
LEMMA SealedIsAccepted ==
  ASSUME NEW d, NEW v, Stands(d, v), NEW words, LaidOut(words, d, v),
         words[4] = SealOf(Mixed(d, v))
  PROVE  PageAccepts(words) /\ PageChecksum(words) = words[4] /\ ServerAccepts(words)
<1>1. PageChecksum(words) = words[4]
  BY SealIsShared
<1>2. ServerAccepts(words)
  BY SealedIsTaken
<1>3. PageAccepts(words)
  <2>1. PageDecoded(words).program = d.program
    BY DocumentIsRead DEF PageDecoded
  <2> DEFINE program == d.program
             L == Len(program)
  <2>2. /\ words[1] = Magic /\ words[2] = v /\ words[3] = Len(words)
        /\ words[8] = Len(d.nodes) /\ words[9] = Len(d.assets) /\ words[11] = L
        /\ Len(words) = AssetsEnd(d, v) + L
    BY DEF LaidOut
  <2>3. /\ v \in 1 .. 4 /\ Len(d.nodes) \in 1 .. 64 /\ Len(d.assets) \in 0 .. 32
        /\ program \in Seq(Int) /\ ProgramStands(program, v)
    BY DEF Stands
  <2>4. program # <<>> =>
          /\ v = 4 /\ L \in 18 .. 776 /\ HeaderStands(program)
          /\ \A i \in 1 .. program[8] :
               program[10 + program[6] * 2 + program[7] * 3 + 3 * i] \in 6 .. 9
    <3>1. SUFFICES ASSUME program # <<>>
                   PROVE  /\ v = 4 /\ L \in 18 .. 776 /\ HeaderStands(program)
                          /\ \A i \in 1 .. program[8] :
                               program[10 + program[6] * 2 + program[7] * 3 + 3 * i] \in 6 .. 9
      OBVIOUS
    <3> HIDE DEF program
    <3>2. v = 4 /\ ProgramTaken(program)
      BY <2>3, <3>1, Zenon DEF ProgramStands
    <3>3. L \in 18 .. 776 /\ HeaderStands(program)
      BY <3>2, HeaderIs
    <3>4. \A i \in 1 .. program[8] :
            program[10 + program[6] * 2 + program[7] * 3 + 3 * i] \in 6 .. 9
      BY <2>3, <3>2, RulesAreRead, Zenon
    <3> QED
      BY <3>2, <3>3, <3>4, Zenon
  <2>5. Len(words) = 11 + words[8] * Stride(words[2]) + words[9] * 5 + words[11]
    <3>1. AssetsEnd(d, v) = 11 + Len(d.nodes) * Stride(v) + Len(d.assets) * 5
      BY PartsAre
    <3> QED
      BY <2>2, <3>1
  <2>6. L = 0 \/ (v = 4 /\ L \in 18 .. 776)
    <3>1. CASE program = <<>>
      BY <3>1
    <3>2. CASE program # <<>>
      BY <2>4, <3>2
    <3> QED
      BY <3>1, <3>2
  <2> HIDE DEF program, L
  <2>7. PageDecoded(words).program = program
    BY <2>1 DEF program
  <2>8. program # <<>> =>
          \A i \in 1 .. program[8] :
            program[10 + program[6] * 2 + program[7] * 3 + 3 * i] \in 6 .. 9
    BY <2>4, Zenon
  <2>9. words[8] \in 1 .. 64 /\ words[9] \in 0 .. 32
        /\ (words[11] = 0 \/ (words[2] = 4 /\ words[11] \in 18 .. 776))
    <3>1. words[2] = v /\ words[8] = Len(d.nodes) /\ words[9] = Len(d.assets) /\ words[11] = L
      BY <2>2, Zenon
    <3>2. Len(d.nodes) \in 1 .. 64 /\ Len(d.assets) \in 0 .. 32
      BY <2>3, Zenon
    <3>3. words[8] \in 1 .. 64 /\ words[9] \in 0 .. 32
      BY <3>1, <3>2, Zenon
    <3> HIDE DEF L
    <3>4. words[11] = 0 \/ (words[2] = 4 /\ words[11] \in 18 .. 776)
      BY <2>6, <3>1, Zenon
    <3> QED
      BY <3>3, <3>4, Zenon
  <2> DEFINE rules(q) ==
        \A i \in 1 .. q[8] : q[10 + q[6] * 2 + q[7] * 3 + 3 * i] \in 6 .. 9
  <2>10. PageAccepts(words) <=>
           LET q == PageDecoded(words).program IN
           /\ words[1] = Magic /\ words[2] \in 1 .. 4
           /\ words[8] \in 1 .. 64 /\ words[9] \in 0 .. 32
           /\ (words[11] = 0 \/ (words[2] = 4 /\ words[11] \in 18 .. 776))
           /\ words[3] = Len(words)
           /\ Len(words) = 11 + words[8] * Stride(words[2]) + words[9] * 5 + words[11]
           /\ q # <<>> => HeaderStands(q) /\ rules(q)
    <3> DEFINE q == PageDecoded(words).program
    <3> HIDE DEF q
    <3>1. HeaderStands(q) <=>
            /\ q[1] = 1111839304 /\ q[2] = 1
            /\ q[6] \in 1 .. 64 /\ q[7] \in 1 .. 128 /\ q[8] \in 1 .. 64
            /\ q[10] = Len(q) /\ Len(q) = 10 + q[6] * 2 + q[7] * 3 + q[8] * 3
      BY SMT DEF HeaderStands
    <3> QED
      BY <3>1, SMT DEF PageAccepts, q
  <2>11. program # <<>> => HeaderStands(program) /\ rules(program)
    BY <2>4, Zenon
  <2> HIDE DEF rules
  <2> QED
    BY <2>2, <2>3, <2>5, <2>7, <2>9, <2>10, <2>11, Zenon
<1> QED
  BY <1>1, <1>2, <1>3

\* What encode writes is laid out and sealed.
LEMMA EncodedIsLaidOut ==
  ASSUME NEW d, NEW v, Stands(d, v)
  PROVE  LaidOut(Encoded(d, v), d, v) /\ Encoded(d, v)[4] = SealOf(Mixed(d, v))
<1> DEFINE n == Len(d.nodes)
           m == Len(d.assets)
           p == Len(d.program)
           s == Stride(v)
           seal == SealOf(Mixed(d, v))
           W == Int \cup {seal}
           seqs == [i \in DOMAIN d.nodes |-> NodeWords(d.nodes[i], v)]
           nodes == FlattenSeq(seqs)
           assets == FlattenSeq(d.assets)
           body == nodes \o assets \o d.program
           header == <<Magic, v, 11 + Len(body), seal, d.ns, d.project, d.revision,
                       n, m, d.generation, p>>
           words == Encoded(d, v)
<1>1. /\ n \in Nat /\ m \in Nat /\ p \in Nat /\ s \in Nat /\ n * s \in Nat
      /\ AssetsEnd(d, v) = 11 + n * s + m * 5
  BY PartsAre
<1>2. /\ v \in 1 .. 4 /\ d.ns \in Int /\ d.project \in Int /\ d.revision \in Int
      /\ d.generation \in Int /\ d.program \in Seq(Int) /\ ProgramStands(d.program, v)
  BY DEF Stands
<1>3. words = header \o body
  <2>1. (IF v = 4 THEN d.program ELSE <<>>) = d.program
    BY <1>2 DEF ProgramStands
  <2> DEFINE inline == [i \in DOMAIN d.nodes |-> LET n1 == d.nodes[i] IN
        <<n1.id, n1.parent, n1.kind, EncodeSigned(n1.x), EncodeSigned(n1.y), EncodeSigned(n1.z),
          EncodeSigned(n1.rotation), n1.scaleX>>
        \o (IF v >= 2 THEN <<n1.scaleY, n1.scaleZ, n1.color, 0>> ELSE <<>>)
        \o (IF v >= 3 THEN <<n1.asset>> ELSE <<>>)]
  <2>2. inline = seqs
    BY Zenon DEF NodeWords
  <2> DEFINE program == IF v = 4 THEN d.program ELSE <<>>
             whole == FlattenSeq(inline) \o FlattenSeq(d.assets) \o program
  <2>3. words = <<Magic, v, 11 + Len(whole), SealOf(Mixed(d, v)), d.ns, d.project, d.revision,
                  Len(d.nodes), Len(d.assets), d.generation, Len(program)>> \o whole
    BY Zenon DEF Encoded
  <2> HIDE DEF inline, seqs
  <2> QED
    BY <2>1, <2>2, <2>3, Zenon
<1>4. FlatOf(nodes, seqs, n, s, W)
  <2>1. DOMAIN d.nodes = 1 .. n
    BY DEF Stands
  <2>2. ASSUME NEW k \in 1 .. n
        PROVE  seqs[k] = NodeWords(d.nodes[k], v) /\ seqs[k] \in Seq(W) /\ Len(seqs[k]) = s
    <3>1. NodeOf(d.nodes[k], v)
      BY DEF Stands
    <3>2. NodeSays(NodeWords(d.nodes[k], v), d.nodes[k], v)
      BY <1>2, <3>1, NodeIsWritten
    <3>3. seqs[k] = NodeWords(d.nodes[k], v)
      BY <2>1
    <3> DEFINE w == NodeWords(d.nodes[k], v)
    <3>4. w \in Seq(Int) /\ Len(w) = s
      BY <3>2, Zenon DEF NodeSays
    <3> HIDE DEF w
    <3>5. w \in Seq(W)
      BY <3>4
    <3> QED
      BY <3>3, <3>4, <3>5 DEF w
  <2>3. seqs \in [1 .. n -> Seq(W)]
    BY <2>1, <2>2
  <2> HIDE DEF seqs, W, s, n
  <2> QED
    BY <1>1, <2>2, <2>3, FlattenReads
<1>5. FlatOf(assets, d.assets, m, 5, W)
  <2> DEFINE list == d.assets
             five == 5
  <2>1. list \in Seq(Seq(Int)) /\ \A i \in 1 .. m : Len(list[i]) = five
    BY DEF Stands
  <2>2. list \in [1 .. m -> Seq(Int)]
    BY <2>1
  <2> HIDE DEF m, list
  <2>3. list \in [1 .. m -> Seq(W)]
    BY <2>2
  <2>4. five \in Nat
    OBVIOUS
  <2> HIDE DEF W, five
  <2>5. FlatOf(FlattenSeq(list), list, m, five, W)
    BY <1>1, <2>1, <2>3, <2>4, FlattenReads
  <2> QED
    BY <2>5 DEF list, five
<1>6. \A k \in 1 .. n : seqs[k] = NodeWords(d.nodes[k], v)
  <2>1. DOMAIN d.nodes = 1 .. n
    BY DEF Stands
  <2> QED
    BY <2>1
<1>7. JoinedThree(body, nodes, assets, d.program, W)
  <2>1. nodes \in Seq(W) /\ assets \in Seq(W)
    BY <1>4, <1>5 DEF FlatOf
  <2>2. d.program \in Seq(W)
    BY <1>2
  <2> HIDE DEF nodes, assets, W
  <2> QED
    BY <2>1, <2>2, JoinsThree
<1>8. /\ body \in Seq(W) /\ Len(nodes) = n * s /\ Len(assets) = m * 5
      /\ Len(body) = n * s + m * 5 + p
      /\ \A i \in 1 .. n * s : body[i] = nodes[i]
      /\ \A i \in 1 .. m * 5 : body[n * s + i] = assets[i]
      /\ \A i \in 1 .. p : body[n * s + m * 5 + i] = d.program[i]
  <2>1. Len(nodes) = n * s /\ Len(assets) = m * 5
    BY <1>4, <1>5 DEF FlatOf
  <2> HIDE DEF body, nodes, assets, n, s, m, W
  <2> QED
    BY <1>7, <2>1 DEF JoinedThree
<1> HIDE DEF body
<1>9. Len(body) \in Nat
  BY <1>8, LenProperties
<1>10. /\ header \in Seq(W) /\ Len(header) = 11
       /\ header[1] = Magic /\ header[2] = v /\ header[3] = 11 + Len(body) /\ header[4] = seal
       /\ header[5] = d.ns /\ header[6] = d.project /\ header[7] = d.revision
       /\ header[8] = n /\ header[9] = m /\ header[10] = d.generation /\ header[11] = p
  <2>1. Magic \in Int
    BY SMT DEF Magic
  <2>2. v \in Int /\ 11 + Len(body) \in Int /\ n \in Int /\ m \in Int /\ p \in Int
    BY <1>1, <1>2, <1>9
  <2> HIDE DEF seal, n, m, p
  <2> QED
    BY <1>2, <2>1, <2>2
<1> HIDE DEF header, nodes, assets, W, seqs, words
<1>11. /\ words \in Seq(W) /\ Len(words) = 11 + Len(body)
       /\ \A i \in 1 .. 11 : words[i] = header[i]
       /\ \A i \in 1 .. Len(body) : words[11 + i] = body[i]
  <2>1. header \in Seq(W) /\ body \in Seq(W)
    BY <1>8, <1>10
  <2> HIDE DEF n, m, p, s, seal
  <2>2. /\ header \o body \in Seq(W) /\ Len(header \o body) = Len(header) + Len(body)
        /\ \A i \in 1 .. Len(header) : (header \o body)[i] = header[i]
        /\ \A i \in 1 .. Len(body) : (header \o body)[Len(header) + i] = body[i]
    BY <2>1, JoinsTwo
  <2>3. Len(header) = 11
    BY <1>10
  <2> QED
    BY <1>3, <2>2, <2>3
<1>12. ASSUME NEW i \in 1 .. Len(body) PROVE words[11 + i] = body[i]
  BY <1>11
<1>13. /\ words[1] = Magic /\ words[2] = v /\ words[3] = 11 + Len(body) /\ words[4] = seal
       /\ words[5] = d.ns /\ words[6] = d.project /\ words[7] = d.revision
       /\ words[8] = n /\ words[9] = m /\ words[10] = d.generation /\ words[11] = p
  <2>1. /\ words[1] = header[1] /\ words[2] = header[2] /\ words[3] = header[3]
        /\ words[4] = header[4] /\ words[5] = header[5] /\ words[6] = header[6]
        /\ words[7] = header[7] /\ words[8] = header[8] /\ words[9] = header[9]
        /\ words[10] = header[10] /\ words[11] = header[11]
    BY <1>11
  <2> QED
    BY <1>10, <2>1, Zenon
<1>14. ASSUME NEW k \in 1 .. n, NEW j \in 1 .. s
       PROVE  words[11 + ((k - 1) * s + j)] = NodeWords(d.nodes[k], v)[j]
  <2> DEFINE at == (k - 1) * s + j
             t == n * s
  <2>1. nodes[at] = NodeWords(d.nodes[k], v)[j]
    BY <1>4, <1>6 DEF FlatOf
  <2>2. at \in 1 .. t
    <3>1. k - 1 \in Nat /\ k \in Nat /\ k <= n /\ (k - 1) + 1 = k
      BY <1>1
    <3>2. (k - 1) * s \in Nat /\ k * s = (k - 1) * s + s /\ k * s <= t
      <4> HIDE DEF n, s
      <4> QED
        BY <1>1, <3>1, MoreTimes
    <3> DEFINE a == (k - 1) * s
               b == k * s
    <3> HIDE DEF a, b, t
    <3>3. a \in Nat /\ b = a + s /\ b <= t /\ t \in Nat
      BY <1>1, <3>2 DEF a, b, t
    <3> HIDE DEF s
    <3>4. a + j \in 1 .. t
      BY <1>1, <3>3
    <3> QED
      BY <3>4 DEF a
  <2> HIDE DEF at
  <2>3. /\ t \in Nat /\ Len(body) = t + m * 5 + p /\ \A i \in 1 .. t : body[i] = nodes[i]
        /\ m \in Nat /\ p \in Nat
    BY <1>1, <1>8
  <2> HIDE DEF t, m, p
  <2>4. at \in 1 .. Len(body) /\ body[at] = nodes[at]
    BY <2>2, <2>3
  <2> QED
    BY <1>12, <2>1, <2>4 DEF at
<1>15. ASSUME NEW k \in 1 .. m, NEW j \in 1 .. 5
       PROVE  words[11 + n * s + ((k - 1) * 5 + j)] = d.assets[k][j]
  <2> DEFINE at == (k - 1) * 5 + j
             t == n * s
  <2>1. assets[at] = d.assets[k][j]
    BY <1>5 DEF FlatOf
  <2>2. at \in 1 .. m * 5
    BY <1>1
  <2> HIDE DEF at
  <2>3. /\ t \in Nat /\ Len(body) = t + m * 5 + p /\ \A i \in 1 .. m * 5 : body[t + i] = assets[i]
        /\ m \in Nat /\ p \in Nat
    BY <1>1, <1>8
  <2> DEFINE u == m * 5
             b == Len(body)
  <2> HIDE DEF t, m, p
  <2>4. body[t + at] = assets[at]
    BY <2>2, <2>3
  <2>5. at \in 1 .. u /\ u \in Nat /\ b = t + u + p
    BY <2>2, <2>3
  <2> HIDE DEF u, b
  <2>6. t + at \in 1 .. b /\ 11 + t + at = 11 + (t + at)
    BY <2>3, <2>5
  <2> QED
    BY <1>12, <2>1, <2>4, <2>6 DEF at, t, b
<1>16. ASSUME NEW j \in 1 .. p PROVE words[AssetsEnd(d, v) + j] = d.program[j]
  <2> DEFINE t == n * s
  <2>1. /\ t \in Nat /\ Len(body) = t + m * 5 + p
        /\ \A i \in 1 .. p : body[t + m * 5 + i] = d.program[i]
        /\ AssetsEnd(d, v) = 11 + t + m * 5 /\ m \in Nat /\ p \in Nat
    BY <1>1, <1>8
  <2> HIDE DEF t, m, p
  <2>2. t + m * 5 + j \in 1 .. Len(body) /\ AssetsEnd(d, v) + j = 11 + (t + m * 5 + j)
    BY <2>1
  <2> QED
    BY <1>12, <2>1, <2>2
<1>17. Len(words) = AssetsEnd(d, v) + p
  <2> DEFINE t == n * s
  <2>1. /\ t \in Nat /\ Len(body) = t + m * 5 + p /\ AssetsEnd(d, v) = 11 + t + m * 5
        /\ m \in Nat /\ p \in Nat
    BY <1>1, <1>8
  <2>2. Len(words) = 11 + Len(body)
    BY <1>11
  <2> HIDE DEF t, m, p, n, s, seal
  <2> QED
    BY <2>1, <2>2
<1>18. (\E T : words \in Seq(T)) /\ words[3] = Len(words)
  BY <1>11, <1>13
<1>19. LaidOut(words, d, v)
  BY <1>13, <1>14, <1>15, <1>16, <1>17, <1>18, Zenon DEF LaidOut
<1> QED
  BY <1>13, <1>19 DEF words

\* The document of a blank arena.
Floor == [id |-> 1, parent |-> 0, kind |-> 3, x |-> 0, y |-> 0, z |-> 0, rotation |-> 0,
          scaleX |-> 1000, scaleY |-> 1000, scaleZ |-> 1000, color |-> White, asset |-> 0]
Blank(ns, project) ==
  [ns |-> ns, project |-> project, revision |-> 1, generation |-> 1,
   nodes |-> <<Floor>>, assets |-> <<>>, program |-> <<>>]

\* A blank arena is a document of version 3.
LEMMA BlankStands ==
  ASSUME NEW ns \in Numbers, NEW project \in Numbers
  PROVE  Stands(Blank(ns, project), 3)
<1> DEFINE d == Blank(ns, project)
<1>1. /\ d.ns = ns /\ d.project = project /\ d.revision = 1 /\ d.generation = 1
      /\ d.nodes = <<Floor>> /\ d.assets = <<>> /\ d.program = <<>>
  BY Zenon DEF Blank
<1>0. ns \in Int /\ project \in Int
  BY NumbersAre
<1> HIDE DEF d
<1>2. White \in Int
  BY SMT DEF White
<1>3. Floor \in NodeFields /\ Floor.asset = 0 /\ Floor.parent = 0
  BY <1>2 DEF Floor, NodeFields
<1>4. NodeOf(Floor, 3)
  BY <1>3 DEF NodeOf
<1>13. /\ Floor.id = 1 /\ Floor.kind = 3 /\ Floor.x = 0 /\ Floor.y = 0 /\ Floor.z = 0
       /\ Floor.rotation = 0 /\ Floor.scaleX = 1000 /\ Floor.scaleY = 1000
       /\ Floor.scaleZ = 1000 /\ Floor.color = White /\ Floor.asset = 0
  BY DEF Floor
<1> HIDE DEF Floor
<1>14. Floor.id > 0 /\ NodeTaken(Floor)
  <2>1. /\ 1 \in Numbers /\ 3 \in Numbers /\ 1000 \in Numbers /\ White \in Colors
        /\ 0 \in Positions /\ 0 \in Turns /\ 0 \in AssetTokens
        /\ 1 > 0
    BY LargestAre, RangesAre
  <2>2. /\ Floor.id \in Numbers /\ Floor.kind \in Numbers
        /\ Floor.x \in Positions /\ Floor.y \in Positions
        /\ Floor.z \in Positions /\ Floor.rotation \in Turns
        /\ Floor.scaleX \in Numbers /\ Floor.scaleY \in Numbers /\ Floor.scaleZ \in Numbers
        /\ Floor.color \in Colors /\ Floor.asset \in AssetTokens /\ Floor.id > 0
    BY <1>13, <2>1
  <2> QED
    BY <2>2, FieldsAreTaken
<1>5. /\ <<Floor>> \in Seq(NodeFields) /\ Len(<<Floor>>) = 1 /\ <<Floor>>[1] = Floor
      /\ \A i \in 1 .. 1 : i = 1
  BY <1>3
<1>6. \A i \in 1 .. Len(d.nodes) : NodeOf(d.nodes[i], 3) /\ d.nodes[i].parent >= 0
  BY <1>1, <1>3, <1>4, <1>5
<1>7. <<>> \in Seq(Seq(Int)) /\ <<>> \in Seq(Int) /\ Len(<<>>) = 0
  OBVIOUS
<1>8. ProgramStands(d.program, 3)
  BY <1>1, Zenon DEF ProgramStands
<1>9. d.nodes \in Seq(NodeFields) /\ Len(d.nodes) \in 1 .. 64
  BY <1>1, <1>5
<1>10. /\ d.assets \in Seq(Seq(Int)) /\ Len(d.assets) \in 0 .. 32
       /\ \A i \in 1 .. Len(d.assets) : Len(d.assets[i]) = 5
       /\ d.program \in Seq(Int)
  BY <1>1, <1>7
<1>11. /\ d.ns \in Int /\ d.project \in Int /\ d.revision \in Int /\ d.generation \in Int
       /\ d.generation > 0
  BY <1>0, <1>1
<1>15. ParentsTaken(d.nodes)
  <2>1. DOMAIN d.nodes = {1} /\ d.nodes[1] = Floor
    BY <1>1, <1>5
  <2>2. ~ (Floor.parent > 0) /\ Floor.id # Floor.parent
    BY <1>3, <1>14
  <2>3. ASSUME NEW S \in SUBSET DOMAIN d.nodes, S # {}
        PROVE  \E i \in S : \A j \in S : d.nodes[j].id # d.nodes[i].parent
    BY <2>1, <2>2, <2>3, Zenon
  <2> QED
    BY <2>1, <2>2, <2>3, Zenon DEF ParentsTaken
<1>16. StudioTakes(d)
  <2>1. d.ns \in Numbers /\ d.project \in Numbers /\ d.revision \in Numbers
    BY <1>1, NumbersAre
  <2>2. /\ DOMAIN d.nodes = 1 .. 1 /\ d.nodes[1] = Floor /\ DOMAIN d.assets = {}
        /\ \A i, j \in 1 .. 1 : ~ (i < j)
    BY <1>1, <1>5
  <2>3. \A i \in DOMAIN d.nodes : NodeTaken(d.nodes[i])
    BY <1>5, <1>14, <2>2, Zenon
  <2> QED
    BY <1>1, <1>15, <2>1, <2>2, <2>3, Zenon DEF StudioTakes
<1>12. Stands(d, 3)
  <2>1. 3 \in 1 .. 4
    OBVIOUS
  <2> QED
    BY <1>6, <1>8, <1>9, <1>10, <1>11, <1>16, <2>1, Zenon DEF Stands
<1> QED
  BY <1>12 DEF d

BlankFields(ns, project) ==
  <<3, ns, project, 1, 1, 1, 1, 0, 3, 0, 0, 0, 0, 1000, 1000, 1000, White, 0, 0>>
BlankNode == <<1, 0, 3, 0, 0, 0, 0, 1000, 1000, 1000, White, 0, 0>>

\* The page's own words of a blank arena are the ones a server writes of that document.
LEMMA BlankIsEncoded ==
  ASSUME NEW ns \in Int, NEW project \in Int
  PROVE  BlankArena(ns, project) = Encoded(Blank(ns, project), 3)
<1> DEFINE d == Blank(ns, project)
           mixed == <<1, 0, 3, 0, 0, 0, 0, 1000, 1000, 1000, White, 0>>
           seqs == [i \in DOMAIN d.nodes |-> NodeWords(d.nodes[i], 3)]
           mixes == [i \in DOMAIN d.nodes |-> PageMixed(d.nodes[i], 3)]
<1>1. /\ d.ns = ns /\ d.project = project /\ d.revision = 1 /\ d.generation = 1
      /\ d.nodes = <<Floor>> /\ d.assets = <<>> /\ d.program = <<>>
  BY Zenon DEF Blank
<1>2. White \in Int
  BY SMT DEF White
<1>3. /\ Floor.id = 1 /\ Floor.parent = 0 /\ Floor.kind = 3 /\ Floor.x = 0 /\ Floor.y = 0
      /\ Floor.z = 0 /\ Floor.rotation = 0 /\ Floor.scaleX = 1000 /\ Floor.scaleY = 1000
      /\ Floor.scaleZ = 1000 /\ Floor.color = White /\ Floor.asset = 0
  BY DEF Floor
<1> HIDE DEF d, Floor
<1>4. /\ DOMAIN d.nodes = 1 .. 1 /\ d.nodes[1] = Floor /\ Len(d.nodes) = 1
      /\ Len(d.assets) = 0 /\ Len(d.program) = 0
  BY <1>1
<1>5. NodeWords(Floor, 3) = BlankNode
  <2>1. EncodeSigned(0) = 0
    BY DEF EncodeSigned
  <2>2. NodeWords(Floor, 3) = <<1, 0, 3, 0, 0, 0, 0, 1000>> \o <<1000, 1000, White, 0>> \o <<0>>
    BY <1>3, <2>1, SMT DEF NodeWords
  <2> QED
    BY <2>2, <1>2, SMT DEF BlankNode
<1>6. PageMixed(Floor, 3) = mixed
  <2>1. PageMixed(Floor, 3) = <<1, 0, 3, 0, 0, 0, 0, 1000>> \o <<1000, 1000, White>> \o <<0>>
    BY <1>3, SMT DEF PageMixed
  <2> QED
    BY <2>1, <1>2, SMT
<1>7. BlankNode \in Seq(Int) /\ Len(BlankNode) = 13 /\ mixed \in Seq(Int)
  BY <1>2 DEF BlankNode
<1>8. FlattenSeq(seqs) = BlankNode
  <2>0. \A i \in 1 .. 1 : i = 1
    OBVIOUS
  <2>1. DOMAIN seqs = 1 .. 1 /\ \A i \in 1 .. 1 : seqs[i] = BlankNode
    BY <1>4, <1>5, <2>0, Zenon
  <2>2. seqs = [i \in DOMAIN seqs |-> seqs[i]]
    BY Zenon
  <2> HIDE DEF seqs
  <2>3. seqs \in [1 .. 1 -> Seq(Int)] /\ seqs[1] = BlankNode
    BY <1>7, <2>1, <2>2
  <2> QED
    BY <1>7, <2>1, <2>3, FlatOne
<1> HIDE DEF mixed
<1>9. FlattenSeq(mixes) = mixed
  <2>0. \A i \in 1 .. 1 : i = 1
    OBVIOUS
  <2>1. DOMAIN mixes = 1 .. 1 /\ \A i \in 1 .. 1 : mixes[i] = mixed
    BY <1>4, <1>6, <2>0, Zenon
  <2>2. mixes = [i \in DOMAIN mixes |-> mixes[i]]
    BY Zenon
  <2> HIDE DEF mixes
  <2>3. mixes \in [1 .. 1 -> Seq(Int)] /\ mixes[1] = mixed
    BY <1>7, <2>1, <2>2
  <2> QED
    BY <1>7, <2>1, <2>3, FlatOne
<1>10. Mixed(d, 3) = BlankFields(ns, project)
  <2>1. Mixed(d, 3) = MixedOf(ns, project, 1, 1, d.nodes, <<>>, <<>>, 3)
    BY <1>1, MixedIs
  <2>2. MixedOf(ns, project, 1, 1, d.nodes, <<>>, <<>>, 3) =
          <<3, ns, project, 1, 1, 1>> \o mixed \o <<0>> \o <<>> \o <<>>
    <3>1. MixedOf(ns, project, 1, 1, d.nodes, <<>>, <<>>, 3) =
          <<3, ns, project, 1, 1, Len(d.nodes)>> \o FlattenSeq(mixes) \o <<Len(<<>>)>>
          \o FlattenSeq(<<>>) \o <<>>
      BY SMT DEF MixedOf
    <3>2. Len(<<>>) = 0
      OBVIOUS
    <3> HIDE DEF mixes, mixed
    <3> QED
      BY <1>4, <1>9, <3>1, <3>2, FlatNone
  <2> DEFINE x == <<3, ns, project, 1, 1, 1>>
             y == x \o mixed
             z == y \o <<0>>
  <2> DEFINE long == <<3, ns, project, 1, 1, 1, 1, 0, 3, 0, 0, 0, 0, 1000, 1000, 1000, White, 0>>
  <2>3. z = BlankFields(ns, project) /\ z \in Seq(Int)
    <3>1. y = long
      <4>1. x \in Seq(Int) /\ long \in Seq(Int) /\ Len(x) = 6 /\ Len(long) = 6 + 12
        BY <1>2
      <4>2. mixed \in Seq(Int) /\ Len(mixed) = 12
        BY <1>2 DEF mixed
      <4>3. ASSUME NEW i \in 1 .. 6 PROVE long[i] = x[i]
        BY i = 1 \/ i = 2 \/ i = 3 \/ i = 4 \/ i = 5 \/ i = 6
      <4>4. ASSUME NEW j \in 1 .. 12 PROVE long[6 + j] = mixed[j]
        <5>1. /\ long[6 + 1] = mixed[1] /\ long[6 + 2] = mixed[2] /\ long[6 + 3] = mixed[3]
              /\ long[6 + 4] = mixed[4] /\ long[6 + 5] = mixed[5] /\ long[6 + 6] = mixed[6]
              /\ long[6 + 7] = mixed[7] /\ long[6 + 8] = mixed[8] /\ long[6 + 9] = mixed[9]
              /\ long[6 + 10] = mixed[10] /\ long[6 + 11] = mixed[11] /\ long[6 + 12] = mixed[12]
          BY SMT DEF mixed
        <5>2. \/ j = 1 \/ j = 2 \/ j = 3 \/ j = 4 \/ j = 5 \/ j = 6
              \/ j = 7 \/ j = 8 \/ j = 9 \/ j = 10 \/ j = 11 \/ j = 12
          OBVIOUS
        <5> HIDE DEF long
        <5> QED
          BY <5>1, <5>2, Zenon
      <4> HIDE DEF x, long
      <4>5. /\ Len(long) = Len(x) + Len(mixed)
            /\ \A i \in 1 .. Len(x) : long[i] = x[i]
            /\ \A j \in 1 .. Len(mixed) : long[Len(x) + j] = mixed[j]
        BY <4>1, <4>2, <4>3, <4>4
      <4>6. x \in Seq(Int) /\ long \in Seq(Int) /\ mixed \in Seq(Int)
        BY <4>1, <4>2
      <4>7. x \o mixed = long
        BY <4>5, <4>6, JoinedIs
      <4> QED
        BY <4>7, Zenon
    <3>2. long \o <<0>> = BlankFields(ns, project)
      <4> DEFINE e == <<0>>
                 whole == BlankFields(ns, project)
                 m == 18
                 n == 1
      <4>1. /\ long \in Seq(Int) /\ e \in Seq(Int) /\ whole \in Seq(Int)
            /\ Len(long) = m /\ Len(e) = n /\ Len(whole) = m + n
        BY <1>2, SMT DEF BlankFields
      <4>2. ASSUME NEW i \in 1 .. m PROVE whole[i] = long[i]
        <5>1. /\ whole[1] = long[1] /\ whole[2] = long[2] /\ whole[3] = long[3]
              /\ whole[4] = long[4] /\ whole[5] = long[5] /\ whole[6] = long[6]
              /\ whole[7] = long[7] /\ whole[8] = long[8] /\ whole[9] = long[9]
              /\ whole[10] = long[10] /\ whole[11] = long[11] /\ whole[12] = long[12]
              /\ whole[13] = long[13] /\ whole[14] = long[14] /\ whole[15] = long[15]
              /\ whole[16] = long[16] /\ whole[17] = long[17] /\ whole[18] = long[18]
          BY SMT DEF BlankFields
        <5>2. \/ i = 1 \/ i = 2 \/ i = 3 \/ i = 4 \/ i = 5 \/ i = 6 \/ i = 7 \/ i = 8 \/ i = 9
              \/ i = 10 \/ i = 11 \/ i = 12 \/ i = 13 \/ i = 14 \/ i = 15 \/ i = 16 \/ i = 17
              \/ i = 18
          OBVIOUS
        <5> HIDE DEF long, whole
        <5> QED
          BY <5>1, <5>2, Zenon
      <4>3. ASSUME NEW j \in 1 .. n PROVE whole[m + j] = e[j]
        <5>1. whole[18 + 1] = e[1]
          BY SMT DEF BlankFields
        <5>2. j = 1
          OBVIOUS
        <5> HIDE DEF whole, e
        <5> QED
          BY <5>1, <5>2, Zenon
      <4> HIDE DEF long, e, whole
      <4>4. /\ Len(whole) = Len(long) + Len(e)
            /\ \A i \in 1 .. Len(long) : whole[i] = long[i]
            /\ \A j \in 1 .. Len(e) : whole[Len(long) + j] = e[j]
        BY <4>1, <4>2, <4>3
      <4>5. long \in Seq(Int) /\ e \in Seq(Int) /\ whole \in Seq(Int)
        BY <4>1
      <4>6. long \o e = whole
        BY <4>4, <4>5, JoinedIs
      <4> QED
        BY <4>6, Zenon DEF e, whole
    <3>3. BlankFields(ns, project) \in Seq(Int)
      BY <1>2, SMT DEF BlankFields
    <3> HIDE DEF y, long
    <3> QED
      BY <3>1, <3>2, <3>3, Zenon
  <2> HIDE DEF z
  <2>4. z \o <<>> = z
    BY <2>3, NoMore
  <2>5. Mixed(d, 3) = z \o <<>> \o <<>>
    BY <2>1, <2>2 DEF z
  <2> QED
    BY <2>3, <2>4, <2>5, Zenon
<1>11. Encoded(d, 3) =
         <<Magic, 3, 24, SealOf(BlankFields(ns, project)), ns, project, 1, 1, 0, 1, 0>>
                       \o BlankNode
  <2> DEFINE inline == [i \in DOMAIN d.nodes |-> LET n1 == d.nodes[i] IN
        <<n1.id, n1.parent, n1.kind, EncodeSigned(n1.x), EncodeSigned(n1.y), EncodeSigned(n1.z),
          EncodeSigned(n1.rotation), n1.scaleX>>
        \o (IF 3 >= 2 THEN <<n1.scaleY, n1.scaleZ, n1.color, 0>> ELSE <<>>)
        \o (IF 3 >= 3 THEN <<n1.asset>> ELSE <<>>)]
  <2>1. inline = seqs
    BY Zenon DEF NodeWords
  <2> DEFINE program == IF 3 = 4 THEN d.program ELSE <<>>
             whole == FlattenSeq(inline) \o FlattenSeq(d.assets) \o program
  <2>2. Encoded(d, 3) =
          <<Magic, 3, 11 + Len(whole), SealOf(Mixed(d, 3)), d.ns, d.project, d.revision,
                  Len(d.nodes), Len(d.assets), d.generation, Len(program)>> \o whole
    BY Zenon DEF Encoded
  <2>3. program = <<>> /\ Len(program) = 0
    OBVIOUS
  <2> HIDE DEF inline, seqs, program
  <2>4. whole = BlankNode \o <<>> \o <<>>
    BY <1>1, <1>8, <2>1, <2>3, FlatNone, Zenon
  <2>5. BlankNode \o <<>> = BlankNode
    BY <1>7, NoMore
  <2>6. whole = BlankNode
    BY <2>4, <2>5, Zenon
  <2> HIDE DEF whole
  <2>7. 11 + Len(whole) = 24
    <3>1. Len(whole) = 13
      BY <1>7, <2>6, Zenon
    <3> QED
      BY <3>1
  <2> QED
    BY <1>1, <1>4, <1>10, <2>2, <2>3, <2>6, <2>7, Zenon
<1>12. BlankArena(ns, project) =
         <<Magic, 3, 24, SealOf(BlankFields(ns, project)), ns, project, 1, 1, 0, 1, 0>> \o BlankNode
  BY SMT DEF BlankArena, BlankFields, BlankNode
<1> QED
  BY <1>11, <1>12, Zenon DEF d

\* A copy of a document.
Copied(d, project) ==
  [ns |-> d.ns, project |-> project, revision |-> 1, generation |-> 1,
   nodes |-> d.nodes, assets |-> d.assets, program |-> d.program]

\* The same words but for the seal and what a copy changes.
Follows(new, words, project) ==
  /\ (\E T : new \in Seq(T)) /\ Len(new) = Len(words)
  /\ new[6] = project /\ new[7] = 1 /\ new[10] = 1
  /\ \A i \in 1 .. Len(words) : i \notin {4, 6, 7, 10} => new[i] = words[i]

\* Words that follow those of a document are those of its copy.
LEMMA CopyIsLaidOut ==
  ASSUME NEW d, NEW v, Stands(d, v), NEW words, LaidOut(words, d, v), NEW project \in Numbers,
         NEW new, Follows(new, words, project)
  PROVE  Stands(Copied(d, project), v) /\ LaidOut(new, Copied(d, project), v)
<1> DEFINE c == Copied(d, project)
           n == Len(d.nodes)
           m == Len(d.assets)
           p == Len(d.program)
           s == Stride(v)
           t == n * s
           L == Len(words)
           A == AssetsEnd(d, v)
<1>1. /\ c.ns = d.ns /\ c.project = project /\ c.revision = 1 /\ c.generation = 1
      /\ c.nodes = d.nodes /\ c.assets = d.assets /\ c.program = d.program
  BY Zenon DEF Copied
<1> HIDE DEF c
<1>2. Stands(c, v)
  <2>1. 1 \in Int /\ 1 > 0 /\ project \in Int /\ 1 \in Numbers
    BY NumbersAre
  <2>2. d.ns \in Numbers /\ StudioTakes(d)
    BY Zenon DEF Stands, StudioTakes
  <2>3. StudioTakes(c)
    BY <1>1, <2>1, <2>2, TakesTheSame
  <2> QED
    BY <1>1, <2>1, <2>3, Zenon DEF Stands
<1>3. AssetsEnd(c, v) = A
  BY <1>1, Zenon DEF AssetsEnd
<1>4. /\ n \in Nat /\ m \in Nat /\ p \in Nat /\ s \in Nat /\ t \in Nat /\ A = 11 + t + m * 5
      /\ L = A + p /\ Len(new) = L
  BY PartsAre DEF LaidOut, Follows
<1>5. \A i \in 11 .. L : new[i] = words[i]
  <2> HIDE DEF L
  <2>1. \A i \in 11 .. L : i \in 1 .. L /\ i \notin {4, 6, 7, 10}
    OBVIOUS
  <2> QED
    BY <2>1 DEF Follows, L
<1>6. /\ new[1] = Magic /\ new[2] = v /\ new[3] = Len(new) /\ new[5] = d.ns
      /\ new[6] = project /\ new[7] = 1 /\ new[8] = n /\ new[9] = m
      /\ new[10] = 1 /\ new[11] = p
  <2>1. /\ words[1] = Magic /\ words[2] = v /\ words[3] = L /\ words[5] = d.ns
        /\ words[8] = n /\ words[9] = m /\ words[11] = p
    BY DEF LaidOut
  <2>2. L \in Int /\ L >= 11
    <3> HIDE DEF n, m, p, s, t, L, A
    <3> QED
      BY <1>4
  <2>3. /\ 1 \in 1 .. L /\ 2 \in 1 .. L /\ 3 \in 1 .. L /\ 5 \in 1 .. L /\ 8 \in 1 .. L
        /\ 9 \in 1 .. L /\ 11 \in 1 .. L
    <3> HIDE DEF L
    <3> QED
      BY <2>2
  <2>4. /\ new[1] = words[1] /\ new[2] = words[2] /\ new[3] = words[3] /\ new[5] = words[5]
        /\ new[8] = words[8] /\ new[9] = words[9] /\ new[11] = words[11]
    <3>1. \A i \in 1 .. L : i \notin {4, 6, 7, 10} => new[i] = words[i]
      BY Zenon DEF Follows
    <3> HIDE DEF L
    <3> QED
      BY <2>3, <3>1
  <2>5. new[6] = project /\ new[7] = 1 /\ new[10] = 1
    BY Zenon DEF Follows
  <2> QED
    BY <1>4, <2>1, <2>4, <2>5, Zenon
<1>7. ASSUME NEW k \in 1 .. n, NEW j \in 1 .. s
      PROVE  new[11 + ((k - 1) * s + j)] = NodeWords(d.nodes[k], v)[j]
  <2> DEFINE at == (k - 1) * s + j
  <2>1. words[11 + at] = NodeWords(d.nodes[k], v)[j]
    BY DEF LaidOut
  <2>2. at \in 1 .. t
    <3>1. k - 1 \in Nat /\ k \in Nat /\ k <= n /\ (k - 1) + 1 = k
      <4> HIDE DEF n
      <4> QED
        BY <1>4
    <3>2. (k - 1) * s \in Nat /\ k * s = (k - 1) * s + s /\ k * s <= t
      <4> HIDE DEF n, s
      <4> QED
        BY <1>4, <3>1, MoreTimes
    <3> DEFINE a == (k - 1) * s
               b == k * s
    <3> HIDE DEF a, b, t
    <3>3. a \in Nat /\ b = a + s /\ b <= t /\ t \in Nat
      BY <1>4, <3>2 DEF a, b, t
    <3> HIDE DEF s
    <3>4. a + j \in 1 .. t
      BY <1>4, <3>3
    <3> QED
      BY <3>4 DEF a
  <2> HIDE DEF at, n, m, p, s, t, L, A
  <2>3. 11 + at \in 11 .. L
    BY <1>4, <2>2
  <2> QED
    BY <1>5, <2>1, <2>3 DEF at
<1>8. ASSUME NEW k \in 1 .. m, NEW j \in 1 .. 5
      PROVE  new[11 + t + ((k - 1) * 5 + j)] = d.assets[k][j]
  <2> DEFINE at == 11 + t + ((k - 1) * 5 + j)
  <2>1. words[at] = d.assets[k][j]
    BY DEF LaidOut
  <2> HIDE DEF n, m, p, s, t, L, A
  <2>2. at \in 11 .. L
    BY <1>4
  <2> HIDE DEF at
  <2> QED
    BY <1>5, <2>1, <2>2 DEF at
<1>9. ASSUME NEW j \in 1 .. p PROVE new[A + j] = d.program[j]
  <2>1. words[A + j] = d.program[j]
    BY DEF LaidOut
  <2> HIDE DEF n, m, p, s, t, L, A
  <2>2. A + j \in 11 .. L
    BY <1>4
  <2> QED
    BY <1>5, <2>1, <2>2
<1>10. (\E T : new \in Seq(T)) /\ Len(new) = A + p
  <2>1. \E T : new \in Seq(T)
    BY Zenon DEF Follows
  <2> QED
    BY <1>4, <2>1, Zenon
<1>11. LaidOut(new, c, v)
  <2>1. (\E T : new \in Seq(T)) /\ Len(new) = AssetsEnd(c, v) + Len(c.program)
    BY <1>1, <1>3, <1>10, Zenon
  <2>2. /\ new[1] = Magic /\ new[2] = v /\ new[3] = Len(new) /\ new[5] = c.ns
        /\ new[6] = c.project /\ new[7] = c.revision /\ new[8] = Len(c.nodes)
        /\ new[9] = Len(c.assets) /\ new[10] = c.generation /\ new[11] = Len(c.program)
    BY <1>1, <1>6, Zenon
  <2>3. \A k \in 1 .. Len(c.nodes), j \in 1 .. Stride(v) :
          new[11 + ((k - 1) * Stride(v) + j)] = NodeWords(c.nodes[k], v)[j]
    BY <1>1, <1>7, Zenon
  <2>4. \A k \in 1 .. Len(c.assets), j \in 1 .. 5 :
          new[11 + Len(c.nodes) * Stride(v) + ((k - 1) * 5 + j)] = c.assets[k][j]
    BY <1>1, <1>8, Zenon
  <2>5. \A j \in 1 .. Len(c.program) : new[AssetsEnd(c, v) + j] = c.program[j]
    BY <1>1, <1>3, <1>9, Zenon
  <2> QED
    BY <2>1, <2>2, <2>3, <2>4, <2>5, Zenon DEF LaidOut
<1> QED
  BY <1>2, <1>11 DEF c

\* The words of a copy are those of the document with its own place and number.
LEMMA DuplicateIsCopy ==
  ASSUME NEW d, NEW v, Stands(d, v), NEW words, LaidOut(words, d, v), NEW project \in Numbers
  PROVE  LET c == Copied(d, project)
             new == Duplicate(words, project)
         IN /\ Stands(c, v) /\ LaidOut(new, c, v) /\ new[4] = SealOf(Mixed(c, v))
            /\ Follows(new, words, project)
<1> DEFINE c == Copied(d, project)
           renamed == [i \in DOMAIN words |-> IF i = 6 THEN project
                                             ELSE IF i \in {7, 10} THEN 1 ELSE words[i]]
           seal == PageChecksum(renamed)
           new == [renamed EXCEPT ![4] = seal]
           L == Len(words)
<1>1. PICK T : words \in Seq(T)
  BY DEF LaidOut
<1>2. L \in Nat /\ L >= 11 /\ DOMAIN words = 1 .. L
  <2>1. L \in Nat /\ DOMAIN words = 1 .. L
    BY <1>1, LenProperties
  <2>2. AssetsEnd(d, v) \in Nat /\ AssetsEnd(d, v) >= 11 /\ Len(d.program) \in Nat
    BY PartsAre
  <2>3. L = AssetsEnd(d, v) + Len(d.program)
    BY DEF LaidOut
  <2> HIDE DEF L
  <2> QED
    BY <2>1, <2>2, <2>3
<1>3. /\ renamed \in Seq(T \cup {project, 1}) /\ Len(renamed) = L /\ DOMAIN renamed = 1 .. L
      /\ renamed[6] = project /\ renamed[7] = 1 /\ renamed[10] = 1
      /\ \A i \in 1 .. L : i \notin {6, 7, 10} => renamed[i] = words[i]
  <2> DEFINE V == T \cup {project, 1}
  <2>1. \A i \in 1 .. L : words[i] \in T
    BY <1>1, ElementOfSeq
  <2> HIDE DEF L
  <2>2. \A i \in 1 .. L :
          renamed[i] = IF i = 6 THEN project ELSE IF i \in {7, 10} THEN 1 ELSE words[i]
    BY <1>2
  <2>3. DOMAIN renamed = 1 .. L /\ renamed = [i \in 1 .. L |-> renamed[i]]
    BY <1>2
  <2> HIDE DEF renamed
  <2>4. \A i \in 1 .. L : renamed[i] \in V
    BY <2>1, <2>2
  <2>5. renamed \in [1 .. L -> V]
    BY <2>3, <2>4
  <2>6. renamed \in Seq(V) /\ Len(renamed) = L
    BY <1>2, <2>5, SeqOfElements
  <2>7. 6 \in 1 .. L /\ 7 \in 1 .. L /\ 10 \in 1 .. L
    BY <1>2
  <2>8. /\ renamed[6] = project /\ renamed[7] = 1 /\ renamed[10] = 1
        /\ \A i \in 1 .. L : i \notin {6, 7, 10} => renamed[i] = words[i]
    BY <2>2, <2>7
  <2> QED
    BY <2>3, <2>6, <2>8, Zenon DEF V
<1> HIDE DEF renamed
<1>4. Follows(renamed, words, project)
  BY <1>3 DEF Follows
<1>5. Stands(c, v) /\ LaidOut(renamed, c, v)
  BY <1>4, CopyIsLaidOut
<1>6. seal = SealOf(Mixed(c, v))
  BY <1>5, SealIsShared
<1> HIDE DEF seal
<1>7. /\ new \in Seq(T \cup {project, 1} \cup {seal}) /\ Len(new) = L
      /\ new[4] = seal /\ \A i \in 1 .. L : i # 4 => new[i] = renamed[i]
  <2> DEFINE V == T \cup {project, 1}
             U == V \cup {seal}
  <2>1. renamed \in Seq(V)
    BY <1>3
  <2>2. \A i \in 1 .. L : renamed[i] \in V
    BY <1>3, <2>1, ElementOfSeq
  <2>3. 4 \in 1 .. L
    BY <1>2
  <2>4. DOMAIN new = 1 .. L /\ new = [i \in 1 .. L |-> new[i]] /\ new[4] = seal
        /\ \A i \in 1 .. L : i # 4 => new[i] = renamed[i]
    BY <1>3, <2>3
  <2> HIDE DEF new, V, L
  <2>5. \A i \in 1 .. L : new[i] \in U
    BY <2>2, <2>4
  <2>6. new \in [1 .. L -> U]
    BY <2>4, <2>5
  <2>7. new \in Seq(U) /\ Len(new) = L
    BY <1>2, <2>6, SeqOfElements
  <2> QED
    BY <2>4, <2>7 DEF V
<1> HIDE DEF new
<1>8. Follows(new, words, project)
  <2>1. 6 \in 1 .. L /\ 7 \in 1 .. L /\ 10 \in 1 .. L
    BY <1>2
  <2>2. new[6] = project /\ new[7] = 1 /\ new[10] = 1
    BY <1>3, <1>7, <2>1
  <2>3. \A i \in 1 .. L : i \notin {4, 6, 7, 10} => new[i] = words[i]
    BY <1>3, <1>7
  <2>4. \E V : new \in Seq(V)
    BY <1>7, Zenon
  <2> QED
    BY <1>7, <2>2, <2>3, <2>4, Zenon DEF Follows
<1>9. LaidOut(new, c, v)
  BY <1>8, CopyIsLaidOut
<1>10. Duplicate(words, project) = new
  BY Zenon DEF Duplicate, new, renamed, seal
<1> QED
  BY <1>5, <1>6, <1>7, <1>8, <1>9, <1>10

\* What words say of a document: both readers read its parts, and both accept it.
Means(words, d) ==
  /\ \A reader \in {"page", "server"} :
       /\ Decoded(words, reader).nodes = d.nodes /\ Decoded(words, reader).assets = d.assets
       /\ Decoded(words, reader).program = d.program
  /\ PageAccepts(words) /\ PageChecksum(words) = words[4] /\ ServerAccepts(words)

\* Words that are laid out and sealed say their document.
LEMMA SealedMeans ==
  ASSUME NEW d, NEW v, Stands(d, v), NEW words, LaidOut(words, d, v),
         words[4] = SealOf(Mixed(d, v))
  PROVE  Means(words, d)
<1>1. ASSUME NEW reader \in {"page", "server"}
      PROVE  /\ Decoded(words, reader).nodes = d.nodes /\ Decoded(words, reader).assets = d.assets
             /\ Decoded(words, reader).program = d.program
  BY DocumentIsRead
<1>2. PageAccepts(words) /\ PageChecksum(words) = words[4] /\ ServerAccepts(words)
  BY SealedIsAccepted
<1> QED
  BY <1>1, <1>2 DEF Means

\* Any document within the limits of the studio, whatever its nodes, its assets, its
\* program and its version, means the same to the page and the server as it did to the
\* server that wrote it, and so does every copy that the page makes of it.  (The studio
\* keeps these numbers within a million: nothing here leaves 32 bits.)
THEOREM DocumentsOfAllSizes ==
  ASSUME NEW d, NEW v, Stands(d, v), NEW project \in Numbers
  PROVE  Means(Encoded(d, v), d) /\ Means(Duplicate(Encoded(d, v), project), d)
<1> DEFINE words == Encoded(d, v)
           c == Copied(d, project)
           new == Duplicate(words, project)
<1>1. LaidOut(words, d, v) /\ words[4] = SealOf(Mixed(d, v))
  BY EncodedIsLaidOut
<1>2. Stands(c, v) /\ LaidOut(new, c, v) /\ new[4] = SealOf(Mixed(c, v))
  BY <1>1, DuplicateIsCopy
<1>3. c.nodes = d.nodes /\ c.assets = d.assets /\ c.program = d.program
  BY Zenon DEF Copied
<1> HIDE DEF words, c, new
<1>4. Means(words, d)
  BY <1>1, SealedMeans
<1>5. Means(new, c)
  BY <1>2, SealedMeans
<1>6. Means(new, d)
  BY <1>3, <1>5, Zenon DEF Means
<1> QED
  BY <1>4, <1>6 DEF words, new

\* The words of a blank arena.
BlankHeader(ns, project) ==
  <<Magic, 3, 24, SealOf(BlankFields(ns, project)), ns, project, 1, 1, 0, 1, 0>>

BlankSays(w, u, project) ==
  /\ (\E T : w \in Seq(T)) /\ Len(w) = 24 /\ w[6] = project /\ w[7] = 1 /\ w[10] = 1
  /\ \A i \in 1 .. 24 : i \notin {4, 6} => u[i] = w[i]

\* Blank arenas differ in their number and their seal.
LEMMA BlankWords ==
  ASSUME NEW ns \in Int, NEW p \in Int, NEW q \in Int
  PROVE  BlankSays(BlankArena(ns, p), BlankArena(ns, q), p)
<1> DEFINE seal(r) == SealOf(BlankFields(ns, r))
           T == Int \cup {seal(p), seal(q)}
           g == BlankHeader(ns, p)
           h == BlankHeader(ns, q)
           w == BlankArena(ns, p)
           u == BlankArena(ns, q)
<1>1. Magic \in Int
  BY SMT DEF Magic
<1>2. White \in Int
  BY SMT DEF White
<1>3. BlankNode \in Seq(Int) /\ Len(BlankNode) = 13
  BY <1>2 DEF BlankNode
<1>4. /\ w = BlankHeader(ns, p) \o BlankNode
      /\ u = BlankHeader(ns, q) \o BlankNode
  BY SMT DEF BlankArena, BlankFields, BlankNode, BlankHeader
<1> HIDE DEF w, u, seal
<1>5. /\ g \in Seq(T) /\ Len(g) = 11 /\ h \in Seq(T) /\ Len(h) = 11
      /\ g[6] = p /\ g[7] = 1 /\ g[10] = 1
      /\ h[1] = g[1] /\ h[2] = g[2] /\ h[3] = g[3] /\ h[5] = g[5] /\ h[7] = g[7] /\ h[8] = g[8]
      /\ h[9] = g[9] /\ h[10] = g[10] /\ h[11] = g[11]
  <2>1. /\ g = <<Magic, 3, 24, seal(p), ns, p, 1, 1, 0, 1, 0>>
        /\ h = <<Magic, 3, 24, seal(q), ns, q, 1, 1, 0, 1, 0>>
    BY Zenon DEF BlankHeader, seal
  <2> HIDE DEF g, h
  <2> QED
    BY <1>1, <2>1
<1>6. BlankNode \in Seq(T)
  BY <1>3
<1> HIDE DEF g, h, T
<1>7. /\ w \in Seq(T) /\ Len(w) = 24 /\ Len(u) = 24
      /\ \A i \in 1 .. 11 : w[i] = g[i] /\ u[i] = h[i]
      /\ \A i \in 1 .. 13 : w[11 + i] = BlankNode[i] /\ u[11 + i] = BlankNode[i]
  <2>1. /\ w \in Seq(T) /\ Len(w) = Len(g) + Len(BlankNode)
        /\ \A i \in 1 .. Len(g) : w[i] = g[i]
        /\ \A i \in 1 .. Len(BlankNode) : w[Len(g) + i] = BlankNode[i]
    <3>1. g \in Seq(T)
      BY <1>5
    <3> DEFINE all == g \o BlankNode
    <3>2. /\ all \in Seq(T) /\ Len(all) = Len(g) + Len(BlankNode)
          /\ \A i \in 1 .. Len(g) : all[i] = g[i]
          /\ \A i \in 1 .. Len(BlankNode) : all[Len(g) + i] = BlankNode[i]
      BY <1>6, <3>1, JoinsTwo
    <3>3. w = all
      BY <1>4, Zenon DEF g
    <3> HIDE DEF all
    <3> QED
      BY <3>2, <3>3, Zenon
  <2>2. /\ Len(u) = Len(h) + Len(BlankNode)
        /\ \A i \in 1 .. Len(h) : u[i] = h[i]
        /\ \A i \in 1 .. Len(BlankNode) : u[Len(h) + i] = BlankNode[i]
    <3>1. h \in Seq(T)
      BY <1>5
    <3> DEFINE all == h \o BlankNode
    <3>2. /\ Len(all) = Len(h) + Len(BlankNode)
          /\ \A i \in 1 .. Len(h) : all[i] = h[i]
          /\ \A i \in 1 .. Len(BlankNode) : all[Len(h) + i] = BlankNode[i]
      BY <1>6, <3>1, JoinsTwo
    <3>3. u = all
      BY <1>4, Zenon DEF h
    <3> HIDE DEF all
    <3> QED
      BY <3>2, <3>3, Zenon
  <2>3. Len(g) = 11 /\ Len(h) = 11
    BY <1>5
  <2> QED
    BY <1>3, <2>1, <2>2, <2>3
<1>8. ASSUME NEW i \in 1 .. 24, i \notin {4, 6} PROVE u[i] = w[i]
  <2>1. CASE i \in 12 .. 24
    <3> DEFINE j == i - 11
    <3>1. j \in 1 .. 13 /\ i = 11 + j
      BY <2>1
    <3> HIDE DEF j
    <3> QED
      BY <1>7, <3>1
  <2>2. CASE i \in 1 .. 11
    <3>1. h[i] = g[i]
      <4>1. i = 1 \/ i = 2 \/ i = 3 \/ i = 5 \/ i = 7 \/ i = 8 \/ i = 9 \/ i = 10 \/ i = 11
        BY <1>8, <2>2
      <4> QED
        BY <1>5, <4>1
    <3> QED
      BY <1>7, <2>2, <3>1
  <2> QED
    BY <2>1, <2>2
<1>9. w[6] = p /\ w[7] = 1 /\ w[10] = 1
  <2>1. 6 \in 1 .. 11 /\ 7 \in 1 .. 11 /\ 10 \in 1 .. 11
    OBVIOUS
  <2>2. w[6] = g[6] /\ w[7] = g[7] /\ w[10] = g[10]
    BY <1>7, <2>1
  <2> QED
    BY <1>5, <2>2
<1> QED
  BY <1>7, <1>8, <1>9, Zenon DEF w, u, BlankSays

\* The words of a blank arena are laid out and sealed.
LEMMA BlankIsLaidOut ==
  ASSUME NEW ns \in Numbers, NEW p \in Numbers
  PROVE  /\ Stands(Blank(ns, p), 3) /\ LaidOut(BlankArena(ns, p), Blank(ns, p), 3)
         /\ BlankArena(ns, p)[4] = SealOf(Mixed(Blank(ns, p), 3))
<1>1. Stands(Blank(ns, p), 3)
  BY BlankStands
<1>2. /\ LaidOut(Encoded(Blank(ns, p), 3), Blank(ns, p), 3)
      /\ Encoded(Blank(ns, p), 3)[4] = SealOf(Mixed(Blank(ns, p), 3))
  BY <1>1, EncodedIsLaidOut
<1>3. BlankArena(ns, p) = Encoded(Blank(ns, p), 3)
  BY NumbersAre, BlankIsEncoded
<1> QED
  BY <1>1, <1>2, <1>3, Zenon

\* A copy of a blank arena is a blank arena.
LEMMA BlankIsCopied ==
  ASSUME NEW ns \in Numbers, NEW p \in Numbers, NEW q \in Numbers
  PROVE  Duplicate(BlankArena(ns, p), q) = BlankArena(ns, q)
<1> DEFINE w == BlankArena(ns, p)
           u == BlankArena(ns, q)
           new == Duplicate(w, q)
<1>0. ns \in Int /\ p \in Int /\ q \in Int
  BY NumbersAre
<1>1. Stands(Blank(ns, p), 3) /\ LaidOut(w, Blank(ns, p), 3)
  BY BlankIsLaidOut
<1>2. new[4] = SealOf(Mixed(Copied(Blank(ns, p), q), 3)) /\ Follows(new, w, q)
  BY <1>1, DuplicateIsCopy
<1>3. Copied(Blank(ns, p), q) = Blank(ns, q)
  BY Zenon DEF Copied, Blank
<1>4. u[4] = SealOf(Mixed(Blank(ns, q), 3))
  BY BlankIsLaidOut
<1>5. /\ Len(w) = 24 /\ w[7] = 1 /\ w[10] = 1 /\ (\E T : u \in Seq(T)) /\ Len(u) = 24 /\ u[6] = q
      /\ u[7] = 1 /\ u[10] = 1
      /\ \A i \in 1 .. 24 : i \notin {4, 6} => u[i] = w[i]
  <2>1. BlankSays(w, u, p) /\ BlankSays(u, w, q)
    BY <1>0, BlankWords
  <2> HIDE DEF w, u, new
  <2> QED
    BY <2>1, Zenon DEF BlankSays
<1> HIDE DEF w, u, new
<1>6. /\ (\E T : new \in Seq(T)) /\ Len(new) = 24 /\ new[6] = q /\ new[7] = 1 /\ new[10] = 1
      /\ \A i \in 1 .. 24 : i \notin {4, 6, 7, 10} => new[i] = w[i]
  BY <1>2, <1>5, Zenon DEF Follows
<1>7. new[4] = u[4]
  BY <1>2, <1>3, <1>4, Zenon
<1>8. ASSUME NEW i \in 1 .. 24 PROVE new[i] = u[i]
  BY <1>5, <1>6, <1>7
<1>9. PICK T : new \in Seq(T)
  BY <1>6
<1>10. PICK V : u \in Seq(V)
  BY <1>5
<1>11. new \in Seq(T \cup V) /\ u \in Seq(T \cup V) /\ Len(new) = Len(u)
  <2>1. new \in Seq(T \cup V)
    BY <1>9
  <2>2. u \in Seq(T \cup V)
    BY <1>10
  <2>3. Len(new) = Len(u)
    BY <1>5, <1>6, Zenon
  <2> QED
    BY <2>1, <2>2, <2>3
<1>12. new = u
  <2>1. \A i \in 1 .. Len(new) : new[i] = u[i]
    BY <1>6, <1>8
  <2> QED
    BY <1>11, <2>1, SeqEqual
<1> QED
  BY <1>12 DEF new, u, w

\* The words are those of the document, of a copy of it, or of a blank arena.
DocumentStands ==
  /\ Stands(dDoc, dVersion) /\ PageCards(dDoc.program) = ServerCards(dDoc.program)
  /\ \/ dWords = <<>>
     \/ \E p \in Numbers : dWords = BlankArena(dDoc.ns, p)
     \/ \E d : /\ Stands(d, dVersion) /\ LaidOut(dWords, d, dVersion)
               /\ dWords[4] = SealOf(Mixed(d, dVersion))
               /\ d.nodes = dDoc.nodes /\ d.assets = dDoc.assets /\ d.program = dDoc.program

\* Numbers of projects count projects.
LEMMA ProjectsAreNumbers == ProjectIds \subseteq Numbers
BY DocumentAssumption, Zenon

\* A node the studio takes is one that it takes as an older version says it.
LEMMA UprightIsTaken ==
  ASSUME NEW n \in NodeFields, NodeTaken(n), NEW v \in 1 .. 4
  PROVE  NodeTaken(Upright(n, v))
<1> DEFINE u == Upright(n, v)
<1>1. /\ NodeOf(u, v)
      /\ u.id = n.id /\ u.kind = n.kind /\ u.x = n.x /\ u.y = n.y /\ u.z = n.z
      /\ u.rotation = n.rotation /\ u.scaleX = n.scaleX
      /\ v >= 2 => u.scaleY = n.scaleY /\ u.scaleZ = n.scaleZ /\ u.color = n.color
      /\ v >= 3 => u.asset = n.asset
  BY UprightIsNode
<1> HIDE DEF u
<1>2. /\ n.id \in Numbers /\ n.kind \in Numbers /\ n.rotation \in Turns
      /\ n.color \in Colors /\ n.asset \in AssetTokens
  BY Zenon DEF NodeTaken
<1>3. /\ n.x \in Positions /\ n.y \in Positions
      /\ n.z \in Positions
      /\ n.scaleX \in Numbers /\ n.scaleY \in Numbers /\ n.scaleZ \in Numbers
  <2>1. /\ \A f \in {"x", "y", "z"} : n[f] \in Positions
        /\ \A f \in {"scaleX", "scaleY", "scaleZ"} : n[f] \in Numbers
    BY Zenon DEF NodeTaken
  <2> QED
    BY <2>1
<1>4. White \in Colors /\ 0 \in AssetTokens /\ (v >= 2 \/ v < 2) /\ (v >= 3 \/ v < 3)
  BY LargestAre, RangesAre
<1>5. u.scaleY \in Numbers /\ u.scaleZ \in Numbers /\ u.color \in Colors
  BY <1>1, <1>2, <1>3, <1>4, Zenon DEF NodeOf
<1>7. u.asset \in AssetTokens
  BY <1>1, <1>2, <1>4, Zenon DEF NodeOf
<1>8. /\ u.id \in Numbers /\ u.kind \in Numbers /\ u.x \in Positions
      /\ u.y \in Positions /\ u.z \in Positions
      /\ u.rotation \in Turns /\ u.scaleX \in Numbers
  BY <1>1, <1>2, <1>3, Zenon
<1>6. NodeTaken(u)
  BY <1>5, <1>7, <1>8, FieldsAreTaken
<1> QED
  BY <1>6 DEF u

\* The nodes that a document is made from.
LEMMA NodesOfDocuments ==
  /\ \A n \in DNodes : n \in NodeFields /\ NodeTaken(n) /\ n.id = 1 /\ n.parent = 0
  /\ Group \in NodeFields /\ NodeTaken(Group) /\ Group.id = 5 /\ Group.parent = 1
<1>1. White \in Int
  BY SMT DEF White
<1>2. Group \in NodeFields /\ NodeTaken(Group) /\ Group.id = 5 /\ Group.parent = 1
  <2>1. Group \in NodeFields
    BY DEF Group, NodeFields
  <2>2. /\ Group.id = 5 /\ Group.parent = 1 /\ Group.kind = 9 /\ Group.x = 0 /\ Group.y = -25
        /\ Group.z = 1 /\ Group.rotation = 90 /\ Group.scaleX = 1 /\ Group.scaleY = 1
        /\ Group.scaleZ = MaxNumber /\ Group.color = 1 /\ Group.asset = MaxNumber
    BY DEF Group, MaxNumber
  <2> HIDE DEF Group
  <2>3. /\ 5 \in Numbers /\ 9 \in Numbers /\ 1 \in Numbers /\ MaxNumber \in Numbers
        /\ 0 \in Positions /\ -25 \in Positions
        /\ 1 \in Positions /\ 90 \in Turns
        /\ 1 \in Colors /\ MaxNumber \in AssetTokens
    BY LargestAre, RangesAre
  <2>4. NodeTaken(Group)
    BY <2>2, <2>3, FieldsAreTaken
  <2> QED
    BY <2>1, <2>2, <2>4
<1>3. ASSUME NEW n \in DNodes
      PROVE  n \in NodeFields /\ NodeTaken(n) /\ n.id = 1 /\ n.parent = 0
  <2>1. PICK x \in Coordinates, z \in Coordinates, c \in {0, White}, a \in {0, 7} :
          n = [id |-> 1, parent |-> 0, kind |-> 2, x |-> x, y |-> 0, z |-> z, rotation |-> -x,
               scaleX |-> 1000, scaleY |-> 500, scaleZ |-> 2000, color |-> c, asset |-> a]
    BY SMT DEF DNodes
  <2>2. /\ x \in Int /\ -MaxTurn <= x /\ x <= MaxTurn
        /\ z \in Int /\ -MaxTurn <= z /\ z <= MaxTurn
    BY DocumentAssumption
  <2>3. -x \in Int /\ c \in Int /\ a \in Int
    BY <1>1, <2>2
  <2>4. /\ n.id = 1 /\ n.parent = 0 /\ n.kind = 2 /\ n.x = x /\ n.y = 0 /\ n.z = z
        /\ n.rotation = -x /\ n.scaleX = 1000 /\ n.scaleY = 500 /\ n.scaleZ = 2000
        /\ n.color = c /\ n.asset = a
    BY <2>1
  <2>5. n \in NodeFields
    BY <2>1, <2>2, <2>3 DEF NodeFields
  <2>6. c \in Colors /\ a \in AssetTokens
    BY LargestAre, RangesAre
  <2>7. /\ 1 \in Numbers /\ 2 \in Numbers /\ 1000 \in Numbers /\ 500 \in Numbers
        /\ 2000 \in Numbers /\ 0 \in Positions
    BY LargestAre, RangesAre
  <2>8. /\ x \in Positions /\ z \in Positions /\ -x \in Turns
    BY <2>2, LargestAre, RangesAre
  <2>9. NodeTaken(n)
    <3>1. /\ n.id \in Numbers /\ n.kind \in Numbers /\ n.x \in Positions
          /\ n.y \in Positions /\ n.z \in Positions
          /\ n.rotation \in Turns /\ n.scaleX \in Numbers
          /\ n.scaleY \in Numbers /\ n.scaleZ \in Numbers
          /\ n.color \in Colors /\ n.asset \in AssetTokens
      BY <2>4, <2>6, <2>7, <2>8
    <3> QED
      BY <3>1, FieldsAreTaken
  <2> QED
    BY <2>4, <2>5, <2>9
<1> QED
  BY <1>2, <1>3

\* One node without a parent, or that and a node below it, are a tree.
LEMMA ParentsOfDocuments ==
  ASSUME NEW nodes, NEW k \in {1, 2}, DOMAIN nodes = 1 .. k,
         nodes[1].id = 1, nodes[1].parent = 0,
         k = 2 => nodes[2].id = 5 /\ nodes[2].parent = 1
  PROVE  ParentsTaken(nodes) /\ \A i, j \in DOMAIN nodes : i < j => nodes[i].id < nodes[j].id
<1>1. \A i \in DOMAIN nodes : i = 1 \/ (i = 2 /\ k = 2)
  OBVIOUS
<1>2. 1 \in DOMAIN nodes
  OBVIOUS
<1>3. ASSUME NEW i \in DOMAIN nodes, nodes[i].parent > 0
      PROVE  \E j \in DOMAIN nodes : nodes[j].id = nodes[i].parent
  <2>1. nodes[1].id = nodes[i].parent
    BY <1>1, <1>3
  <2> QED
    BY <1>2, <2>1
<1>4. ASSUME NEW S \in SUBSET DOMAIN nodes, S # {}
      PROVE  \E i \in S : \A j \in S : nodes[j].id # nodes[i].parent
  <2>1. CASE 1 \in S
    <3>1. \A j \in S : nodes[j].id # nodes[1].parent
      BY <1>1
    <3> QED
      BY <2>1, <3>1
  <2>2. CASE 1 \notin S
    <3>1. \A j \in S : j = 2 /\ k = 2
      BY <1>1, <2>2
    <3>2. 2 \in S /\ k = 2
      BY <1>4, <3>1
    <3>3. \A j \in S : nodes[j].id # nodes[2].parent
      BY <3>1, <3>2
    <3> QED
      BY <3>2, <3>3
  <2> QED
    BY <2>1, <2>2
<1>5. \A i, j \in DOMAIN nodes : i < j => nodes[i].id < nodes[j].id
  BY <1>1
<1> QED
  BY <1>3, <1>4, <1>5, Zenon DEF ParentsTaken

\* A document that is about to be written is one that the studio takes.
LEMMA DocumentBegins == DocumentInit => DocumentStands
<1> SUFFICES ASSUME DocumentInit PROVE DocumentStands
  OBVIOUS
<1>1. dVersion \in 1 .. 4 /\ dWords = <<>>
  BY Zenon DEF DocumentInit
<1>2. PICK n \in DNodes, two \in BOOLEAN, asset \in BOOLEAN, program \in {<<>>} \cup Programs :
        LET nodes == IF two THEN <<n, Group>> ELSE <<n>> IN
        dDoc = [ns |-> 1, project |-> 9, revision |-> 3, generation |-> 4,
                nodes |-> [i \in DOMAIN nodes |-> Upright(nodes[i], dVersion)],
                assets |-> IF asset THEN <<Asset>> ELSE <<>>,
                program |-> IF dVersion = 4 THEN program ELSE <<>>]
  BY Zenon DEF DocumentInit
<1> DEFINE nodes == IF two THEN <<n, Group>> ELSE <<n>>
           v == dVersion
           upright == [i \in DOMAIN nodes |-> Upright(nodes[i], v)]
           assets == IF asset THEN <<Asset>> ELSE <<>>
           written == IF v = 4 THEN program ELSE <<>>
<1>3. dDoc = [ns |-> 1, project |-> 9, revision |-> 3, generation |-> 4,
              nodes |-> upright, assets |-> assets, program |-> written]
  BY <1>2, Zenon
<1>4. /\ nodes \in Seq(NodeFields) /\ Len(nodes) \in {1, 2} /\ DOMAIN nodes = 1 .. Len(nodes)
      /\ \A i \in DOMAIN nodes : NodeTaken(nodes[i])
      /\ nodes[1].id = 1 /\ nodes[1].parent = 0
      /\ Len(nodes) = 2 => nodes[2].id = 5 /\ nodes[2].parent = 1
  <2>1. /\ n \in NodeFields /\ NodeTaken(n) /\ n.id = 1 /\ n.parent = 0
        /\ Group \in NodeFields /\ NodeTaken(Group) /\ Group.id = 5 /\ Group.parent = 1
    BY NodesOfDocuments
  <2>2. CASE two
    <3>1. nodes = <<n, Group>>
      BY <2>2, Zenon
    <3> HIDE DEF nodes
    <3> QED
      BY <2>1, <3>1
  <2>3. CASE ~ two
    <3>1. nodes = <<n>>
      BY <2>3, Zenon
    <3> HIDE DEF nodes
    <3> QED
      BY <2>1, <3>1
  <2> QED
    BY <2>2, <2>3, Zenon
<1> HIDE DEF nodes, v
<1>5. /\ upright \in Seq(NodeFields) /\ Len(upright) = Len(nodes)
      /\ \A i \in 1 .. Len(upright) :
           /\ NodeOf(upright[i], v) /\ NodeTaken(upright[i])
           /\ upright[i].id = nodes[i].id /\ upright[i].parent = nodes[i].parent
  <2> DEFINE k == Len(nodes)
  <2>1. ASSUME NEW i \in 1 .. k
        PROVE  /\ upright[i] \in NodeFields /\ NodeOf(upright[i], v) /\ NodeTaken(upright[i])
               /\ upright[i].id = nodes[i].id /\ upright[i].parent = nodes[i].parent
    <3>1. nodes[i] \in NodeFields /\ NodeTaken(nodes[i])
      BY <1>4, ElementOfSeq
    <3>2. v \in 1 .. 4
      BY <1>1 DEF v
    <3>3. /\ NodeOf(Upright(nodes[i], v), v) /\ NodeTaken(Upright(nodes[i], v))
          /\ Upright(nodes[i], v).id = nodes[i].id
          /\ Upright(nodes[i], v).parent = nodes[i].parent
      BY <3>1, <3>2, UprightIsNode, UprightIsTaken
    <3>4. upright[i] = Upright(nodes[i], v)
      BY <1>4
    <3> HIDE DEF upright
    <3>5. /\ NodeOf(upright[i], v) /\ NodeTaken(upright[i])
          /\ upright[i].id = nodes[i].id /\ upright[i].parent = nodes[i].parent
      BY <3>3, <3>4, Zenon
    <3> QED
      BY <3>5, Zenon DEF NodeOf
  <2>2. DOMAIN upright = 1 .. k /\ upright = [i \in 1 .. k |-> upright[i]]
    <3>1. DOMAIN upright = DOMAIN nodes /\ upright = [i \in DOMAIN upright |-> upright[i]]
      BY Zenon
    <3> HIDE DEF upright
    <3> QED
      BY <1>4, <3>1, Zenon
  <2>3. k \in Nat
    <3>1. k \in {1, 2}
      BY <1>4
    <3> HIDE DEF k
    <3> QED
      BY <3>1
  <2> HIDE DEF upright, k
  <2>4. upright \in [1 .. k -> NodeFields]
    BY <2>1, <2>2
  <2>5. upright \in Seq(NodeFields) /\ Len(upright) = k
    BY <2>3, <2>4, SeqOfElements
  <2> QED
    BY <2>1, <2>3, <2>5 DEF k
<1>6. /\ assets \in Seq(Seq(Int)) /\ Len(assets) \in 0 .. 32
      /\ \A i \in 1 .. Len(assets) : Len(assets[i]) = 5
      /\ \A i \in DOMAIN assets : AssetTaken(assets[i])
      /\ \A i, j \in DOMAIN assets : ~ (i < j)
  <2>1. Asset \in Seq(Int) /\ Len(Asset) = 5
    BY SMT DEF Asset
  <2>4. AssetTaken(Asset)
    <3>1. /\ Asset[1] = 4 /\ Asset[2] = 1 /\ Asset[3] = 1 /\ Asset[4] = 999999 /\ Asset[5] = 1
      BY SMT DEF Asset
    <3>2. 4 \in Numbers /\ 1 \in Numbers /\ 1 \in 1 .. 4
      BY LargestAre, RangesAre
    <3>3. 999999 < Modulus
      BY SMT DEF Modulus
    <3>4. 999999 \in 1 .. Modulus - 1
      BY <3>3, LargestAre, SMT
    <3> QED
      BY <3>1, <3>2, <3>4, SMT DEF AssetTaken
  <2>2. CASE asset
    <3>1. assets = <<Asset>>
      BY <2>2, Zenon
    <3> HIDE DEF assets
    <3>2. /\ <<Asset>> \in Seq(Seq(Int)) /\ Len(<<Asset>>) = 1 /\ <<Asset>>[1] = Asset
          /\ \A i \in 1 .. 1 : i = 1
          /\ DOMAIN <<Asset>> = 1 .. 1
      BY <2>1
    <3> QED
      BY <2>1, <2>4, <3>1, <3>2
  <2>3. CASE ~ asset
    <3>1. assets = <<>>
      BY <2>3, Zenon
    <3> HIDE DEF assets
    <3> QED
      BY <3>1
  <2> HIDE DEF assets
  <2> QED
    BY <2>2, <2>3, Zenon
<1> HIDE DEF upright, assets
<1>7. written \in Seq(Int) /\ ProgramStands(written, v) /\ (written # <<>> => ProgramTaken(written))
  <2>1. CASE written \in Programs /\ v = 4
    BY <2>1, DocumentAssumption, Zenon DEF ProgramStands
  <2>2. CASE ~ (written \in Programs /\ v = 4)
    <3>1. written = <<>>
      BY <2>2, Zenon
    <3> HIDE DEF written
    <3>2. written \in Seq(Int)
      BY <3>1
    <3> QED
      BY <3>1, <3>2, Zenon DEF ProgramStands
  <2> QED
    BY <2>1, <2>2
<1> HIDE DEF written
<1>8. /\ dDoc.ns = 1 /\ dDoc.project = 9 /\ dDoc.revision = 3 /\ dDoc.generation = 4
      /\ dDoc.nodes = upright /\ dDoc.assets = assets /\ dDoc.program = written
  BY <1>3, Zenon
<1>9. StudioTakes(dDoc)
  <2>1. 1 \in Numbers /\ 9 \in Numbers /\ 3 \in Numbers
    BY LargestAre, RangesAre
  <2>2. DOMAIN upright = 1 .. Len(nodes)
    BY <1>5
  <2>3. /\ ParentsTaken(upright)
        /\ \A i, j \in DOMAIN upright : i < j => upright[i].id < upright[j].id
    <3> DEFINE k == Len(nodes)
    <3>1. /\ k \in {1, 2} /\ DOMAIN upright = 1 .. k
          /\ \A i \in 1 .. k : /\ upright[i].id = nodes[i].id
                               /\ upright[i].parent = nodes[i].parent
      BY <1>4, <1>5, <2>2
    <3> HIDE DEF k
    <3>2. 1 \in 1 .. k /\ (k = 2 => 2 \in 1 .. k)
      BY <3>1
    <3>3. /\ upright[1].id = 1 /\ upright[1].parent = 0
          /\ k = 2 => upright[2].id = 5 /\ upright[2].parent = 1
      BY <1>4, <3>1, <3>2 DEF k
    <3> QED
      BY <3>1, <3>3, ParentsOfDocuments
  <2>4. \A i \in DOMAIN upright : NodeTaken(upright[i])
    BY <1>5, <2>2, Zenon
  <2> QED
    BY <1>6, <1>7, <1>8, <2>1, <2>3, <2>4, Zenon DEF StudioTakes
<1>10. Stands(dDoc, dVersion)
  <2>1. /\ dDoc.ns \in Int /\ dDoc.project \in Int /\ dDoc.revision \in Int
        /\ dDoc.generation \in Int /\ dDoc.generation > 0
    BY <1>8
  <2>2. Len(upright) \in 1 .. 64 /\ \A i \in 1 .. Len(upright) : upright[i].parent >= 0
    <3> DEFINE k == Len(nodes)
    <3>1. /\ k \in {1, 2} /\ Len(upright) = k
          /\ \A i \in 1 .. k : upright[i].parent = nodes[i].parent
          /\ nodes[1].parent = 0 /\ (k = 2 => nodes[2].parent = 1)
      BY <1>4, <1>5, Zenon
    <3> HIDE DEF k
    <3>2. \A i \in 1 .. k : i = 1 \/ (i = 2 /\ k = 2)
      BY <3>1
    <3> QED
      BY <3>1, <3>2
  <2>3. v = dVersion
    BY DEF v
  <2> QED
    BY <1>1, <1>5, <1>6, <1>7, <1>8, <1>9, <2>1, <2>2, <2>3, Zenon DEF Stands
<1>11. PageCards(dDoc.program) = ServerCards(dDoc.program)
  BY <1>7, <1>8, CardsAreShown
<1> QED
  BY <1>1, <1>10, <1>11, Zenon DEF DocumentStands

\* Writing, a new arena and a copy leave words of the document or of a blank arena.
LEMMA DocumentGoes == DocumentStands /\ [DocumentNext]_dVars => DocumentStands'
<1> SUFFICES ASSUME DocumentStands, [DocumentNext]_dVars PROVE DocumentStands'
  OBVIOUS
<1> USE DEF DocumentStands
<1>1. dDoc' = dDoc /\ dVersion' = dVersion
  BY Zenon DEF DocumentNext, dVars
<1>2. Stands(dDoc', dVersion') /\ PageCards(dDoc'.program) = ServerCards(dDoc'.program)
  BY <1>1, Zenon
<1>3. dDoc.ns \in Numbers
  BY Zenon DEF Stands, StudioTakes
<1>4. CASE dWords' = dWords
  BY <1>1, <1>4, Zenon
<1>5. CASE WriteDocument
  <2>1. dWords' = Encoded(dDoc, dVersion)
    BY <1>5, Zenon DEF WriteDocument
  <2>2. LaidOut(dWords', dDoc, dVersion) /\ dWords'[4] = SealOf(Mixed(dDoc, dVersion))
    BY <2>1, EncodedIsLaidOut
  <2> QED
    BY <1>1, <1>2, <2>2, Zenon
<1>6. CASE NewArena
  <2>1. PICK p \in ProjectIds : dWords' = BlankArena(dDoc.ns, p)
    BY <1>6, Zenon DEF NewArena
  <2>2. p \in Numbers
    BY ProjectsAreNumbers
  <2> QED
    BY <1>1, <1>2, <2>1, <2>2, Zenon
<1>7. CASE CopyProject
  <2>1. PICK q \in ProjectIds : dWords # <<>> /\ dWords' = Duplicate(dWords, q)
    BY <1>7, Zenon DEF CopyProject
  <2>2. q \in Numbers
    BY ProjectsAreNumbers
  <2>3. CASE \E p \in Numbers : dWords = BlankArena(dDoc.ns, p)
    <3>1. PICK p \in Numbers : dWords = BlankArena(dDoc.ns, p)
      BY <2>3
    <3>2. Duplicate(BlankArena(dDoc.ns, p), q) = BlankArena(dDoc.ns, q)
      BY <1>3, <2>2, BlankIsCopied
    <3>3. dWords' = BlankArena(dDoc.ns, q)
      BY <2>1, <3>1, <3>2, Zenon
    <3> QED
      BY <1>1, <1>2, <2>2, <3>3, Zenon
  <2>4. CASE ~ \E p \in Numbers : dWords = BlankArena(dDoc.ns, p)
    <3>1. PICK d : /\ Stands(d, dVersion) /\ LaidOut(dWords, d, dVersion)
                   /\ d.nodes = dDoc.nodes /\ d.assets = dDoc.assets /\ d.program = dDoc.program
      BY <2>1, <2>4, Zenon
    <3> DEFINE c == Copied(d, q)
    <3>2. /\ Stands(c, dVersion) /\ LaidOut(dWords', c, dVersion)
          /\ dWords'[4] = SealOf(Mixed(c, dVersion))
      BY <2>1, <2>2, <3>1, DuplicateIsCopy
    <3>3. c.nodes = dDoc.nodes /\ c.assets = dDoc.assets /\ c.program = dDoc.program
      BY <3>1, Zenon DEF Copied
    <3> QED
      BY <1>1, <1>2, <3>2, <3>3, Zenon
  <2> QED
    BY <2>3, <2>4
<1> QED
  BY <1>4, <1>5, <1>6, <1>7, Zenon DEF DocumentNext, dVars

\* Words of those kinds read back and are accepted.
LEMMA DocumentIsSound == DocumentStands => DocumentInv
<1> SUFFICES ASSUME DocumentStands, dWords # <<>> PROVE DocumentReadsBack /\ SealHolds
  BY Zenon DEF DocumentInv, DocumentReadsBack, SealHolds
<1>1. dDoc.ns \in Numbers
  BY Zenon DEF DocumentStands, Stands, StudioTakes
<1>2. CASE \E p \in Numbers : dWords = BlankArena(dDoc.ns, p)
  <2>1. PICK p \in Numbers : dWords = BlankArena(dDoc.ns, p)
    BY <1>2
  <2> DEFINE w == BlankArena(dDoc.ns, p)
  <2>2. /\ Stands(Blank(dDoc.ns, p), 3) /\ LaidOut(w, Blank(dDoc.ns, p), 3)
        /\ w[4] = SealOf(Mixed(Blank(dDoc.ns, p), 3))
    BY <1>1, BlankIsLaidOut
  <2>3. PageAccepts(w) /\ PageChecksum(w) = w[4] /\ ServerAccepts(w)
    BY <2>2, SealedIsAccepted
  <2>4. w[6] = p
    <3>1. BlankSays(w, w, p)
      BY <1>1, NumbersAre, BlankWords
    <3> QED
      BY <3>1, Zenon DEF BlankSays
  <2> QED
    BY <2>1, <2>3, <2>4, Zenon DEF DocumentReadsBack, SealHolds
<1>3. CASE ~ \E p \in Numbers : dWords = BlankArena(dDoc.ns, p)
  <2>1. PICK d : /\ Stands(d, dVersion) /\ LaidOut(dWords, d, dVersion)
                 /\ dWords[4] = SealOf(Mixed(d, dVersion))
                 /\ d.nodes = dDoc.nodes /\ d.assets = dDoc.assets /\ d.program = dDoc.program
    BY <1>3, Zenon DEF DocumentStands
  <2>2. PageAccepts(dWords) /\ PageChecksum(dWords) = dWords[4] /\ ServerAccepts(dWords)
    BY <2>1, SealedIsAccepted
  <2>3. /\ Decoded(dWords, "page").nodes = d.nodes /\ Decoded(dWords, "page").assets = d.assets
        /\ Decoded(dWords, "page").program = d.program
    BY <2>1, DocumentIsRead
  <2>4. PageCards(dDoc.program) = ServerCards(dDoc.program)
    BY Zenon DEF DocumentStands
  <2> QED
    BY <2>1, <2>2, <2>3, <2>4, Zenon DEF DocumentReadsBack, SealHolds, PageDecoded
<1> QED
  BY <1>2, <1>3

\* For any coordinates and project ids, a document of any of the four versions means to
\* the page what the server wrote, a copy of it has the same nodes, assets and cards, and
\* everything that is written, created or copied is accepted by the page and the server.
THEOREM DocumentsReadBack == DocumentSpec => []DocumentInv
<1>1. DocumentInit => DocumentStands
  BY DocumentBegins
<1>2. DocumentStands /\ [DocumentNext]_dVars => DocumentStands'
  BY DocumentGoes
<1>3. DocumentStands => DocumentInv
  BY DocumentIsSound
<1> QED
  BY <1>1, <1>2, <1>3, PTL DEF DocumentSpec
=============================================================================
