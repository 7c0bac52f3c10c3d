--------------------------- MODULE SnapshotLayout ---------------------------
(***************************************************************************)
(* The words of a multiplayer snapshot after its header of 18 words, as    *)
(* apps/web_server/main.kf writes them and as three places of              *)
(* apps/web_alpha/session_transport.js read them: validateWords decides    *)
(* whether the frame is accepted, parseMultiplayerScene reads the scene of *)
(* the page, botSceneData that of a battle bot.  The words at the end do   *)
(* not describe themselves: every reader guesses from their number whether *)
(* the layouts of older servers, with an oxygen value per actor and a      *)
(* shorter suffix, are there.                                              *)
(*                                                                         *)
(* "frame" is those words without the checksum, numbered from 1; offsets   *)
(* are from 0 as in the code.                                              *)
(***************************************************************************)
EXTENDS Integers, Sequences, SequencesExt, FiniteSetsExt

CONSTANTS MaxActors,    \* players and training dummies of a match
          MaxSlices,    \* ripe slices on the map
          Places        \* coordinates an object is at, within the world

ASSUME LayoutAssumption ==
  /\ MaxActors \in 1 .. 8 /\ MaxSlices \in 0 .. 4
  /\ Places \subseteq 4 .. 100 /\ Places # {}

VARIABLES written,  \* the fields of the snapshot the server sends
          look,     \* what its first actor does
          actors, frame

layoutVars == <<written, look, actors, frame>>

Id == 1 .. MaxSlices + 1
Fields == [projectiles : {0, 2}, throwables : {0, 1}, impacts : {0, 1},
           pickup : {0, 1}, at : Places, charge : {0, 30}, slices : {a .. b : a, b \in Id},
           map : {1, 2}, votes : {0, 1, MaxActors}, respawn : {0, 360}]

\* The posture bits, power-up, animation and dizziness of an actor; an animation of
\* 7 is a roll, which may be to the negative side.
Looks == [posture : 0 .. 7, power : 0 .. 8, animation : 0 .. 14,
          dizzy : BOOLEAN, negative : BOOLEAN]
Standing == [posture |-> 1, power |-> 0, animation |-> 0, dizzy |-> FALSE, negative |-> FALSE]
RollsBack(l) == l.animation = 7 /\ l.negative

\* Mutant: the power-up is written beside the animation.
PackedBeside(l) == l.posture + l.power * 128 + l.animation * 128

\* playerState
Packed(l) ==
  l.posture + l.power * 8 + (IF RollsBack(l) THEN 64 ELSE 0) + l.animation * 128
  + (IF l.dizzy THEN 2048 ELSE 0)

\* webBuildMultiplayerSnapshotActors: the players, then the training dummies
ActorWords(f) == FlattenSeq([k \in 1 .. actors |->
  IF k <= 4 THEN <<k, f.at, 0, f.at, 100, Packed(look), 1 + (k % 2), 90>>
            ELSE <<4 - k, f.at, 0, f.at, 100, 0, 3, 0>>])

\* The lists of webMultiplayerSnapshot, after the applied input sequence and the
\* length of each; every item is eight words.
ListWords(f) ==
  <<7, f.projectiles, f.throwables, f.impacts>>
  \o FlattenSeq([k \in 1 .. f.projectiles |-> <<k, 1, 2, f.at, 0, f.at, 60, 1>>])
  \o FlattenSeq([k \in 1 .. f.throwables |-> <<k, 1, f.at, 0, f.at, 60, 6, 36>>])
  \o FlattenSeq([k \in 1 .. f.impacts |-> <<k, 8, 1, 2, f.at, 0, f.at, 15>>])

\* The k-th of the ripe slices, which are written in the order of their numbers.
Ripe(slices, k) == CHOOSE id \in slices : Cardinality({i \in slices : i <= id}) = k

\* webMultiplayerSnapshot
SuffixWords(f) ==
  <<f.pickup, f.at, 0, f.at, IF f.pickup = 1 THEN 6 ELSE 0,
    IF f.charge > 0 THEN 1 ELSE 0, f.charge, IF f.charge > 0 THEN 6 ELSE 0, 30,
    Cardinality(f.slices)>>
  \o FlattenSeq([k \in 1 .. Cardinality(f.slices) |->
                   <<Ripe(f.slices, k), f.at, 0, f.at>>])
  \o <<f.map, 0, 7200, f.votes, 0, f.votes, f.respawn>>

QuietFields ==
  [projectiles |-> 0, throwables |-> 0, impacts |-> 0, pickup |-> 0,
   at |-> Min(Places), charge |-> 0, slices |-> {}, map |-> 1, votes |-> 0, respawn |-> 0]

\* Every combination of fields with an actor that stands, or everything an actor
\* may do in one snapshot.
LayoutInit ==
  /\ \/ /\ written \in Fields /\ Cardinality(written.slices) <= MaxSlices
        /\ actors \in 0 .. MaxActors /\ look = Standing
     \/ /\ written = QuietFields /\ actors = 2
        /\ look \in Looks /\ (look.negative => look.animation = 7)
  /\ frame = <<>>

\* The server writes its snapshot; every snapshot is read on its own.
LayoutNext ==
  /\ frame = <<>> /\ frame' = ActorWords(written) \o ListWords(written) \o SuffixWords(written)
  /\ UNCHANGED <<written, look, actors>>

LayoutSpec == LayoutInit /\ [][LayoutNext]_layoutVars

-----------------------------------------------------------------------------
(* Reading. *)

\* words[18 + offset], undefined beyond the frame (the checksum is not a small number)
At(offset) == IF offset + 1 \in DOMAIN frame THEN frame[offset + 1] ELSE -1

\* The trailer, the items of its lists and what follows them.
Trailer == 8 * actors
ItemAt(from, k) == SubSeq(frame, from + 8 * k + 1, from + 8 * k + 8)
Items(from, n) == [k \in 1 .. n |-> ItemAt(from, k - 1)]
ThrowablesAt == Trailer + 4 + 8 * At(Trailer + 1)
ImpactsAt == ThrowablesAt + 8 * At(Trailer + 2)

\* Mutant: the impacts are not skipped.
TailAtImpacts == ImpactsAt

TailAt == ImpactsAt + 8 * At(Trailer + 3)
TailLength == Len(frame) - TailAt

\* isSuffixLength, isKnownSuffixLength
IsSuffixLength(length) ==
  \/ length \in {0, 6}
  \/ /\ length \in 10 .. 33
     /\ (length - 10) % 4 = 0 \/ (length - 16) % 4 = 0 \/ (length - 17) % 4 = 0

\* hasNewSuffix
HasNewSuffix(length) ==
  LET slices == At(TailAt + 9)
  IN length \in 10 .. 33 /\ slices \in 0 .. 4 /\ length - 4 * slices \in {10, 16, 17}

HasOxygen(length) ==
  /\ ~HasNewSuffix(length) /\ ~IsSuffixLength(length)
  /\ IsSuffixLength(length - actors)

\* Where the suffix starts.
SuffixAt == TailAt + (IF HasOxygen(TailLength) THEN actors ELSE 0)

\* The slices, and the words after them, of a suffix that starts at o.
SlicesAt(o) == {At(o + 10 + 4 * k) : k \in 0 .. At(o + 9) - 1}
MetadataAt(o) == o + 10 + 4 * At(o + 9)

\* The state word of an actor, taken apart.
ParsedLook(state) ==
  [posture |-> state % 8, power |-> (state \div 8) % 16,
   animation |-> (state \div 128) % 16, dizzy |-> (state \div 2048) % 2 = 1]

\* parseMultiplayerScene
ParsedScene ==
  LET o == SuffixAt
      m == MetadataAt(o)
  IN [actors |-> [k \in 1 .. actors |-> At(8 * (k - 1))],
      projectiles |-> Items(Trailer + 4, At(Trailer + 1)),
      throwables |-> Items(ThrowablesAt, At(Trailer + 2)),
      impacts |-> Items(ImpactsAt, At(Trailer + 3)),
      pickup |-> At(o), at |-> At(o + 1), charge |-> At(o + 6),
      slices |-> SlicesAt(o),
      map |-> At(m), votes |-> At(m + 3),
      respawn |-> IF Len(frame) - o = 17 + 4 * At(o + 9) THEN At(m + 6) ELSE 0]

\* botSceneData
BotScene ==
  LET o == SuffixAt IN
  [projectiles |-> [k \in 1 .. At(Trailer + 1) |-> ItemAt(Trailer + 4, k - 1)[3]],
   pickup |-> At(o), at |-> At(o + 1), charge |-> At(o + 6), seeds |-> At(o + 8)]

-----------------------------------------------------------------------------
(* Accepting: validateWords on the same words. *)

World == 4 .. 276
Height == 0 .. 100
Placed(i, x) == i[x] \in World /\ i[x + 1] \in Height /\ i[x + 2] \in World

ValidActor(a) ==
  /\ IF a[7] = 3 THEN a[1] \in -4 .. -1 /\ a[6] = 0 ELSE a[1] \in 1 .. 1000000 /\ a[7] \in {1, 2}
  /\ Placed(a, 2) /\ a[5] \in 0 .. 100
  /\ a[6] \in 0 .. 3959 /\ (a[6] \div 128) % 16 <= 14 /\ a[8] \in 0 .. 359
ValidProjectile(i) == i[1] > 0 /\ Placed(i, 4) /\ i[7] \in 0 .. 10000000 /\ i[8] \in {1, 3}
ValidThrowable(i) == i[1] > 0 /\ Placed(i, 3) /\ i[6] >= 0 /\ i[7] \in 1 .. 6 /\ i[8] \in 0 .. 36
ValidImpact(i) == i[1] >= 0 /\ i[2] \in 1 .. 8 /\ Placed(i, 5) /\ i[8] \in 0 .. 100

\* The actors and lists of a frame.
ValidLists ==
  /\ \A k \in 1 .. actors : ValidActor(ItemAt(0, k - 1))
  /\ Cardinality({At(8 * (k - 1)) : k \in 1 .. actors}) = actors
  /\ At(Trailer + 1) \in 0 .. 12 /\ At(Trailer + 2) \in 0 .. 4 /\ At(Trailer + 3) \in 0 .. 8
  /\ \A k \in 1 .. At(Trailer + 1) : ValidProjectile(ItemAt(Trailer + 4, k - 1))
  /\ \A k \in 1 .. At(Trailer + 2) : ValidThrowable(ItemAt(ThrowablesAt, k - 1))
  /\ \A k \in 1 .. At(Trailer + 3) : ValidImpact(ItemAt(ImpactsAt, k - 1))

\* hasNoOxygenNewSuffix and hasOxygen of validateWords.  A remainder is compared
\* with 0 only, so its sign does not matter.
ValidatorAt ==
  LET length == TailLength
      slices == At(TailAt + 9)
      newest == /\ length \in 10 .. 32 /\ slices \in 0 .. 4
                /\ length - 4 * slices \in {10, 16}
      oxygen == \/ length \in {actors, actors + 6}
                \/ /\ length \in actors + 10 .. actors + 32
                   /\ \/ (length - actors - 10) % 4 = 0
                      \/ (length - actors - 16) % 4 = 0
  IN TailAt + (IF ~newest /\ oxygen THEN actors ELSE 0)

\* Mutant: the fields of the suffix are not looked at.
ValidSuffixLength(o, length) == length - 4 * At(o + 9) \in {10, 16, 17}

\* The checks of the suffix words themselves.
ValidSuffix(o, length) ==
  LET slices == At(o + 9)
      m == MetadataAt(o)
  IN /\ At(o) \in {0, 1} /\ At(o + 1) \in World /\ At(o + 2) \in Height
     /\ At(o + 3) \in World
     /\ At(o + 4) \in 0 .. 6 /\ At(o + 5) \in {0, 1} /\ At(o + 6) \in 0 .. 30
     /\ At(o + 7) \in 0 .. 6 /\ At(o + 8) \in 0 .. 30
     /\ slices \in 0 .. 4 /\ length - 4 * slices \in {10, 16, 17}
     /\ Cardinality(SlicesAt(o)) = slices
     /\ \A k \in 0 .. slices - 1 :
          /\ At(o + 11 + 4 * k) \in World /\ At(o + 12 + 4 * k) \in Height
          /\ At(o + 13 + 4 * k) \in World
     /\ length - 4 * slices > 10 =>
          /\ At(m) \in {1, 2} /\ At(m + 1) \in {0, 1} /\ At(m + 2) \in 0 .. 7200
          /\ At(m + 3) \in 0 .. 8 /\ At(m + 4) \in 0 .. 8
          /\ At(m + 5) = At(m + 3) + At(m + 4)
     /\ length - 4 * slices = 17 => At(m + 6) \in 0 .. 360

\* validateWords; the suffix of 6 words of an older server is not written here.
Accepts ==
  LET length == Len(frame) - ValidatorAt
  IN /\ ValidLists
     /\ \/ length \in 10 .. 32 /\ ((length - 10) % 4 = 0 \/ (length - 16) % 4 = 0)
        \/ length \in actors + 10 .. actors + 32
     /\ ValidSuffix(ValidatorAt, length)

-----------------------------------------------------------------------------
(* Properties. *)

\* The page and its bots read from every snapshot what the server wrote, however
\* many actors, items and slices there are.
SceneReadsBack == frame # <<>> =>
  LET scene == ParsedScene
      numbered(items, n) == Len(items) = n /\ \A k \in 1 .. n : items[k][1] = k
  IN /\ Len(scene.actors) = actors
     /\ \A list \in {"projectiles", "throwables", "impacts"} : numbered(scene[list], written[list])
     /\ \A f \in {"pickup", "at", "charge", "slices", "map", "votes", "respawn"} :
          scene[f] = written[f]
     /\ BotScene = [projectiles |-> [k \in 1 .. written.projectiles |-> 2],
                    pickup |-> written.pickup, at |-> written.at,
                    charge |-> written.charge, seeds |-> 30]

\* The page draws every actor as the server moves it.  A roll to the negative side
\* is left out: its bit is one of the bits of the power-up, which the page shows
\* as a Wizard Hat, or carries into the animation when there is one.
ActorReadsBack == frame # <<>> /\ actors > 0 /\ ~RollsBack(look) =>
  ParsedLook(At(5)) = [f \in {"posture", "power", "animation", "dizzy"} |-> look[f]]

\* A snapshot the page accepts is read by its parser from where it was checked.
CheckedAsRead == frame # <<>> /\ Accepts => ValidatorAt = SuffixAt

\* Server, validator, parser and bots read one layout.
LayoutInv == SceneReadsBack /\ ActorReadsBack /\ CheckedAsRead

\* Every snapshot of a match is accepted.  A single player, a training session of
\* one player and its four dummies, for two, are not.
EveryMatchIsAccepted == frame # <<>> => Accepts
=============================================================================
