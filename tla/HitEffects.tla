------------------------------- MODULE HitEffects -------------------------------
(***************************************************************************)
(* How the browser client shows hits.  The server keeps a short list of the *)
(* newest impacts, which never grow old (src/session/                       *)
(* web_multiplayer_simulation.kf), and every snapshot has all of it; the    *)
(* page (apps/web_alpha/session_transport.js, webgl_renderer.js) shows a    *)
(* number, a flash and a flinch for the impacts it has not seen, and keeps  *)
(* what it has seen in three lists of its own.                              *)
(*                                                                         *)
(* An impact has a number, a target, a damage that may be none, and, to     *)
(* tell it from its like, the match it is of: the numbers start again at    *)
(* each map.  Source, kind and place, the rest of the key, are taken to be  *)
(* the same.  What a number, a flash and a flinch look like is left out.    *)
(***************************************************************************)
EXTENDS Lists, SequencesExt

CONSTANTS ServerCap,  \* impacts in the list of the server (8)
          PageCap,    \* impacts the page remembers (32)
          LabelCap,   \* numbers on the screen (24)
          MaxHits,    \* bound: impacts of a match
          MaxMatches  \* bound: matches, and servers

ASSUME HitAssumption ==
  /\ {ServerCap, PageCap, LabelCap, MaxHits, MaxMatches} \subseteq Nat \ {0}
  /\ 2 * ServerCap <= PageCap /\ LabelCap <= PageCap

VARIABLES hServer,   \* the server: match, tick, next sequence number, list of impacts
          hMe,       \* the page's player
          hScene,    \* sceneState: tick, own player and impacts
          hSeen,     \* the memory that is looked at
          hLabels,   \* damageNumberLabels: keys, the oldest first
          hElements, \* how many numbers the page's document has
          hShow      \* showDamageNumbers

hVars == <<hServer, hMe, hScene, hSeen, hLabels, hElements, hShow>>

\* The three memories do not depend on each other: a run has one of them.  It has the
\* keys, the tick of the last scene and, as history, which impacts have been shown and
\* whether one was shown twice.  A page has a scene of its own at first.
Memories == [of : {"numbers", "flash", "flinch"}, keys : {<<>>}, tick : {0}, told : {{}}, twice : {FALSE}]

HitInit ==
  /\ hServer = [match |-> 1, tick |-> 0, next |-> 1, list |-> <<>>] /\ hMe = 1
  /\ hScene = [tick |-> 0, me |-> 0, impacts |-> <<>>] /\ hShow = TRUE
  /\ hSeen \in Memories /\ hLabels = <<>> /\ hElements = 0

-----------------------------------------------------------------------------
(* The server. *)

\* pushImpact: of a player, or of something else, which does no damage here.  The tick is
\* that of the server and runs on at a new map.
Hit ==
  /\ hServer.next <= MaxHits
  /\ \E target \in {0, 1, 2} :
       LET impact == [sequence |-> hServer.next, target |-> target, hurts |-> target # 0,
                      match |-> hServer.match]
           list == IF Len(hServer.list) = ServerCap THEN Tail(hServer.list) ELSE hServer.list
       IN hServer' = [hServer EXCEPT !.tick = @ + 1, !.next = @ + 1, !.list = Append(list, impact)]
  /\ UNCHANGED <<hMe, hScene, hSeen, hLabels, hElements, hShow>>

\* A new map forgets the impacts and their numbers.
NewMap ==
  /\ hServer.match < MaxMatches
  /\ hServer' = [match |-> hServer.match + 1, tick |-> hServer.tick + 1, next |-> 1, list |-> <<>>]
  /\ UNCHANGED <<hMe, hScene, hSeen, hLabels, hElements, hShow>>

-----------------------------------------------------------------------------
(* What the page remembers. *)

\* Mutant: two are forgotten for one that is new.
RememberFewer(keys, key) ==
  IF Len(keys) > 1 THEN Append(Tail(Tail(keys)), key) ELSE Append(keys, key)

Remember(keys, key) ==
  IF Len(keys) = PageCap THEN Append(Tail(keys), key) ELSE Append(keys, key)

\* Mutant: the number alone.
KeySequence(impact) == impact.sequence

Key(impact) == <<impact.sequence, impact.target, impact.hurts>>

IsNews(memory, impact) == impact.hurts /\ ~Contains(memory.keys, Key(impact))

Noticed(memory, impact) ==
  IF IsNews(memory, impact)
  THEN [memory EXCEPT !.keys = Remember(@, Key(impact)), !.told = @ \cup {impact},
                      !.twice = @ \/ impact \in memory.told]
  ELSE memory

\* A tick that goes back is another server's.
Rewound(memory, tick) ==
  IF tick < memory.tick THEN [memory EXCEPT !.keys = <<>>, !.tick = tick]
  ELSE [memory EXCEPT !.tick = tick]

\* Mutant: the numbers stay when the keys are forgotten.
LabelsKept(tick) == [keys |-> hLabels, elements |-> hElements]

LabelsRewound(tick) ==
  IF tick < hSeen.tick THEN [keys |-> <<>>, elements |-> hElements - Len(hLabels)]
  ELSE [keys |-> hLabels, elements |-> hElements]

\* A number for a new impact; the oldest is removed when there are too many.  A key that
\* has a number already loses hold of it.
Labelled(labels, key) ==
  LET added == IF Contains(labels.keys, key) THEN labels.keys ELSE Append(labels.keys, key)
  IN IF Len(added) > LabelCap THEN [keys |-> Tail(added), elements |-> labels.elements]
     ELSE [keys |-> added, elements |-> labels.elements + 1]

\* One impact: what is remembered and which numbers are shown.
Shown(s, impact) ==
  [memory |-> Noticed(s.memory, impact),
   labels |-> IF IsNews(s.memory, impact) /\ hShow THEN Labelled(s.labels, Key(impact)) ELSE s.labels]

\* The loop over impacts of a scene.
Look(scene, impacts) ==
  LET start == [memory |-> Rewound(hSeen, scene.tick), labels |-> LabelsRewound(scene.tick)]
      seen[k \in 0 .. Len(impacts)] == IF k = 0 THEN start ELSE Shown(seen[k - 1], impacts[k])
  IN seen[Len(impacts)]

\* updateDamageNumbers: all impacts; then numbers whose time is over go.
UpdateDamageNumbers(scene) ==
  LET end == Look(scene, scene.impacts) IN
  /\ hSeen' = end.memory
  /\ \E gone \in 0 .. Len(end.labels.keys) :
       /\ ~hShow => gone = Len(end.labels.keys)
       /\ hLabels' = SubSeq(end.labels.keys, gone + 1, Len(end.labels.keys))
       /\ hElements' = end.labels.elements - gone

\* updateLocalHitFeedback: only hits on the own player; those in the first scene of another
\* server are noticed, and have no flash.
UpdateLocalHitFeedback(scene) ==
  LET own == Only(scene.impacts, {impact \in ToSet(scene.impacts) : impact.target = scene.me})
  IN hSeen' = Look(scene, own).memory

\* updateActorHitFlinches, of the renderer, for the scene of the page
UpdateFlinches == hSeen' = Look(hScene, hScene.impacts).memory

-----------------------------------------------------------------------------
(* The page. *)

\* applyAuthoritativeScene; some snapshots may be missed
Arrives ==
  LET scene == [tick |-> hServer.tick, me |-> hMe, impacts |-> hServer.list]
  IN /\ hScene' = scene
     /\ \/ hSeen.of = "numbers" /\ UpdateDamageNumbers(scene)
        \/ hSeen.of = "flash" /\ UpdateLocalHitFeedback(scene) /\ UNCHANGED <<hLabels, hElements>>
        \/ hSeen.of = "flinch" /\ UNCHANGED <<hSeen, hLabels, hElements>>
     /\ UNCHANGED <<hServer, hMe, hShow>>

\* renderFrame: the page may be hidden, and draws no frame for long
Frame ==
  /\ \/ hSeen.of = "numbers" /\ UpdateDamageNumbers(hScene)
     \/ hSeen.of = "flinch" /\ UpdateFlinches /\ UNCHANGED <<hLabels, hElements>>
  /\ UNCHANGED <<hServer, hMe, hScene, hShow>>

\* clearDamageNumberLabels
ClearLabels == hLabels' = <<>> /\ hElements' = hElements - Len(hLabels)

\* The setting is changed.
ShowNumbers ==
  /\ hSeen.of = "numbers" /\ hShow' = ~hShow /\ ClearLabels
  /\ UNCHANGED <<hServer, hMe, hScene, hSeen>>

\* disconnect without keeping the scene, and a new admission, as another player
JoinAgain ==
  /\ hMe = 1 /\ hMe' = 2 /\ hScene' = [hScene EXCEPT !.impacts = <<>>] /\ ClearLabels
  /\ UNCHANGED <<hServer, hSeen, hShow>>

\* The server starts again; the page retries and keeps its scene.
OtherServer ==
  /\ hServer.match < MaxMatches
  /\ hServer' = [match |-> hServer.match + 1, tick |-> 0, next |-> 1, list |-> <<>>] /\ hMe' = 1
  /\ UNCHANGED <<hScene, hSeen, hLabels, hElements, hShow>>

HitNext ==
  Hit \/ NewMap \/ Arrives \/ Frame \/ ShowNumbers \/ JoinAgain \/ OtherServer

HitSpec == HitInit /\ [][HitNext]_hVars

-----------------------------------------------------------------------------
(* Properties. *)

\* No hit is shown twice, however long it stays in the snapshots, while the page is told
\* of others, maps change and servers start again: a key is not forgotten while the
\* server still has its impact.
ShownOnce == ~hSeen.twice

\* Every hit in the scene has had its number, and one on the own player its flash or, with
\* another server, has been left out on purpose, if not for one that was the same in
\* every field.
HitsAreShown ==
  \A impact \in ToSet(hScene.impacts) :
    impact.hurts /\ (hSeen.of = "numbers" \/ (hSeen.of = "flash" /\ impact.target = hScene.me)) =>
      \E other \in hSeen.told : [other EXCEPT !.match = impact.match] = impact

\* Every number in the page's document is one that is still to be removed.
NumbersGoAway == hElements = Len(hLabels)

\* Every hit is shown once, and its number is removed.
HitsInv == ShownOnce /\ HitsAreShown /\ NumbersGoAway
=============================================================================
