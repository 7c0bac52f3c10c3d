------------------------------ MODULE PageProofs ------------------------------
(* Parts of a page that run beside its session: what a spectator is shown of *)
(* the fighters, for every set of them, the models the renderer holds for a  *)
(* document, for every set of assets and of loads, the layout of the touch   *)
(* controls, for any controls and presets, what the controls hold, what a    *)
(* bot throws, however late its frames and scenes are, the libraries of      *)
(* projects that tabs write over each other, the document that the pages of  *)
(* an editor share, and the words of a snapshot as the page reads them.      *)
EXTENDS Spectator, RendererModels, TouchLayout, BrowserInput, BotDecision, ProjectLibrary,
        KutterEditor, SnapshotLayout,
        ListProofs, FiniteSetTheorems, WellFoundedInduction, TLAPS

-----------------------------------------------------------------------------
(* The spectator.                                                            *)

\* The camera's next fighter by number is one of those it chooses from.
LEMMA LeastIsThere ==
  ASSUME NEW S \in SUBSET Nat, S # {}
  PROVE  Least(S) \in S /\ \A g \in S : Least(S) <= g
<1> DEFINE R == {p \in Nat \X Nat : p[1] < p[2]}
<1>1. IsWellFoundedOn(R, Nat)
  BY NatLessThanWellFounded DEF OpToRel
<1>2. PICK f \in S : \A g \in S : ~ (<<g, f>> \in R)
  <2> HIDE DEF R
  <2> QED
    BY <1>1, WFMin
<1>3. \A g \in S : ~ (g < f)
  BY <1>2
<1>4. \A g \in S : f <= g
  BY <1>3
<1> QED
  BY <1>4 DEF Least

\* So is the previous one. (A set without a greatest number has a smallest subset without
\* one; taking a number from that leaves a smaller one.)
LEMMA GreatestIsThere ==
  ASSUME NEW S \in SUBSET Nat, IsFiniteSet(S), S # {}
  PROVE  Greatest(S) \in S
<1> DEFINE Unbounded(m) == \E T \in SUBSET S :
             /\ T # {} /\ Cardinality(T) = m /\ \A f \in T : \E g \in T : ~(g <= f)
           Sizes == {m \in Nat : Unbounded(m)}
<1>1. Sizes = {}
  <2> SUFFICES ASSUME Sizes # {}
               PROVE  FALSE
    OBVIOUS
  <2>1. PICK m \in Sizes : \A n \in Sizes : m <= n
    <3>1. Sizes \subseteq Nat
      OBVIOUS
    <3> HIDE DEF Sizes
    <3> QED
      BY <3>1, LeastIsThere
  <2>2. PICK T \in SUBSET S :
          T # {} /\ Cardinality(T) = m /\ \A f \in T : \E g \in T : ~(g <= f)
    BY <2>1
  <2>3. PICK f \in T : TRUE
    BY <2>2
  <2>4. IsFiniteSet(T)
    BY FS_Subset
  <2>5. IsFiniteSet(T \ {f}) /\ Cardinality(T \ {f}) = m - 1 /\ m \in Nat /\ m - 1 \in Nat
    <3>1. m \in Nat /\ m = Cardinality(T)
      BY <2>1, <2>2
    <3>2. IsFiniteSet(T \ {f}) /\ Cardinality(T \ {f}) = Cardinality(T) - 1
      BY <2>3, <2>4, FS_RemoveElement
    <3>3. Cardinality(T \ {f}) \in Nat
      BY <3>2, FS_CardinalityType
    <3> QED
      BY <3>1, <3>2, <3>3
  <2>6. T \ {f} # {}
    BY <2>2
  <2>7. m - 1 \notin Sizes
    <3>1. m - 1 < m
      BY <2>5
    <3> QED
      BY <2>1, <2>5, <3>1
  <2>8. PICK h \in T \ {f} : \A g \in T \ {f} : g <= h
    BY <2>5, <2>6, <2>7
  <2>9. f \in Nat /\ h \in Nat /\ T \subseteq Nat
    BY <2>8
  <2>10. CASE f <= h
    <3>1. \A g \in T : g <= h
      BY <2>8, <2>10
    <3> QED
      BY <2>2, <3>1
  <2>11. CASE h <= f
    <3>1. \A g \in T : g <= f
      BY <2>8, <2>9, <2>11
    <3> QED
      BY <2>2, <3>1
  <2> QED
    BY <2>9, <2>10, <2>11
<1>2. \E f \in S : \A g \in S : g <= f
  <2>1. Cardinality(S) \in Nat
    BY FS_CardinalityType
  <2> QED
    BY <1>1, <2>1
<1> QED
  BY <1>2 DEF Greatest

Health == {"absent", "alive", "down"}
SpectatorTypes ==
  /\ vServer \in [Fighters -> Health] /\ vScene \in [Fighters -> Health]
  /\ vHealth \in [Fighters -> Health]
  /\ vLink \in {"ended", "lost", "joining", "admitted"}
  /\ {vRole, vActive, vChosen, vBaseline} \subseteq BOOLEAN
  /\ vFollow \in Fighters \cup {0} /\ vDrawn \in Fighters \cup {0, NotDrawn}
  /\ vWish \in Fighters \cup {0, NoWish}
  /\ vFallen \in [Fighters -> Nat] /\ vTold \in [Fighters -> Nat] /\ vSaw \in SUBSET Fighters

\* A wish is of a spectator who was shown fighters, and of a fighter who still stands.
Camera ==
  /\ vWish # NoWish => vChosen
  /\ vWish \in Fighters => vScene[vWish] = "alive"
  /\ Living(vScene) # {} => vChosen
  /\ ChoiceIsKept /\ CameraOnTheLiving

\* A fall that the page has yet to tell is one of those it counts as alive.
Feed ==
  /\ \A f \in Fighters :
       /\ vTold[f] <= vFallen[f]
       /\ vHealth[f] = "alive" /\ vServer[f] = "down" => vTold[f] + 1 <= vFallen[f]
       /\ vScene[f] = "down" => f \notin vSaw
       /\ vLink # "ended" /\ f \in vSaw => vHealth[f] = "alive"
  /\ vLink # "ended" /\ ~vBaseline => vSaw = {}

SpectatorInvariant == SpectatorTypes /\ Camera /\ Feed

\* A page before its first session.
LEMMA SpectatorStart == SpectatorInit => SpectatorInvariant
<1> SUFFICES ASSUME SpectatorInit
             PROVE  SpectatorInvariant
  OBVIOUS
<1>1. SpectatorTypes
  BY DEF SpectatorInit, NobodyThere, NoFalls, SpectatorTypes, Health
<1>2. Camera
  BY SpectatorAssumption
     DEF SpectatorInit, NobodyThere, NotDrawn, NoWish, Camera, Living, ChoiceIsKept, CameraOnTheLiving
<1>3. Feed
  BY DEF SpectatorInit, NobodyThere, NoFalls, Feed
<1> QED
  BY <1>1, <1>2, <1>3 DEF SpectatorInvariant

\* Every step of the match, of the session and of the camera keeps the invariant.
LEMMA SpectatorStep == SpectatorInvariant /\ [SpectatorNext]_vVars => SpectatorInvariant'
<1> SUFFICES ASSUME SpectatorInvariant, [SpectatorNext]_vVars
             PROVE  SpectatorInvariant'
  OBVIOUS
<1> USE DEF SpectatorInvariant, NotDrawn, NoWish
<1>0. Fighters \subseteq Nat /\ 0 \notin Fighters /\ -1 \notin Fighters
  BY SpectatorAssumption
<1>1. CASE UNCHANGED vVars
  BY <1>1
     DEF vVars, vSession, vCamera, vFalls, SpectatorTypes, Camera, Feed, Living, ChoiceIsKept,
         CameraOnTheLiving
<1>2. CASE FighterChanges
  <2>1. PICK f \in Fighters, state \in Health :
          /\ vServer' = [vServer EXCEPT ![f] = state]
          /\ \/ vServer[f] # "alive" /\ state # "down" /\ UNCHANGED vFallen
             \/ vServer[f] = "alive" /\ state = "absent" /\ UNCHANGED vFallen
             \/ vServer[f] = "alive" /\ state = "down" /\ vFallen' = [vFallen EXCEPT ![f] = @ + 1]
    BY <1>2 DEF FighterChanges, Health
  <2>2. vDrawn' = NotDrawn /\ UNCHANGED <<vSession, vScene, vCamera, vFalls>>
    BY <1>2 DEF FighterChanges
  <2>3. SpectatorTypes'
    BY <2>1, <2>2 DEF SpectatorTypes, vSession, vCamera, vFalls
  <2>4. Camera'
    BY <1>0, <2>2 DEF Camera, vCamera, Living, ChoiceIsKept, CameraOnTheLiving
  <2>5. Feed'
    BY <2>1, <2>2 DEF Feed, SpectatorTypes, vSession, vFalls
  <2> QED
    BY <2>3, <2>4, <2>5
<1>3. CASE SnapshotShown
  <2>0. /\ vLink = "admitted" /\ UpdateFeed(vServer) /\ UpdateScene(vServer)
        /\ vDrawn' = NotDrawn /\ UNCHANGED <<vServer, vSession, vFallen>>
        /\ vWish' = IF vWish \in Fighters \ Living(vServer) THEN NoWish ELSE vWish
    BY <1>3 DEF SnapshotShown
  <2>1. vBaseline' = TRUE /\ vHealth' \in [Fighters -> Health] /\ vTold' \in [Fighters -> Nat]
        /\ vSaw' \in SUBSET Fighters
    <3>1. CASE vBaseline
      <4>1. /\ vBaseline' = vBaseline
            /\ vHealth' = [f \in Fighters |-> IF vServer[f] = "absent" THEN vHealth[f] ELSE vServer[f]]
            /\ vTold' = [f \in Fighters |-> IF f \in FallsIn(vServer) THEN vTold[f] + 1 ELSE vTold[f]]
            /\ vSaw' = (vSaw \ FallsIn(vServer)) \cup {f \in Fighters : vServer[f] = "alive"}
        BY <2>0, <3>1 DEF UpdateFeed
      <4>2. vBaseline' = TRUE
        BY <3>1, <4>1, Zenon DEF SpectatorTypes
      <4>3. /\ vHealth' \in [Fighters -> Health] /\ vTold' \in [Fighters -> Nat]
            /\ vSaw' \in SUBSET Fighters
        BY <4>1 DEF SpectatorTypes
      <4> QED
        BY <4>2, <4>3, Zenon
    <3>2. CASE ~vBaseline
      BY <2>0, <3>2 DEF UpdateFeed, SpectatorTypes
    <3> QED
      BY <3>1, <3>2
  <2>2. /\ vScene' = vServer /\ vFollow' \in Fighters \cup {0} /\ {vActive, vChosen}' \subseteq BOOLEAN
        /\ Living(vServer) # {} => vChosen'
        /\ vChosen => UNCHANGED <<vFollow, vActive, vChosen>>
    BY <2>0 DEF UpdateScene, ChoosesFirst, Living, SpectatorTypes
  <2>3. SpectatorTypes'
    BY <2>0, <2>1, <2>2 DEF SpectatorTypes, vSession
  <2>4. Camera'
    BY <1>0, <2>0, <2>2 DEF Camera, Living, ChoiceIsKept, CameraOnTheLiving, SpectatorTypes
  <2>5. Feed'
    <3>1. CASE ~vBaseline
      BY <2>0, <2>2, <3>1 DEF UpdateFeed, Feed, vSession, SpectatorTypes
    <3>2. CASE vBaseline
      <4> DEFINE falls == FallsIn(vServer)
      <4>1. /\ vHealth' = [f \in Fighters |-> IF vServer[f] = "absent" THEN vHealth[f] ELSE vServer[f]]
            /\ vTold' = [f \in Fighters |-> IF f \in falls THEN vTold[f] + 1 ELSE vTold[f]]
            /\ vSaw' = (vSaw \ falls) \cup {f \in Fighters : vServer[f] = "alive"}
        BY <2>0, <3>2 DEF UpdateFeed
      <4>2. \A f \in Fighters : f \in falls <=> vHealth[f] = "alive" /\ vServer[f] = "down"
        BY DEF FallsIn
      <4> HIDE DEF falls
      <4> QED
        BY <2>0, <2>1, <2>2, <4>1, <4>2 DEF Feed, vSession, SpectatorTypes, Health
    <3> QED
      BY <3>1, <3>2
  <2> QED
    BY <2>3, <2>4, <2>5
<1>4. CASE DrawFrame
  <2>0. UNCHANGED <<vServer, vSession, vScene, vChosen, vWish, vFalls, vFallen>>
    BY <1>4 DEF DrawFrame
  <2>1. Targets \subseteq Nat /\ (Targets # {} => Least(Targets) \in Targets)
    BY <1>0, LeastIsThere DEF Targets, Living
  <2>2. /\ vFollow' \in Fighters \cup {0} /\ vActive' \in BOOLEAN
        /\ vActive' => vFollow' \in Living(vScene)
        /\ vWish # NoWish => UNCHANGED <<vFollow, vActive>>
    <3>1. CASE vActive /\ vFollow \notin Living(vScene)
      <4>1. vWish = NoWish
        BY <3>1 DEF Camera, ChoiceIsKept, SpectatorTypes, Living
      <4>2. CASE Targets # {}
        BY <1>4, <2>1, <3>1, <4>1, <4>2 DEF DrawFrame, SpectatorTypes, Targets, Living
      <4>3. CASE Targets = {}
        BY <1>4, <3>1, <4>1, <4>3 DEF DrawFrame
      <4> QED
        BY <4>2, <4>3
    <3>2. CASE ~(vActive /\ vFollow \notin Living(vScene))
      BY <1>4, <3>2 DEF DrawFrame, SpectatorTypes
    <3> QED
      BY <3>1, <3>2
  <2>3. vDrawn' = IF vActive' THEN vFollow' ELSE 0
    BY <1>4 DEF DrawFrame
  <2>4. SpectatorTypes'
    BY <2>0, <2>2, <2>3 DEF SpectatorTypes, vSession, vFalls
  <2>5. Camera'
    BY <1>0, <2>0, <2>2, <2>3 DEF Camera, Living, ChoiceIsKept, CameraOnTheLiving, SpectatorTypes
  <2>6. Feed'
    BY <2>0 DEF Feed, vSession, vFalls
  <2> QED
    BY <2>4, <2>5, <2>6
<1>5. CASE Cycle
  <2>0. vDrawn' = NotDrawn /\ UNCHANGED <<vServer, vSession, vScene, vChosen, vFalls, vFallen>>
    BY <1>5 DEF Cycle
  <2>1. \A set \in SUBSET Targets : set # {} => Least(set) \in Targets /\ Greatest(set) \in Targets
    <3>1. Targets \subseteq Nat /\ IsFiniteSet(Targets)
      BY <1>0, FS_Subset, SpectatorAssumption DEF Targets, Living
    <3> QED
      BY <3>1, LeastIsThere, GreatestIsThere, FS_Subset
  <2>2. \/ vFollow' = 0 /\ vActive' = FALSE /\ vWish' = NoWish
        \/ vFollow' \in Targets /\ vActive' = TRUE /\ vWish' = vFollow'
    <3>1. CASE Targets = {}
      BY <1>5, <3>1 DEF Cycle
    <3>2. CASE Targets # {}
      <4> DEFINE after == {f \in Targets : f > vFollow}
                 before == {f \in Targets : f < vFollow}
      <4>1. /\ Least(Targets) \in Targets /\ Greatest(Targets) \in Targets
            /\ Least(IF after = {} THEN Targets ELSE after) \in Targets
            /\ Greatest(IF before = {} THEN Targets ELSE before) \in Targets
        BY <2>1, <3>2
      <4>2. vActive' = TRUE /\ vWish' = vFollow'
        BY <1>5, <3>2 DEF Cycle
      <4>3. IF vFollow \notin Targets THEN vFollow' \in {Least(Targets), Greatest(Targets)}
            ELSE \/ vFollow' = Least(IF after = {} THEN Targets ELSE after)
                 \/ vFollow' = Greatest(IF before = {} THEN Targets ELSE before)
        BY <1>5, <3>2 DEF Cycle
      <4> HIDE DEF after, before
      <4> QED
        BY <4>1, <4>2, <4>3
    <3> QED
      BY <3>1, <3>2
  <2>3. Targets = Living(vScene) /\ Targets \subseteq Fighters
    BY DEF Targets, Living
  <2>4. SpectatorTypes'
    BY <2>0, <2>2, <2>3 DEF SpectatorTypes, vSession, vFalls
  <2>5. Camera'
    BY <1>0, <2>0, <2>2, <2>3 DEF Camera, Living, ChoiceIsKept, CameraOnTheLiving
  <2>6. Feed'
    BY <2>0 DEF Feed, vSession, vFalls
  <2> QED
    BY <2>4, <2>5, <2>6
<1>6. CASE FreeCamera
  <2>1. /\ vActive' = FALSE /\ vFollow' = 0 /\ vDrawn' = NotDrawn
        /\ vWish' = IF vChosen THEN 0 ELSE NoWish
        /\ UNCHANGED <<vServer, vSession, vScene, vChosen, vFalls, vFallen>>
    BY <1>6 DEF FreeCamera
  <2>2. SpectatorTypes' /\ Feed'
    BY <2>1 DEF SpectatorTypes, vSession, vFalls, Feed
  <2>3. Camera'
    BY <1>0, <2>1 DEF Camera, Living, ChoiceIsKept, CameraOnTheLiving
  <2> QED
    BY <2>2, <2>3
<1>7. CASE Admitted
  <2>1. /\ vLink = "joining" /\ vLink' = "admitted" /\ vRole' = TRUE /\ vDrawn' = NotDrawn
        /\ UNCHANGED <<vServer, vScene, vCamera, vFalls, vFallen>>
    BY <1>7 DEF Admitted
  <2> QED
    BY <1>0, <2>1
       DEF SpectatorTypes, Camera, Feed, vCamera, vFalls, Living, ChoiceIsKept, CameraOnTheLiving
<1>8. CASE LinkLost
  <2>1. /\ vLink # "ended" /\ vLink' = "lost" /\ vDrawn' = NotDrawn
        /\ UNCHANGED <<vServer, vRole, vScene, vCamera, vFalls, vFallen>>
    BY <1>8 DEF LinkLost
  <2> QED
    BY <1>0, <2>1
       DEF SpectatorTypes, Camera, Feed, vCamera, vFalls, Living, ChoiceIsKept, CameraOnTheLiving
<1>9. ASSUME NEW retry \in BOOLEAN, Connects(retry)
      PROVE  SpectatorInvariant'
  <2>1. /\ vLink' = "joining" /\ vRole' = FALSE /\ vDrawn' = NotDrawn /\ UNCHANGED vServer
    BY <1>9 DEF Connects
  <2>2. CASE retry
    <3>1. vLink = "lost" /\ UNCHANGED <<vCamera, vScene, vFalls, vFallen>>
      BY <1>9, <2>2 DEF Connects, ResetUnless
    <3> QED
      BY <1>0, <2>1, <3>1
         DEF SpectatorTypes, Camera, Feed, vCamera, vFalls, Living, ChoiceIsKept, CameraOnTheLiving
  <2>3. CASE ~retry
    <3>1. /\ vActive' = FALSE /\ vFollow' = 0 /\ vChosen' = FALSE /\ vWish' = NoWish
          /\ vScene' = NobodyThere /\ vBaseline' = FALSE /\ vHealth' = NobodyThere
          /\ vFallen' = NoFalls /\ vTold' = NoFalls /\ vSaw' = {}
      BY <1>9, <2>3 DEF Connects, ResetUnless, ResetFollow, BaselineGone
    <3>2. SpectatorTypes'
      BY <2>1, <3>1 DEF SpectatorTypes, NobodyThere, NoFalls, Health
    <3>3. Camera'
      BY <1>0, <2>1, <3>1 DEF Camera, NobodyThere, Living, ChoiceIsKept, CameraOnTheLiving
    <3>4. Feed'
      BY <2>1, <3>1 DEF Feed, NobodyThere, NoFalls
    <3> QED
      BY <3>2, <3>3, <3>4
  <2> QED
    BY <2>2, <2>3
<1>10. ASSUME NEW explicit \in BOOLEAN, SessionEnds(explicit)
       PROVE  SpectatorInvariant'
  <2>1. /\ vLink # "ended" /\ vLink' = (IF explicit THEN "ended" ELSE "lost") /\ vRole' = FALSE
        /\ vActive' = FALSE /\ vFollow' = 0 /\ vChosen' = FALSE /\ vWish' = NoWish
        /\ vScene' = NobodyThere /\ UNCHANGED <<vHealth, vTold, vSaw, vServer, vFallen>>
        /\ vBaseline' = (IF explicit THEN FALSE ELSE vBaseline) /\ vDrawn' = NotDrawn
    BY <1>10 DEF SessionEnds, ResetFollow, vFalls
  <2>2. SpectatorTypes'
    BY <2>1 DEF SpectatorTypes, NobodyThere, Health
  <2>3. Camera'
    BY <1>0, <2>1 DEF Camera, NobodyThere, Living, ChoiceIsKept, CameraOnTheLiving
  <2>4. Feed'
    BY <2>1 DEF Feed, NobodyThere
  <2> QED
    BY <2>2, <2>3, <2>4
<1> QED
  BY <1>1, <1>2, <1>3, <1>4, <1>5, <1>6, <1>7, <1>8, <1>9, <1>10 DEF SpectatorNext

\* What a spectator chose is kept for as long as the fighter stands, a drawn frame follows a
\* fighter that the page shows alive or nobody, and no fall is told that did not happen:
\* resolveFollowedPlayer and the kill feed, whatever is lost and reconnected between.
THEOREM SpectatorsSeeTheTruth == SpectatorSpec => []SpectatorInv
<1>1. SpectatorInvariant => SpectatorInv
  BY DEF SpectatorInvariant, Camera, Feed, SpectatorInv, FeedTellsFalls
<1> QED
  BY <1>1, SpectatorStart, SpectatorStep, PTL DEF SpectatorSpec

-----------------------------------------------------------------------------
(* The renderer.                                                             *)

\* As many slots as are needed can be given out, each once.
LEMMA SlotsSuffice ==
  ASSUME NEW S, NEW T, IsFiniteSet(S), IsFiniteSet(T), Cardinality(S) <= Cardinality(T)
  PROVE  \E f \in [S -> T] : \A a, b \in S : a # b => f[a] # f[b]
<1>1. /\ Cardinality(S) \in Nat /\ Cardinality(T) \in Nat
      /\ ExistsBijection(1 .. Cardinality(S), S) /\ ExistsBijection(1 .. Cardinality(T), T)
  BY FS_CardinalityType
<1>2. PICK p \in [1 .. Cardinality(S) -> S] : \A a \in S : \E i \in 1 .. Cardinality(S) : p[i] = a
  BY <1>1 DEF ExistsBijection, Bijection, Surjection, Injection
<1>3. PICK q \in [1 .. Cardinality(T) -> T] :
        \A i, j \in 1 .. Cardinality(T) : q[i] = q[j] => i = j
  BY <1>1 DEF ExistsBijection, Bijection, Injection, IsInjective
<1> DEFINE Place(a) == CHOOSE i \in 1 .. Cardinality(S) : p[i] = a
<1>4. \A a \in S : Place(a) \in 1 .. Cardinality(S) /\ p[Place(a)] = a
  BY <1>2
<1>5. \A a \in S : Place(a) \in 1 .. Cardinality(T)
  BY <1>1, <1>4
<1> HIDE DEF Place
<1>6. [a \in S |-> q[Place(a)]] \in [S -> T]
  BY <1>3, <1>5
<1>7. \A a, b \in S : a # b => q[Place(a)] # q[Place(b)]
  BY <1>3, <1>4, <1>5
<1> QED
  BY <1>6, <1>7

LoadState == {"none", "loading", "ready", "failed"}
Load == [state : LoadState, asset : Assets \cup {0}]
Cache == [models : [Assets -> LoadSlots \cup {0}], loads : [LoadSlots -> Load],
          gpu : SUBSET LoadSlots]

\* Every entry of the cache is a load of its own, a load without an entry has not ended,
\* and what has ended well is on the GPU.
Sound(c) ==
  /\ c \in Cache
  /\ \A a, b \in Assets : c.models[a] # 0 /\ c.models[a] = c.models[b] => a = b
  /\ \A a \in Assets : c.models[a] # 0 =>
       c.loads[c.models[a]].asset = a /\ c.loads[c.models[a]].state # "none"
  /\ \A s \in LoadSlots : ~Wanted(c, s) /\ c.loads[s] # NoLoad => c.loads[s].state = "loading"
  /\ \A s \in LoadSlots : c.loads[s].state = "loading" => c.loads[s].asset \in Assets
  /\ c.gpu = {c.models[a] : a \in {b \in Assets : IsReady(c, b)}}

RendererTypes ==
  /\ mRole \in {"main", "preview"} /\ mDocument \in SUBSET Assets
  /\ mCatalog \in BOOLEAN /\ mGone \in BOOLEAN /\ mPicked \in Assets \cup {0}

RendererInvariant ==
  /\ RendererTypes
  /\ IF mGone THEN mCache.gpu = {} /\ mCache \in Cache ELSE Sound(mCache)
  /\ PreviewIsPicked

\* Neither an empty slot nor no entry is a load.
LEMMA NotASlot == NoLoad \in Load /\ 0 \notin LoadSlots /\ 0 \notin Assets
BY RendererAssumption DEF NoLoad, Load, LoadState

\* disposeKutterModel frees what is no longer in the scene and nothing else.
LEMMA DroppingIsSound ==
  ASSUME NEW c, Sound(c), NEW gone \in SUBSET Assets
  PROVE  Sound(Dropped(c, gone)) /\ \A a \in gone : Dropped(c, gone).models[a] = 0
<1> DEFINE slots == {c.models[a] : a \in gone} \ {0}
           left == Dropped(c, gone)
<1>0. c \in Cache /\ slots \subseteq LoadSlots
  BY DEF Sound, Cache
<1>1. /\ left.models = [a \in Assets |-> IF a \in gone THEN 0 ELSE c.models[a]]
      /\ left.loads = [s \in LoadSlots |->
           IF s \in slots /\ c.loads[s].state # "loading" THEN NoLoad ELSE c.loads[s]]
      /\ left.gpu = c.gpu \ slots
      /\ left = [models |-> left.models, loads |-> left.loads, gpu |-> left.gpu]
  BY DEF Dropped
<1> HIDE DEF left
<1>2. left \in Cache
  <2>1. left.models \in [Assets -> LoadSlots \cup {0}]
    BY <1>0, <1>1 DEF Cache
  <2>2. left.loads \in [LoadSlots -> Load]
    BY <1>0, <1>1, NotASlot DEF Cache
  <2>3. left.gpu \in SUBSET LoadSlots
    BY <1>0, <1>1 DEF Cache
  <2> QED
    BY <1>1, <2>1, <2>2, <2>3 DEF Cache
<1>3. \A a \in Assets \ gone : left.models[a] = c.models[a] /\ left.models[a] \notin slots
  BY <1>1 DEF Sound
<1>4. \A a \in gone : left.models[a] = 0
  BY <1>1
<1>5. \A s \in LoadSlots \ slots : left.loads[s] = c.loads[s]
  BY <1>1
<1> HIDE DEF slots
<1>6. \A a \in Assets : left.models[a] # 0 =>
        left.models[a] = c.models[a] /\ left.loads[left.models[a]] = c.loads[c.models[a]]
  <2> SUFFICES ASSUME NEW a \in Assets, left.models[a] # 0
               PROVE  left.models[a] = c.models[a] /\ left.loads[left.models[a]] = c.loads[c.models[a]]
    OBVIOUS
  <2>1. a \notin gone
    BY <1>4
  <2>2. c.models[a] \in LoadSlots
    BY <1>0, <1>3, <2>1 DEF Cache
  <2> QED
    BY <1>3, <1>5, <2>1, <2>2
<1>7. \A s \in LoadSlots : ~Wanted(left, s) /\ left.loads[s] # NoLoad => left.loads[s].state = "loading"
  <2> SUFFICES ASSUME NEW s \in LoadSlots, ~Wanted(left, s), left.loads[s] # NoLoad
               PROVE  left.loads[s].state = "loading"
    OBVIOUS
  <2>1. CASE s \in slots
    BY <1>1, <2>1
  <2>2. CASE s \notin slots
    <3>1. ~Wanted(c, s)
      <4> SUFFICES ASSUME NEW a \in Assets, c.models[a] = s
                   PROVE  FALSE
        BY DEF Wanted
      <4>1. a \notin gone
        BY <2>2, NotASlot DEF slots
      <4> QED
        BY <1>3, <4>1 DEF Wanted
    <3> QED
      BY <1>5, <2>2, <3>1 DEF Sound
  <2> QED
    BY <2>1, <2>2
<1>8. left.gpu = {left.models[a] : a \in {b \in Assets : IsReady(left, b)}}
  <2>1. \A a \in Assets : IsReady(left, a) <=> IsReady(c, a) /\ a \notin gone
    BY <1>3, <1>4, <1>6 DEF IsReady
  <2>2. \A a \in gone : IsReady(c, a) => c.models[a] \in slots
    BY DEF IsReady, slots
  <2>3. c.gpu = {c.models[a] : a \in {b \in Assets : IsReady(c, b)}}
    BY DEF Sound
  <2>4. \A x \in left.gpu : x \in {left.models[a] : a \in {b \in Assets : IsReady(left, b)}}
    BY <1>1, <1>3, <2>1, <2>2, <2>3
  <2>5. \A a \in Assets : IsReady(left, a) => left.models[a] \in left.gpu
    BY <1>1, <1>3, <2>1, <2>3
  <2> QED
    BY <2>4, <2>5
<1>9. \A s \in LoadSlots : left.loads[s].state = "loading" => left.loads[s].asset \in Assets
  BY <1>1 DEF Sound, NoLoad
<1> QED
  BY <1>2, <1>4, <1>6, <1>7, <1>8, <1>9 DEF Sound, left

\* prepareKutterModels gives each new model a load of its own.
LEMMA PreparingIsSound ==
  ASSUME NEW c, Sound(c), NEW scene \in SUBSET Assets, Fits(c, scene)
  PROVE  Sound(Prepared(c, scene))
<1> DEFINE left == Dropped(c, Assets \ scene)
           new == News(left, scene)
           slots == CHOOSE f \in [new -> Unused(left)] : \A a, b \in new : a # b => f[a] # f[b]
           then == Prepared(c, scene)
<1>1. Sound(left)
  BY DroppingIsSound
<1>2. new \subseteq Assets /\ \A a \in Assets : a \in new <=> a \in scene /\ left.models[a] = 0
  BY DEF News
<1>3. slots \in [new -> Unused(left)] /\ \A a, b \in new : a # b => slots[a] # slots[b]
  <2>1. IsFiniteSet(new) /\ IsFiniteSet(Unused(left))
    BY <1>2, FS_Subset, RendererAssumption DEF Unused
  <2>2. Cardinality(new) <= Cardinality(Unused(left))
    BY DEF Fits
  <2> HIDE DEF new, left
  <2> QED
    BY <2>1, <2>2, SlotsSuffice
<1>4. /\ then.models = [a \in Assets |-> IF a \in new THEN slots[a] ELSE left.models[a]]
      /\ then.loads = [s \in LoadSlots |->
           IF \E a \in new : slots[a] = s
           THEN [state |-> "loading", asset |-> CHOOSE a \in new : slots[a] = s]
           ELSE left.loads[s]]
      /\ then.gpu = left.gpu
      /\ then = [models |-> then.models, loads |-> then.loads, gpu |-> then.gpu]
  BY DEF Prepared
<1> HIDE DEF left, new, slots, then
<1>5. \A a \in new : slots[a] \in LoadSlots /\ left.loads[slots[a]] = NoLoad
  BY <1>3 DEF Unused
<1>6. \A a \in Assets : left.models[a] # 0 =>
        left.models[a] \in LoadSlots /\ left.loads[left.models[a]] # NoLoad /\ a \notin new
  BY <1>1, <1>2 DEF Sound, Cache, NoLoad
<1>7. \A a \in new :
        /\ then.models[a] = slots[a] /\ then.loads[slots[a]] \in Load
        /\ then.loads[slots[a]].state = "loading" /\ then.loads[slots[a]].asset = a
  <2> SUFFICES ASSUME NEW a \in new
               PROVE  /\ then.models[a] = slots[a] /\ then.loads[slots[a]] \in Load
                      /\ then.loads[slots[a]].state = "loading" /\ then.loads[slots[a]].asset = a
    OBVIOUS
  <2>1. (CHOOSE b \in new : slots[b] = slots[a]) = a
    BY <1>3
  <2>2. PICK l : l = [state |-> "loading", asset |-> a]
    OBVIOUS
  <2>3. l \in Load /\ l.state = "loading" /\ l.asset = a
    BY <1>2, <2>2 DEF Load, LoadState
  <2>4. then.loads[slots[a]]
          = [state |-> "loading", asset |-> CHOOSE b \in new : slots[b] = slots[a]]
    BY <1>4, <1>5
  <2>5. then.loads[slots[a]] = l
    BY <2>1, <2>2, <2>4
  <2>6. then.models[a] = slots[a]
    BY <1>2, <1>4
  <2> QED
    BY <2>3, <2>5, <2>6
<1>8. \A a \in Assets \ new : then.models[a] = left.models[a]
  BY <1>4
<1>9. \A s \in LoadSlots : (\A a \in new : slots[a] # s) => then.loads[s] = left.loads[s]
  BY <1>4
<1>10. then \in Cache
  <2>1. then.models \in [Assets -> LoadSlots \cup {0}]
    BY <1>1, <1>4, <1>5 DEF Sound, Cache
  <2>2. \A s \in LoadSlots : then.loads[s] \in Load
    <3> SUFFICES ASSUME NEW s \in LoadSlots
                 PROVE  then.loads[s] \in Load
      OBVIOUS
    <3>1. CASE \E a \in new : slots[a] = s
      <4>1. PICK a \in new : slots[a] = s
        BY <3>1
      <4> QED
        BY <1>7, <4>1
    <3>2. CASE \A a \in new : slots[a] # s
      BY <1>1, <1>9, <3>2 DEF Sound, Cache
    <3> QED
      BY <3>1, <3>2
  <2>3. then.loads \in [LoadSlots -> Load] /\ then.gpu \in SUBSET LoadSlots
    BY <1>1, <1>4, <2>2 DEF Sound, Cache
  <2> QED
    BY <1>4, <2>1, <2>3 DEF Cache
<1>11. \A a \in Assets \ new : then.models[a] # 0 =>
         /\ then.loads[then.models[a]] = left.loads[left.models[a]]
         /\ \A b \in new : then.models[b] # then.models[a]
  <2> SUFFICES ASSUME NEW a \in Assets \ new, then.models[a] # 0
               PROVE  /\ then.loads[then.models[a]] = left.loads[left.models[a]]
                      /\ \A b \in new : then.models[b] # then.models[a]
    OBVIOUS
  <2>1. then.models[a] = left.models[a] /\ left.models[a] \in LoadSlots
        /\ left.loads[left.models[a]] # NoLoad
    BY <1>6, <1>8
  <2>2. \A b \in new : slots[b] # left.models[a]
    BY <1>5, <2>1
  <2> QED
    BY <1>7, <1>9, <2>1, <2>2
<1>12. \A a, b \in Assets : then.models[a] # 0 /\ then.models[a] = then.models[b] => a = b
  <2> SUFFICES ASSUME NEW a \in Assets, NEW b \in Assets, then.models[a] # 0,
                      then.models[a] = then.models[b]
               PROVE  a = b
    OBVIOUS
  <2>1. CASE a \in new /\ b \in new
    BY <1>3, <1>7, <2>1
  <2>2. CASE a \notin new /\ b \notin new
    BY <1>1, <1>8, <2>2 DEF Sound
  <2> QED
    BY <1>11, <2>1, <2>2
<1>13. \A a \in Assets : then.models[a] # 0 =>
         then.loads[then.models[a]].asset = a /\ then.loads[then.models[a]].state # "none"
  <2> SUFFICES ASSUME NEW a \in Assets, then.models[a] # 0
               PROVE  then.loads[then.models[a]].asset = a /\ then.loads[then.models[a]].state # "none"
    OBVIOUS
  <2>1. CASE a \in new
    BY <1>7, <2>1
  <2>2. CASE a \notin new
    <3>1. left.models[a] # 0 /\ then.loads[then.models[a]] = left.loads[left.models[a]]
      BY <1>8, <1>11, <2>2
    <3> QED
      BY <1>1, <3>1 DEF Sound
  <2> QED
    BY <2>1, <2>2
<1>14. \A s \in LoadSlots : ~Wanted(then, s) /\ then.loads[s] # NoLoad => then.loads[s].state = "loading"
  <2> SUFFICES ASSUME NEW s \in LoadSlots, ~Wanted(then, s), then.loads[s] # NoLoad
               PROVE  then.loads[s].state = "loading"
    OBVIOUS
  <2>1. \A a \in new : slots[a] # s
    BY <1>2, <1>7 DEF Wanted
  <2>2. ~Wanted(left, s)
    BY <1>6, <1>8, NotASlot DEF Wanted
  <2> QED
    BY <1>1, <1>9, <2>1, <2>2 DEF Sound
<1>15. \A s \in LoadSlots : then.loads[s].state = "loading" => then.loads[s].asset \in Assets
  <2> SUFFICES ASSUME NEW s \in LoadSlots, then.loads[s].state = "loading"
               PROVE  then.loads[s].asset \in Assets
    OBVIOUS
  <2>1. CASE \E a \in new : slots[a] = s
    <3>1. PICK a \in new : slots[a] = s
      BY <2>1
    <3> QED
      BY <1>2, <1>7, <3>1
  <2>2. CASE \A a \in new : slots[a] # s
    BY <1>1, <1>9, <2>2 DEF Sound
  <2> QED
    BY <2>1, <2>2
<1>16. then.gpu = {then.models[a] : a \in {b \in Assets : IsReady(then, b)}}
  <2>1. \A a \in Assets : IsReady(then, a) <=> IsReady(left, a)
    <3> SUFFICES ASSUME NEW a \in Assets
                 PROVE  IsReady(then, a) <=> IsReady(left, a)
      OBVIOUS
    <3>1. CASE a \in new
      BY <1>2, <1>7, <3>1 DEF IsReady
    <3>2. CASE a \notin new
      BY <1>8, <1>11, <3>2 DEF IsReady
    <3> QED
      BY <3>1, <3>2
  <2>2. \A a \in Assets : IsReady(left, a) => then.models[a] = left.models[a]
    BY <1>6, <1>8 DEF IsReady
  <2>3. left.gpu = {left.models[a] : a \in {b \in Assets : IsReady(left, b)}}
    BY <1>1 DEF Sound
  <2> QED
    BY <1>4, <2>1, <2>2, <2>3
<1> QED
  BY <1>10, <1>12, <1>13, <1>14, <1>15, <1>16 DEF Sound, then

\* What the end of a load changes is its slot.
LEMMA LoadingEnds ==
  ASSUME NEW c \in Cache, NEW s \in LoadSlots, NEW ok \in BOOLEAN
  PROVE  LET then == LoadedModel(c, s, ok)
         IN /\ then \in Cache /\ then.models = c.models
            /\ \A r \in LoadSlots : r # s => then.loads[r] = c.loads[r]
            /\ IF ok /\ Kept(c, s)
               THEN /\ then.loads[s] = [state |-> "ready", asset |-> c.loads[s].asset]
                    /\ then.gpu = c.gpu \cup {s}
               ELSE /\ then.gpu = c.gpu
                    /\ then.loads[s] = IF ~ok /\ Wanted(c, s)
                                       THEN [state |-> "failed", asset |-> c.loads[s].asset]
                                       ELSE NoLoad
<1> DEFINE then == LoadedModel(c, s, ok)
<1>1. PICK l \in Load : l = c.loads[s]
  BY DEF Cache
<1>2. PICK up : up = [state |-> "ready", asset |-> l.asset]
  OBVIOUS
<1>3. PICK down : down = [state |-> "failed", asset |-> l.asset]
  OBVIOUS
<1>7. /\ up \in Load /\ up = [l EXCEPT !.state = "ready"]
      /\ down \in Load /\ down = [l EXCEPT !.state = "failed"]
  BY <1>1, <1>2, <1>3 DEF Load, LoadState
<1>4. CASE ok /\ Kept(c, s)
  <2>1. then = [c EXCEPT !.loads = [c.loads EXCEPT ![s] = [c.loads[s] EXCEPT !.state = "ready"]],
                         !.gpu = c.gpu \cup {s}]
    BY <1>4 DEF LoadedModel
  <2>2. then = [c EXCEPT !.loads = [c.loads EXCEPT ![s] = up], !.gpu = c.gpu \cup {s}]
    BY <1>1, <1>7, <2>1
  <2> HIDE DEF then
  <2> QED
    <3>1. /\ then \in Cache /\ then.models = c.models /\ then.gpu = c.gpu \cup {s}
          /\ \A r \in LoadSlots : r # s => then.loads[r] = c.loads[r]
          /\ then.loads[s] = up
      BY <1>7, <2>2 DEF Cache
    <3>2. then.loads[s] = [state |-> "ready", asset |-> c.loads[s].asset]
      BY <1>1, <1>2, <3>1
    <3> QED
      BY <1>4, <3>1, <3>2 DEF then
<1>5. CASE ~(ok /\ Kept(c, s)) /\ ~ok /\ Wanted(c, s)
  <2>1. then = [c EXCEPT !.loads = [c.loads EXCEPT ![s] = [c.loads[s] EXCEPT !.state = "failed"]]]
    BY <1>5 DEF LoadedModel
  <2>2. then = [c EXCEPT !.loads = [c.loads EXCEPT ![s] = down]]
    BY <1>1, <1>7, <2>1
  <2> HIDE DEF then
  <2> QED
    BY <1>1, <1>3, <1>7, <1>5, <2>2 DEF Cache, then
<1>6. CASE ~(ok /\ Kept(c, s)) /\ ~(~ok /\ Wanted(c, s))
  <2>1. then = [c EXCEPT !.loads = [c.loads EXCEPT ![s] = NoLoad]]
    BY <1>6 DEF LoadedModel
  <2> HIDE DEF then
  <2>2. /\ then \in Cache /\ then.models = c.models /\ then.gpu = c.gpu
        /\ \A r \in LoadSlots : r # s => then.loads[r] = c.loads[r]
        /\ then.loads[s] = NoLoad
    BY <2>1, NotASlot DEF Cache
  <2> QED
    BY <1>6, <2>2 DEF then
<1> QED
  BY <1>4, <1>5, <1>6

\* A load that ends, well or not, while the renderer is there.
LEMMA EndingIsSound ==
  ASSUME NEW c, Sound(c), ~mGone, NEW s \in LoadSlots, NEW ok \in BOOLEAN, c.loads[s].state = "loading"
  PROVE  Sound(LoadedModel(c, s, ok))
<1> DEFINE then == LoadedModel(c, s, ok)
<1>0. c \in Cache
  BY DEF Sound
<1>1. /\ then \in Cache /\ then.models = c.models
      /\ \A r \in LoadSlots : r # s => then.loads[r] = c.loads[r]
  BY <1>0, LoadingEnds
<1>2. ok /\ Wanted(c, s) =>
        then.loads[s] = [state |-> "ready", asset |-> c.loads[s].asset] /\ then.gpu = c.gpu \cup {s}
  BY <1>0, LoadingEnds DEF Kept
<1>3. ~ok /\ Wanted(c, s) =>
        then.loads[s] = [state |-> "failed", asset |-> c.loads[s].asset] /\ then.gpu = c.gpu
  BY <1>0, LoadingEnds DEF Kept
<1>4. ~Wanted(c, s) => then.loads[s] = NoLoad /\ then.gpu = c.gpu
  BY <1>0, LoadingEnds, ZenonT(60) DEF Kept
<1> HIDE DEF then
<1>5. \A r \in LoadSlots : Wanted(then, r) <=> Wanted(c, r)
  BY <1>1 DEF Wanted
<1>6. \A a \in Assets : then.models[a] # 0 =>
        then.loads[then.models[a]].asset = a /\ then.loads[then.models[a]].state # "none"
  <2> SUFFICES ASSUME NEW a \in Assets, c.models[a] # 0
               PROVE  then.loads[c.models[a]].asset = a /\ then.loads[c.models[a]].state # "none"
    BY <1>1
  <2>1. c.models[a] \in LoadSlots /\ c.loads[c.models[a]].asset = a /\ c.loads[c.models[a]].state # "none"
    BY DEF Sound, Cache
  <2>2. CASE c.models[a] = s
    BY <1>2, <1>3, <2>1, <2>2 DEF Wanted
  <2>3. CASE c.models[a] # s
    BY <1>1, <2>1, <2>3
  <2> QED
    BY <2>2, <2>3
<1>7. \A r \in LoadSlots :
        /\ ~Wanted(then, r) /\ then.loads[r] # NoLoad => then.loads[r].state = "loading"
        /\ then.loads[r].state = "loading" => then.loads[r].asset \in Assets
  <2> SUFFICES ASSUME NEW r \in LoadSlots
               PROVE  /\ ~Wanted(then, r) /\ then.loads[r] # NoLoad => then.loads[r].state = "loading"
                      /\ then.loads[r].state = "loading" => then.loads[r].asset \in Assets
    OBVIOUS
  <2>1. CASE r = s
    BY <1>2, <1>3, <1>4, <1>5, <2>1 DEF NoLoad
  <2>2. CASE r # s
    BY <1>1, <1>5, <2>2 DEF Sound
  <2> QED
    BY <2>1, <2>2
<1>8. then.gpu = {then.models[a] : a \in {b \in Assets : IsReady(then, b)}}
  <2>1. \A a \in Assets : c.models[a] # 0 => c.models[a] \in LoadSlots
    BY <1>0 DEF Cache
  <2>2. \A a \in Assets : IsReady(then, a) <=> IsReady(c, a) \/ (c.models[a] = s /\ ok)
    <3> SUFFICES ASSUME NEW a \in Assets
                 PROVE  IsReady(then, a) <=> IsReady(c, a) \/ (c.models[a] = s /\ ok)
      OBVIOUS
    <3>1. CASE c.models[a] = s
      BY <1>1, <1>2, <1>3, <3>1, NotASlot DEF IsReady, Wanted
    <3>2. CASE c.models[a] # s
      BY <1>1, <2>1, <3>2 DEF IsReady
    <3> QED
      BY <3>1, <3>2
  <2>3. c.gpu = {c.models[a] : a \in {b \in Assets : IsReady(c, b)}}
    BY DEF Sound
  <2>4. then.gpu = c.gpu \cup {r \in {s} : ok /\ Wanted(c, s)}
    BY <1>2, <1>3, <1>4
  <2>5. \A x \in then.gpu : \E a \in Assets : IsReady(then, a) /\ x = then.models[a]
    BY <1>1, <2>2, <2>3, <2>4 DEF Wanted
  <2>6. \A a \in Assets : IsReady(then, a) => then.models[a] \in then.gpu
    BY <1>1, <2>2, <2>3, <2>4 DEF Wanted
  <2> QED
    BY <2>5, <2>6
<1>9. \A a, b \in Assets : then.models[a] # 0 /\ then.models[a] = then.models[b] => a = b
  BY <1>1 DEF Sound
<1> QED
  BY <1>1, <1>6, <1>7, <1>8, <1>9 DEF Sound, then

\* Every step of the page and of its loads keeps the invariant.
LEMMA RendererStep == RendererInvariant /\ [RendererNext]_mVars => RendererInvariant'
<1> SUFFICES ASSUME RendererInvariant, [RendererNext]_mVars
             PROVE  RendererInvariant'
  OBVIOUS
<1> USE DEF RendererInvariant
<1>1. CASE UNCHANGED mVars
  <2>1. mCache' = mCache /\ (Sound(mCache) => Sound(mCache'))
    BY <1>1 DEF mVars
  <2>2. PreviewIsPicked'
    BY <1>1 DEF mVars, PreviewIsPicked
  <2> QED
    BY <1>1, <2>1, <2>2 DEF mVars, RendererTypes
<1>2. CASE CatalogLoads
  BY <1>2 DEF CatalogLoads, RendererTypes, PreviewIsPicked
<1>3. CASE DocumentShown
  BY <1>3 DEF DocumentShown, RendererTypes, PreviewIsPicked
<1>4. CASE MainFrame
  <2> DEFINE scene == IF mCatalog THEN mDocument ELSE {}
  <2>1. /\ mRole = "main" /\ ~mGone /\ Fits(mCache, scene) /\ mCache' = Prepared(mCache, scene)
        /\ UNCHANGED <<mRole, mCatalog, mDocument, mPicked, mShown, mGone>>
    BY <1>4 DEF MainFrame
  <2>2. scene \in SUBSET Assets
    BY DEF RendererTypes
  <2>3. Sound(mCache')
    BY <2>1, <2>2, PreparingIsSound
  <2> QED
    BY <2>1, <2>3 DEF RendererTypes, PreviewIsPicked
<1>5. CASE RenderAssetCatalog
  <2>1. PICK a \in Assets \cup {0} : RenderAssetPreview(a)
    BY <1>5 DEF RenderAssetCatalog
  <2>2. mRole = "preview" /\ ~mGone /\ UNCHANGED <<mRole, mCatalog, mDocument, mGone>>
    BY <1>5 DEF RenderAssetCatalog
  <2>3. mPicked' = a
    BY <2>1 DEF RenderAssetPreview
  <2>4. CASE a = mPicked
    <3>1. UNCHANGED <<mCache, mShown, mPicked>>
      BY <2>1, <2>4 DEF RenderAssetPreview
    <3> QED
      BY <2>2, <3>1 DEF RendererTypes, PreviewIsPicked
  <2>5. CASE a # mPicked
    <3>1. /\ Fits(mCache, {a} \ {0}) /\ mCache' = Prepared(mCache, {a} \ {0})
          /\ mShown' = IF a = 0 THEN NoPicture ELSE Picture(mCache', a)
      BY <2>1, <2>5 DEF RenderAssetPreview
    <3>2. Sound(mCache')
      BY <2>2, <3>1, PreparingIsSound
    <3> QED
      BY <2>2, <2>3, <3>1, <3>2 DEF RendererTypes, PreviewIsPicked
  <2> QED
    BY <2>4, <2>5
<1>6. CASE PageHides
  <2>1. /\ ~mGone /\ mGone' = TRUE /\ mCache' = [mCache EXCEPT !.gpu = @ \ {mCache.models[a] : a \in Assets}]
        /\ UNCHANGED <<mRole, mCatalog, mDocument, mPicked, mShown>>
    BY <1>6 DEF PageHides
  <2>2. mCache \in Cache /\ mCache.gpu \subseteq {mCache.models[a] : a \in Assets}
    BY <2>1 DEF Sound
  <2>3. mCache' \in Cache /\ mCache'.gpu = {}
    BY <2>1, <2>2 DEF Cache
  <2> QED
    BY <2>1, <2>3 DEF RendererTypes, PreviewIsPicked
<1>7. ASSUME NEW s \in LoadSlots, NEW ok \in BOOLEAN, LoadEnds(s, ok)
      PROVE  RendererInvariant'
  <2> DEFINE a == mCache.loads[s].asset
             ended == LoadedModel(mCache, s, ok)
             draws == mRole = "preview" /\ ~mGone /\ StillPicked(a)
  <2>1. /\ mCache.loads[s].state = "loading" /\ (draws => Fits(ended, {a}))
        /\ mCache' = IF draws THEN Prepared(ended, {a}) ELSE ended
        /\ mShown' = IF draws THEN Picture(mCache', a) ELSE mShown
        /\ UNCHANGED <<mRole, mCatalog, mDocument, mPicked, mGone>>
    BY <1>7 DEF LoadEnds
  <2>2. mCache \in Cache
    BY DEF Sound
  <2>3. RendererTypes'
    BY <2>1 DEF RendererTypes
  <2>4. CASE mGone
    <3>1. mCache' = ended /\ mGone' = TRUE
      BY <2>1, <2>4
    <3>2. ended \in Cache /\ ended.gpu = mCache.gpu
      BY <2>2, <2>4, LoadingEnds DEF Kept
    <3> QED
      BY <2>3, <2>4, <3>1, <3>2 DEF PreviewIsPicked
  <2>5. CASE ~mGone /\ draws
    <3>1. Sound(ended)
      BY <2>1, <2>5, EndingIsSound
    <3>2. a = mPicked /\ a \in Assets
      BY <2>1, <2>5 DEF StillPicked, Sound
    <3>3. Sound(mCache') /\ mShown' = Picture(mCache', a)
      <4> HIDE DEF ended, a, draws
      <4> QED
        BY <2>1, <2>5, <3>1, <3>2, PreparingIsSound
    <3> QED
      BY <2>1, <2>3, <2>5, <3>2, <3>3, NotASlot DEF PreviewIsPicked
  <2>6. CASE ~mGone /\ ~draws
    <3>1. Sound(ended)
      BY <2>1, <2>6, EndingIsSound
    <3>2. mCache' = ended /\ UNCHANGED mShown
      BY <2>1, <2>6
    <3>3. ASSUME mRole = "preview", mPicked # 0
          PROVE  IsReady(mCache, mPicked) <=> IsReady(ended, mPicked)
      <4>1. mPicked \in Assets /\ mPicked # a
        BY <2>6, <3>3 DEF RendererTypes, StillPicked
      <4>2. ended.models = mCache.models
            /\ \A r \in LoadSlots : r # s => ended.loads[r] = mCache.loads[r]
        BY <2>2, LoadingEnds
      <4>3. mCache.models[mPicked] # 0 =>
              mCache.models[mPicked] \in LoadSlots /\ mCache.models[mPicked] # s
        BY <2>2, <2>6, <4>1 DEF Sound, Cache
      <4> HIDE DEF ended
      <4> QED
        BY <4>2, <4>3 DEF IsReady
    <3>4. mRole = "preview" /\ mPicked # 0 => Picture(ended, mPicked) = Picture(mCache, mPicked)
      <4>1. IsReady(mCache, mPicked) \in BOOLEAN /\ IsReady(ended, mPicked) \in BOOLEAN
        BY DEF IsReady
      <4> HIDE DEF ended
      <4>2. mRole = "preview" /\ mPicked # 0 => IsReady(ended, mPicked) = IsReady(mCache, mPicked)
        BY <3>3, <4>1
      <4> QED
        BY <4>2, Zenon DEF Picture
    <3> HIDE DEF ended, a, draws
    <3> QED
      BY <2>1, <2>3, <2>6, <3>1, <3>2, <3>4 DEF PreviewIsPicked
  <2> QED
    BY <2>4, <2>5, <2>6
<1> QED
  BY <1>1, <1>2, <1>3, <1>4, <1>5, <1>6, <1>7 DEF RendererNext

\* A renderer that has just been made holds nothing.
LEMMA RendererStart == RendererInit => RendererInvariant
<1> SUFFICES ASSUME RendererInit
             PROVE  RendererInvariant
  OBVIOUS
<1>1. /\ mCache.models = [a \in Assets |-> 0] /\ mCache.loads = [s \in LoadSlots |-> NoLoad]
      /\ mCache.gpu = {} /\ mCache = [models |-> mCache.models, loads |-> mCache.loads, gpu |-> mCache.gpu]
  BY DEF RendererInit, NoModels
<1>2. mCache \in Cache
  BY <1>1, NotASlot DEF Cache
<1>3. \A a \in Assets : ~IsReady(mCache, a)
  BY <1>1 DEF IsReady
<1>4. Sound(mCache)
  BY <1>1, <1>2, <1>3 DEF Sound, NoLoad
<1> QED
  BY <1>4 DEF RendererInit, RendererInvariant, RendererTypes, PreviewIsPicked

\* What the renderer holds on the GPU is what the cache of the scene's models names, a
\* renderer that was destroyed holds nothing, and the preview is of the picked asset:
\* prepareKutterModels, disposeKutterModel and the loads' continuations, in any order.
THEOREM ModelsStayHeld == RendererSpec => []ModelsInv
<1>1. RendererInvariant => ModelsInv
  BY DEF RendererInvariant, Sound, ModelsInv, ModelsAreHeld
<1> QED
  BY <1>1, RendererStart, RendererStep, PTL DEF RendererSpec

-----------------------------------------------------------------------------
(* The layout of the touch controls.                                         *)

Layouts == [Controls -> Nat] \cup {NoLayout}

\* The page's state; what is stored has the chosen name and the presets of the page.
TouchTypes ==
  /\ yWindow \in {WideMargin, NarrowMargin}
  /\ yLayout \in Layouts /\ yName \in LayoutNames \cup {""} /\ yPresets \in [LayoutNames -> Layouts]
  /\ yStored.name = yName /\ yStored.presets = yPresets
  /\ yStored.layout \in Layouts
  /\ yMode \in {"locked", "free", "editor"} /\ yDrag \in SUBSET Controls

\* The layout comes from the preset that is chosen, perhaps by way of a small window, or
\* from what is stored without one, or an edit has begun without anything stored.
Origin ==
  \/ /\ yName # "" /\ yPresets[yName] # NoLayout
     /\ yLayout \in {Confined(yPresets[yName], yWindow), Confined(yPresets[yName], NarrowMargin)}
  \/ yName = "" /\ yLayout = Confined(yStored.layout, yWindow)
  \/ /\ yName = "" /\ yMode # "locked" /\ yStored.layout = NoLayout
     /\ yLayout = Confined(Default, yWindow)

TouchInvariant == TouchTypes /\ Origin

\* The two margins a window may have.
Margins == {WideMargin, NarrowMargin}

\* What confining does to a layout, again, and to none.
LEMMA Confining ==
  ASSUME NEW layout \in Layouts, NEW m \in Margins
  PROVE  /\ Confined(layout, m) \in Layouts
         /\ \A c \in DOMAIN Confined(layout, m) : Confined(layout, m)[c] >= m
         /\ layout = NoLayout => Confined(layout, m) = NoLayout
         /\ Confined(layout, m) = NoLayout => layout = NoLayout
<1>1. m \in Nat
  BY TouchAssumption DEF Margins
<1>2. CASE layout = NoLayout
  <2>1. DOMAIN layout = {}
    BY <1>2 DEF NoLayout
  <2>2. Confined(layout, m) = NoLayout
    BY <2>1 DEF Confined, NoLayout
  <2> QED
    BY <1>2, <2>1, <2>2 DEF Layouts, NoLayout
<1>3. CASE layout \in [Controls -> Nat]
  <2>1. /\ DOMAIN Confined(layout, m) = Controls /\ DOMAIN layout = Controls
        /\ Confined(layout, m) \in [Controls -> Nat]
        /\ \A c \in Controls : Confined(layout, m)[c] >= m
    BY <1>1, <1>3 DEF Confined
  <2>2. Confined(layout, m) = NoLayout => layout = NoLayout
    <3> SUFFICES ASSUME Confined(layout, m) = NoLayout
                 PROVE  layout = NoLayout
      OBVIOUS
    <3>1. Controls = {}
      BY <2>1 DEF NoLayout
    <3> QED
      BY <1>3, <3>1 DEF NoLayout
  <2>3. layout = NoLayout => Confined(layout, m) = NoLayout
    <3> SUFFICES ASSUME layout = NoLayout
                 PROVE  Confined(layout, m) = NoLayout
      OBVIOUS
    <3>1. Controls = {}
      BY <2>1 DEF NoLayout
    <3> QED
      BY <2>1, <3>1 DEF NoLayout
  <2> QED
    BY <2>1, <2>2, <2>3 DEF Layouts
<1> QED
  BY <1>2, <1>3 DEF Layouts

\* The larger margin decides.
LEMMA ConfinedTwice ==
  ASSUME NEW layout \in Layouts, NEW m \in Margins, NEW n \in Margins
  PROVE  /\ m <= n => Confined(Confined(layout, m), n) = Confined(layout, n)
         /\ n <= m => Confined(Confined(layout, m), n) = Confined(layout, m)
<1>1. m \in Nat /\ n \in Nat
  BY TouchAssumption DEF Margins
<1>2. \A c \in DOMAIN layout : layout[c] \in Nat
  BY DEF Layouts, NoLayout
<1>3. /\ Confined(layout, m) = [c \in DOMAIN layout |-> IF layout[c] < m THEN m ELSE layout[c]]
      /\ Confined(layout, n) = [c \in DOMAIN layout |-> IF layout[c] < n THEN n ELSE layout[c]]
  BY DEF Confined
<1>4. Confined(Confined(layout, m), n) =
        [c \in DOMAIN layout |-> IF Confined(layout, m)[c] < n THEN n ELSE Confined(layout, m)[c]]
  BY <1>3 DEF Confined
<1>5. \A c \in DOMAIN layout :
        /\ m <= n => Confined(Confined(layout, m), n)[c] = Confined(layout, n)[c]
        /\ n <= m => Confined(Confined(layout, m), n)[c] = Confined(layout, m)[c]
  BY <1>1, <1>2, <1>3, <1>4
<1> QED
  BY <1>3, <1>4, <1>5

\* A narrow window's margin is the larger one, and the layout the page starts an edit from is
\* a layout.
LEMMA MarginsAre ==
  /\ {WideMargin, NarrowMargin} = Margins /\ NarrowMargin \in Margins /\ WideMargin <= NarrowMargin
  /\ \A m \in Margins : m <= m /\ m <= NarrowMargin /\ WideMargin <= m
  /\ Default \in Layouts
<1>1. WideMargin \in Nat /\ NarrowMargin \in Nat /\ WideMargin <= NarrowMargin
  BY TouchAssumption
<1>2. Default \in Layouts
  BY <1>1 DEF Default, Layouts
<1> QED
  BY <1>1, <1>2 DEF Margins

\* A layout of its own that is stored as it is.
LEMMA OwnLayout ==
  ASSUME TouchTypes, yWindow' \in Margins, yName' = "", yPresets' = yPresets,
         yMode' \in {"locked", "free", "editor"}, yDrag' \in SUBSET Controls, Persisted,
         NEW l \in Layouts, yLayout' = Confined(l, yWindow')
  PROVE  TouchInvariant'
<1>1. yLayout' \in Layouts /\ yLayout' = Confined(yLayout', yWindow')
  BY MarginsAre, Confining, ConfinedTwice, ZenonT(60)
<1>2. yStored' = [name |-> yName', layout |-> yLayout', presets |-> yPresets']
  BY DEF Persisted
<1> QED
  BY <1>1, <1>2, MarginsAre DEF TouchInvariant, TouchTypes, Origin

\* The layout of a preset.
LEMMA OfPreset ==
  ASSUME TouchTypes, yWindow' \in Margins, yName' \in LayoutNames,
         yPresets' \in [LayoutNames -> Layouts], yPresets'[yName'] # NoLayout,
         yMode' \in {"locked", "free", "editor"}, yDrag' \in SUBSET Controls,
         yStored'.name = yName', yStored'.presets = yPresets',
         yStored'.layout \in Layouts,
         yLayout' \in {Confined(yPresets'[yName'], yWindow'), Confined(yPresets'[yName'], NarrowMargin)}
  PROVE  TouchInvariant'
<1>1. yLayout' \in Layouts
  BY MarginsAre, Confining
<1>2. yName' # ""
  BY TouchAssumption
<1> QED
  BY <1>1, <1>2, MarginsAre DEF TouchInvariant, TouchTypes, Origin

\* A page opens with the layout it stored, confined to its window.
LEMMA TouchStart == TouchInit => TouchInvariant
<1> SUFFICES ASSUME TouchInit
             PROVE  TouchInvariant
  OBVIOUS
<1>1. NoLayout \in Layouts /\ NoPresets \in [LayoutNames -> Layouts]
  BY DEF Layouts, NoPresets
<1>2. yLayout = Confined(yStored.layout, yWindow)
  BY <1>1, MarginsAre, Confining DEF TouchInit
<1> QED
  BY <1>1, <1>2 DEF TouchInit, TouchInvariant, TouchTypes, Origin

\* No operation on the layout loses where it comes from.
LEMMA TouchStep == TouchInvariant /\ [TouchNext]_yVars => TouchInvariant'
<1> SUFFICES ASSUME TouchInvariant, [TouchNext]_yVars
             PROVE  TouchInvariant'
  OBVIOUS
<1> USE DEF TouchInvariant
<1>0. /\ yWindow \in Margins /\ yLayout \in Layouts /\ Confined(yLayout, yWindow) = yLayout
      /\ yName # "" => yName \in LayoutNames /\ yPresets[yName] \in Layouts
  <2>1. yWindow \in Margins /\ yLayout \in Layouts /\ yStored.layout \in Layouts
    BY DEF TouchTypes, Margins
  <2>2. yName # "" => yName \in LayoutNames /\ yPresets[yName] \in Layouts
    BY DEF TouchTypes
  <2>3. PICK l \in Layouts, m \in Margins : yWindow <= m /\ yLayout = Confined(l, m)
    BY <2>1, <2>2, MarginsAre DEF Origin
  <2>4. Confined(yLayout, yWindow) = yLayout
    BY <2>1, <2>3, ConfinedTwice
  <2> QED
    BY <2>1, <2>2, <2>4
<1>1. CASE UNCHANGED yVars
  BY <1>1 DEF yVars, TouchTypes, Origin
<1>2. CASE Reload
  <2>1. /\ yWindow' \in Margins /\ yName' = yName /\ yPresets' = yPresets /\ yMode' = "locked"
        /\ yDrag' = {} /\ yStored' = yStored /\ yLayout' = Restored(yWindow')
    BY <1>2 DEF Reload, TouchTypes, Margins
  <2>2. CASE yName # ""
    <3>1. yPresets[yName] # NoLayout /\ yLayout' = Confined(yPresets[yName], yWindow')
      BY <2>1, <2>2 DEF Restored, Origin, TouchTypes
    <3> QED
      BY <1>0, <2>1, <2>2, <3>1, OfPreset DEF TouchTypes
  <2>3. CASE yName = ""
    <3>1. yLayout' = Confined(yStored.layout, yWindow')
      BY <2>1, <2>3 DEF Restored, TouchTypes
    <3>2. yLayout' \in Layouts
      BY <2>1, <3>1, Confining DEF TouchTypes
    <3> QED
      BY <2>1, <2>3, <3>1, <3>2 DEF TouchTypes, Origin, Margins
  <2> QED
    BY <2>2, <2>3
<1>3. CASE WindowResized
  <2>1. /\ yWindow' \in Margins /\ yName' = yName /\ yPresets' = yPresets /\ yMode' = yMode
        /\ yDrag' = yDrag /\ yLayout' = Confined(yLayout, yWindow')
        /\ IF yLayout = NoLayout THEN UNCHANGED yStored ELSE Persisted
    BY <1>3 DEF WindowResized, ClampedAt, Margins
  <2>2. yLayout' \in Layouts
    BY <1>0, <2>1, Confining
  <2>3. CASE yName # ""
    <3> DEFINE p == yPresets[yName]
    <3>1. p \in Layouts /\ p # NoLayout /\ yLayout \in {Confined(p, yWindow), Confined(p, NarrowMargin)}
      BY <1>0, <2>3 DEF Origin
    <3>2. yLayout # NoLayout
      BY <1>0, <3>1, Confining, MarginsAre
    <3>3. yLayout' \in {Confined(p, yWindow'), Confined(p, NarrowMargin)}
      <4> HIDE DEF p
      <4>1. CASE yLayout = Confined(p, NarrowMargin)
        BY <2>1, <3>1, <4>1, ConfinedTwice, MarginsAre
      <4>2. CASE yLayout = Confined(p, yWindow) /\ yWindow = WideMargin
        BY <1>0, <2>1, <3>1, <4>2, ConfinedTwice, MarginsAre
      <4> QED
        BY <1>0, <3>1, <4>1, <4>2 DEF Margins
    <3>4. yStored' = [name |-> yName', layout |-> yLayout', presets |-> yPresets']
      BY <2>1, <3>2 DEF Persisted
    <3> QED
      BY <1>0, <2>1, <2>2, <2>3, <3>1, <3>3, <3>4, OfPreset DEF TouchTypes
  <2>4. CASE yName = "" /\ yLayout # NoLayout
    BY <1>0, <2>1, <2>4, OwnLayout DEF TouchTypes
  <2>5. CASE yName = "" /\ yLayout = NoLayout
    <3>1. yLayout' = NoLayout /\ yStored' = yStored
      BY <1>0, <2>1, <2>5, Confining
    <3>2. yStored.layout \in Layouts /\ (yStored.layout = NoLayout \/ yLayout = Confined(yStored.layout, yWindow))
      BY <2>5 DEF Origin, TouchTypes
    <3>3. yStored.layout = NoLayout
      BY <1>0, <2>5, <3>2, Confining
    <3>4. yLayout' = Confined(yStored'.layout, yWindow')
      BY <2>1, <3>1, <3>2, <3>3, Confining
    <3> QED
      BY <2>1, <2>2, <2>5, <3>1, <3>4 DEF TouchTypes, Origin, Margins
  <2> QED
    BY <2>3, <2>4, <2>5
<1>4. ASSUME NEW c \in Controls, NEW place \in Spots, Moved(c, place), UNCHANGED <<yWindow, yMode, yDrag>>
      PROVE  TouchInvariant'
  <2> DEFINE layout == IF yLayout = NoLayout THEN Confined(Default, yWindow) ELSE yLayout
  <2>1. yLayout' = Confined([layout EXCEPT ![c] = place], yWindow)
    BY <1>4 DEF Moved
  <2>2. layout \in Layouts
    BY <1>0, Confining, MarginsAre
  <2>3. [layout EXCEPT ![c] = place] \in Layouts
    <3> HIDE DEF layout
    <3>1. place \in Nat
      BY TouchAssumption
    <3>2. CASE layout \in [Controls -> Nat]
      BY <3>1, <3>2 DEF Layouts
    <3>3. CASE layout = NoLayout
      <4>1. [layout EXCEPT ![c] = place] = NoLayout
        BY <3>3 DEF NoLayout
      <4> QED
        BY <4>1 DEF Layouts
    <3> QED
      BY <2>2, <3>2, <3>3 DEF Layouts
  <2> HIDE DEF layout
  <2> QED
    BY <1>0, <1>4, <2>1, <2>3, OwnLayout DEF Moved, NameDropped, TouchTypes
<1>5. CASE SliderMoves
  BY <1>4, <1>5 DEF SliderMoves
<1>6. CASE DragMoves
  BY <1>4, <1>6 DEF DragMoves, TouchTypes
<1>7. CASE DragStarts \/ DragEnds
  <2>1. yDrag' \in SUBSET Controls /\ UNCHANGED <<yWindow, yLayout, yName, yPresets, yStored, yMode>>
    BY <1>7 DEF DragStarts, DragEnds, TouchTypes
  <2> QED
    BY <2>1 DEF TouchTypes, Origin
<1>8. CASE SavePreset
  <2>1. PICK n \in LayoutNames :
          yPresets' = [yPresets EXCEPT ![n] = Confined(yLayout, yWindow)] /\ yName' = n
    BY <1>8 DEF SavePreset
  <2>2. /\ yLayout # NoLayout /\ UNCHANGED <<yWindow, yMode, yDrag>> /\ Persisted
        /\ yLayout' = Confined(yLayout, yWindow)
    BY <1>8 DEF SavePreset
  <2>3. /\ yPresets' \in [LayoutNames -> Layouts] /\ yPresets'[n] = yLayout /\ yLayout' = yLayout
        /\ yLayout' = Confined(yPresets'[n], yWindow')
    BY <1>0, <2>1, <2>2 DEF TouchTypes
  <2> QED
    BY <1>0, <2>1, <2>2, <2>3, OfPreset DEF Persisted, TouchTypes
<1>9. CASE LoadPreset
  <2>1. PICK n \in LayoutNames :
          yPresets[n] # NoLayout /\ yName' = n /\ yLayout' = Confined(yPresets[n], yWindow)
    BY <1>9 DEF LoadPreset
  <2>2. UNCHANGED <<yWindow, yPresets, yMode, yDrag>> /\ Persisted
    BY <1>9 DEF LoadPreset
  <2>3. yLayout' \in Layouts
    BY <1>0, <2>1, Confining DEF TouchTypes
  <2> QED
    BY <1>0, <2>1, <2>2, <2>3, OfPreset DEF Persisted, TouchTypes
<1>10. CASE ResetLayout
  <2>1. NoLayout \in Layouts /\ NoLayout = Confined(NoLayout, yWindow)
    BY <1>0, Confining DEF Layouts
  <2> QED
    BY <1>0, <1>10, <2>1, OwnLayout DEF ResetLayout, TouchTypes
<1>11. CASE SetTouchLayoutEditing
  <2>1. yMode' \in {"locked", "free", "editor"} /\ UNCHANGED <<yWindow, yDrag, yName, yPresets>>
    BY <1>11 DEF SetTouchLayoutEditing
  <2>2. CASE yMode' = "locked"
    <3>1. yLayout' = yLayout /\ Persisted
      BY <1>11, <2>2 DEF SetTouchLayoutEditing
    <3>2. CASE yName = ""
      BY <1>0, <2>1, <3>1, <3>2, OwnLayout DEF TouchTypes
    <3>3. CASE yName # ""
      BY <1>0, <2>1, <3>1, <3>3, OfPreset DEF TouchTypes, Origin, Persisted
    <3> QED
      BY <3>2, <3>3
  <2>3. CASE yMode' # "locked"
    <3>1. yStored' = yStored
          /\ yLayout' = Confined(IF yLayout = NoLayout THEN Default ELSE yLayout, yWindow)
      BY <1>11, <2>3 DEF SetTouchLayoutEditing
    <3>2. CASE yLayout # NoLayout
      <4>1. yLayout' = yLayout
        BY <1>0, <3>1, <3>2
      <4> QED
        BY <2>1, <2>3, <3>1, <4>1 DEF TouchTypes, Origin
    <3>3. CASE yLayout = NoLayout
      <4>1. yName = ""
        <5> SUFFICES ASSUME yName # ""
                     PROVE  FALSE
          OBVIOUS
        <5> QED
          BY <1>0, <3>3, Confining, MarginsAre DEF Origin
      <4>2. yStored.layout = NoLayout
        BY <1>0, <3>3, <4>1, Confining DEF Origin, TouchTypes
      <4>3. yLayout' = Confined(Default, yWindow) /\ yLayout' \in Layouts
        BY <1>0, <3>1, <3>3, Confining, MarginsAre
      <4> QED
        BY <2>1, <2>3, <3>1, <4>1, <4>2, <4>3 DEF TouchTypes, Origin
    <3> QED
      BY <3>2, <3>3
  <2> QED
    BY <2>2, <2>3
<1> QED
  BY <1>1, <1>2, <1>3, <1>5, <1>6, <1>7, <1>8, <1>9, <1>10, <1>11 DEF TouchNext

\* A layout that comes from its preset, or from what is stored, is the one a reload restores.
LEMMA TouchMeans == TouchInvariant => TouchInv
<1> SUFFICES ASSUME TouchInvariant
             PROVE  TouchInv
  OBVIOUS
<1> USE DEF TouchInvariant
<1>0. yWindow \in Margins /\ yStored.layout \in Layouts
  BY DEF TouchTypes, Margins
<1>1. CASE yName # ""
  <2> DEFINE p == yPresets[yName]
  <2>1. p \in Layouts /\ p # NoLayout /\ yLayout \in {Confined(p, yWindow), Confined(p, NarrowMargin)}
    BY <1>1 DEF TouchTypes, Origin
  <2>2. Restored(yWindow) = Confined(p, yWindow)
    BY <1>1, <2>1 DEF Restored, TouchTypes
  <2> HIDE DEF p
  <2>3. Confined(Confined(p, yWindow), NarrowMargin) = Confined(p, NarrowMargin)
    BY <1>0, <2>1, ConfinedTwice, MarginsAre
  <2>4. ReloadKeepsLayout
    BY <1>1, <2>1, <2>2, <2>3 DEF ReloadKeepsLayout, p
  <2>5. ControlsOnScreen
    <3>1. \A c \in DOMAIN Confined(p, yWindow) : Confined(p, yWindow)[c] >= yWindow
      BY <1>0, <2>1, Confining
    <3>2. /\ Confined(p, yWindow) \in Layouts
          /\ Confined(p, NarrowMargin) \in Layouts
          /\ \A c \in DOMAIN Confined(p, NarrowMargin) : Confined(p, NarrowMargin)[c] >= NarrowMargin
      BY <1>0, <2>1, Confining, MarginsAre
    <3>3. \A l \in Layouts : \A c \in DOMAIN l : l[c] \in Nat
      BY DEF Layouts, NoLayout
    <3>4. yWindow \in Nat /\ NarrowMargin \in Nat /\ yWindow <= NarrowMargin
      BY <1>0, MarginsAre, TouchAssumption DEF Margins
    <3> QED
      BY <2>1, <3>1, <3>2, <3>3, <3>4 DEF ControlsOnScreen
  <2> QED
    BY <2>4, <2>5 DEF TouchInv
<1>2. CASE yName = ""
  <2>1. Restored(yWindow) = Confined(yStored.layout, yWindow)
    BY <1>2 DEF Restored, TouchTypes
  <2>2. ReloadKeepsLayout
    BY <1>0, <1>2, <2>1, Confining DEF ReloadKeepsLayout, Origin
  <2>3. ControlsOnScreen
    BY <1>0, <1>2, Confining, MarginsAre DEF ControlsOnScreen, Origin
  <2> QED
    BY <2>2, <2>3 DEF TouchInv
<1> QED
  BY <1>1, <1>2

\* A reload restores the layout the page shows, up to the confinement to a smaller window it
\* went through, and every control is on the screen: loading, saving and resetting presets,
\* moving controls, resizing and reloading, in any order and for any controls and margins.
THEOREM ControlsStayWhereTheyWere == TouchSpec => []TouchInv
BY TouchStart, TouchStep, TouchMeans, PTL DEF TouchSpec

-----------------------------------------------------------------------------
(* The controls of the page.                                                 *)

\* What the server holds of the player's input.
Server == [held : BOOLEAN, move : BOOLEAN, alive : BOOLEAN]

\* The state of the devices, of the page and of the server.
InputTypes ==
  /\ iKeys \in SUBSET {"b", "w"}
  /\ iFocus \in BOOLEAN /\ iButton \in BOOLEAN /\ iClick \in BOOLEAN /\ iStick \in BOOLEAN
  /\ iPush \in BOOLEAN /\ iReady \in BOOLEAN /\ iMoving \in BOOLEAN /\ iHeld \in BOOLEAN
  /\ iMove \in BOOLEAN /\ iTraining \in BOOLEAN /\ iDropped \in BOOLEAN
  /\ iShown \in {"alive", "fallen"}
  /\ iServer \in Server

\* Nothing is held for a player that lies or is shown to lie, or on no connection; what the
\* server holds is what the page holds; and every hold has somebody who holds it.
InputInvariant ==
  /\ InputTypes
  /\ ~iServer.alive \/ iShown = "fallen" \/ ~iReady => ~iServer.held /\ ~iServer.move
  /\ ~iReady => iServer.alive /\ iShown = "alive"
  /\ iServer.held => iHeld
  /\ iServer.move => iMove
  /\ iHeld => iButton \/ iClick \/ (iFocus /\ "b" \in iKeys)
  /\ iMove => iMoving \/ iStick \/ iDropped
  /\ iMoving => iFocus /\ "w" \in iKeys

\* A server that was told nothing holds nothing.
LEMMA IdleIs ==
  /\ Idle \in Server /\ Idle.held = FALSE /\ Idle.move = FALSE /\ Idle.alive = TRUE
BY DEF Idle, Server

\* A page starts with nothing pressed.
LEMMA InputStart == InputInit => InputInvariant
BY IdleIs, Zenon DEF InputInit, InputInvariant, InputTypes, Server

\* A hold with somebody who holds it is not stuck.
LEMMA InputMeans == InputInvariant => NothingStuck
BY Zenon DEF InputInvariant, NothingStuck

\* What a frame changes at the server.
LEMMA Setting ==
  ASSUME NEW server \in Server, NEW held \in BOOLEAN, NEW move \in BOOLEAN,
         NEW then, then = [server EXCEPT !.held = held, !.move = move]
  PROVE  then \in Server /\ then.held = held /\ then.move = move /\ then.alive = server.alive
BY DEF Server

\* What sending a change of the held button does.
LEMMA SendHeldIs ==
  ASSUME InputTypes, NEW held \in BOOLEAN, SendHeld(held)
  PROVE  /\ iHeld' = held /\ iMove' = iMove /\ iDropped' = iDropped
         /\ iServer' \in Server /\ iServer'.alive = iServer.alive
         /\ IF CanSend /\ iServer.alive THEN iServer'.held = held /\ iServer'.move = iMove
            ELSE iServer' = iServer
<1>1. iServer \in Server /\ iMove \in BOOLEAN
  BY DEF InputTypes, Server
<1>2. iHeld' = held /\ iMove' = iMove /\ iDropped' = iDropped
  BY Zenon DEF SendHeld
<1>3. CASE CanSend /\ iServer.alive
  <2>1. iServer' = [iServer EXCEPT !.held = held, !.move = iMove]
    BY <1>3, Zenon DEF SendHeld
  <2>2. iServer' \in Server /\ iServer'.held = held /\ iServer'.move = iMove /\ iServer'.alive = iServer.alive
    BY <1>1, <2>1 DEF Server
  <2> QED
    BY <1>1, <1>2, <1>3, <2>2, Zenon
<1>4. CASE ~(CanSend /\ iServer.alive)
  BY <1>1, <1>2, <1>4, Zenon DEF SendHeld
<1> QED
  BY <1>3, <1>4

\* What sending a change of the movement does.
LEMMA SendMoveIs ==
  ASSUME InputTypes, NEW move \in BOOLEAN, SendMove(move)
  PROVE  /\ iHeld' = iHeld /\ iMove' = (IF CanSend THEN move ELSE iMove)
         /\ iDropped' = (iDropped \/ (~CanSend /\ iMove /\ ~move))
         /\ iServer' \in Server /\ iServer'.alive = iServer.alive
         /\ IF CanSend /\ iServer.alive THEN iServer'.held = iHeld /\ iServer'.move = move
            ELSE iServer' = iServer
<1>1. iServer \in Server /\ iHeld \in BOOLEAN
  BY DEF InputTypes, Server
<1>2. /\ iHeld' = iHeld /\ iMove' = (IF CanSend THEN move ELSE iMove)
      /\ iDropped' = (iDropped \/ (~CanSend /\ iMove /\ ~move))
  BY Zenon DEF SendMove
<1>3. CASE CanSend /\ iServer.alive
  <2>1. iServer' = [iServer EXCEPT !.held = iHeld, !.move = move]
    BY <1>3, Zenon DEF SendMove
  <2>2. iServer' \in Server /\ iServer'.held = iHeld /\ iServer'.move = move /\ iServer'.alive = iServer.alive
    BY <1>1, <2>1 DEF Server
  <2> QED
    BY <1>1, <1>2, <1>3, <2>2, Zenon
<1>4. CASE ~(CanSend /\ iServer.alive)
  BY <1>1, <1>2, <1>4, Zenon DEF SendMove
<1> QED
  BY <1>3, <1>4

\* No device, no loss of the focus or of the connection, and no fall leaves a hold behind.
LEMMA InputStep == InputInvariant /\ [InputNext]_iVars => InputInvariant'
<1> SUFFICES ASSUME InputInvariant, [InputNext]_iVars
             PROVE  InputInvariant'
  OBVIOUS
<1> USE DEF InputInvariant
<1>1. CASE UNCHANGED iVars
  BY <1>1, ZenonT(60) DEF iVars, InputTypes
<1>2. ASSUME NEW key \in {"b", "w"}, KeyDown(key)
      PROVE  InputInvariant'
  <2>0. iFocus /\ iKeys' = iKeys \cup {key} /\ UNCHANGED Devices
    BY <1>2, Zenon DEF KeyDown
  <2>1. CASE key = "w" /\ iReady /\ ~iMoving /\ iMoving' = TRUE /\ SendMove(TRUE)
    BY <2>0, <2>1, SendMoveIs, Zenon DEF Devices, CanSend, InputTypes
  <2>2. CASE key = "b" /\ iReady /\ ~iHeld /\ SendHeld(TRUE) /\ UNCHANGED iMoving
    BY <2>0, <2>2, SendHeldIs, ZenonT(60) DEF Devices, CanSend, InputTypes
  <2>3. CASE SendsNothing /\ UNCHANGED iMoving
    BY <2>0, <2>3, ZenonT(60) DEF SendsNothing, Devices, InputTypes
  <2> QED
    BY <1>2, <2>1, <2>2, <2>3, Zenon DEF KeyDown
<1>3. ASSUME NEW key \in {"b", "w"}, KeyUp(key)
      PROVE  InputInvariant'
  <2>0. iFocus /\ iKeys' = iKeys \ {key} /\ UNCHANGED Devices
    BY <1>3, Zenon DEF KeyUp
  <2>1. CASE key = "w" /\ iMoving /\ iMoving' = FALSE /\ SendMove(FALSE)
    BY <2>0, <2>1, SendMoveIs, ZenonT(60) DEF Devices, CanSend, InputTypes
  <2>2. CASE key = "b" /\ iHeld /\ SendHeld(FALSE) /\ UNCHANGED iMoving
    BY <2>0, <2>2, SendHeldIs, ZenonT(60) DEF Devices, CanSend, InputTypes
  <2>3. CASE (key = "w" => ~iMoving) /\ (key = "b" => ~iHeld) /\ SendsNothing /\ UNCHANGED iMoving
    BY <2>0, <2>3, ZenonT(60) DEF SendsNothing, Devices, InputTypes
  <2> QED
    BY <1>3, <2>1, <2>2, <2>3, Zenon DEF KeyUp
<1>4. CASE Blur
  <2>0. /\ iFocus' = FALSE /\ iMoving' = FALSE /\ BlurredAll
        /\ UNCHANGED <<iKeys, iButton, iClick, iStick, iPush, iReady, iShown, iTraining>>
    BY <1>4, Zenon DEF Blur
  <2>1. CASE iMoving \/ iHeld
    <3>1. /\ iHeld' = FALSE /\ iMove' = (IF CanSend THEN FALSE ELSE iMove)
          /\ iDropped' = (iDropped \/ (~CanSend /\ iMove))
          /\ IF CanSend /\ iServer.alive
             THEN iServer' = [iServer EXCEPT !.held = FALSE, !.move = FALSE]
             ELSE iServer' = iServer
      BY <2>0, <2>1, Zenon DEF BlurredAll
    <3>2. /\ iServer' \in Server /\ iServer'.alive = iServer.alive
          /\ IF CanSend /\ iServer.alive THEN iServer'.held = FALSE /\ iServer'.move = FALSE
             ELSE iServer' = iServer
      BY <3>1, Setting, ZenonT(60) DEF InputTypes
    <3> QED
      BY <2>0, <2>1, <3>1, <3>2, Zenon DEF CanSend, InputTypes
  <2>2. CASE ~(iMoving \/ iHeld)
    BY <2>0, <2>2, Zenon DEF BlurredAll, SendsNothing, InputTypes
  <2> QED
    BY <2>1, <2>2
<1>5. CASE Focus
  BY <1>5, Zenon DEF Focus, SendsNothing, InputTypes
<1>6. CASE ButtonDown \/ ButtonUp \/ ButtonClick \/ ClickEnds
  <2>1. CASE ButtonDown
    BY <2>1, SendHeldIs, Zenon DEF ButtonDown, Keyboard, CanSend, InputTypes
  <2>2. CASE ButtonUp
    BY <2>2, SendHeldIs, ZenonT(60) DEF ButtonUp, SendsNothing, Keyboard, CanSend, InputTypes
  <2>3. CASE ButtonClick
    BY <2>3, SendHeldIs, Zenon DEF ButtonClick, Keyboard, CanSend, InputTypes
  <2>4. CASE ClickEnds
    BY <2>4, SendHeldIs, ZenonT(60) DEF ClickEnds, Keyboard, CanSend, InputTypes
  <2> QED
    BY <1>6, <2>1, <2>2, <2>3, <2>4
<1>7. CASE StickDown \/ StickMoves \/ StickFrame \/ StickUp
  <2>1. CASE StickDown
    <3>1. PICK push \in BOOLEAN : iPush' = push /\ SendMove(push)
      BY <2>1, Zenon DEF StickDown
    <3> QED
      BY <2>1, <3>1, SendMoveIs, ZenonT(60) DEF StickDown, Keyboard, CanSend, InputTypes
  <2>2. CASE StickMoves
    BY <2>2, Zenon DEF StickMoves, SendsNothing, Keyboard, InputTypes
  <2>3. CASE StickFrame
    BY <2>3, SendMoveIs, ZenonT(60) DEF StickFrame, Keyboard, CanSend, InputTypes
  <2>4. CASE StickUp
    BY <2>4, SendMoveIs, Zenon DEF StickUp, Keyboard, CanSend, InputTypes
  <2> QED
    BY <1>7, <2>1, <2>2, <2>3, <2>4
<1>8. CASE ServerFells
  <2>1. /\ iServer' \in Server /\ iServer'.held = FALSE /\ iServer'.move = FALSE
        /\ iServer'.alive = FALSE
    BY <1>8 DEF ServerFells, Server
  <2> QED
    BY <1>8, <2>1, ZenonT(60) DEF ServerFells, InputTypes
<1>9. CASE FallShown
  BY <1>9, Zenon DEF FallShown, InputTypes
<1>10. CASE ServerRaises
  <2>1. /\ iServer' \in Server /\ iServer'.held = iServer.held /\ iServer'.move = iServer.move
        /\ iServer'.alive = TRUE
    BY <1>10 DEF ServerRaises, Server, InputTypes
  <2> QED
    BY <1>10, <2>1, Zenon DEF ServerRaises, InputTypes
<1>11. CASE RespawnShown
  BY <1>11, Zenon DEF RespawnShown, InputTypes
<1>12. CASE ConnectionLost
  BY <1>12, IdleIs, Zenon DEF ConnectionLost, InputTypes
<1>13. CASE ConnectionBack
  BY <1>13, Zenon DEF ConnectionBack, InputTypes
<1> QED
  BY <1>1, <1>2, <1>3, <1>4, <1>5, <1>6, <1>7, <1>8, <1>9, <1>10, <1>11, <1>12, <1>13, Zenon
     DEF InputNext

\* Neither the page nor the server goes on with an action that nobody presses any more, nor
\* with a movement unless its end came while the page could not send, whatever the order of
\* keys, clicks, the stick, the focus, falls and connections.
THEOREM NothingStaysPressed == InputSpec => []NothingStuck
BY InputStart, InputStep, InputMeans, PTL DEF InputSpec

-----------------------------------------------------------------------------
(* What a bot throws, and where it turns.                                  *)

\* The server's player, and a scene.
Player == [carried : BOOLEAN, button : BOOLEAN, ready : BOOLEAN, charging : BOOLEAN,
           ticks : 0 .. MostTicks, held : BOOLEAN, alive : BOOLEAN]
Scene == [carries : BOOLEAN, ticks : 0 .. MostTicks, pickup : BOOLEAN]

DecisionTypes ==
  /\ tPhase \in {0, 1, 3, 4} /\ tFrames \in Seq(BOOLEAN) /\ tScenes \in Seq(Scene)
  /\ tScene \in Scene /\ tServer \in Player /\ tItem \in BOOLEAN
  /\ tLate \in BOOLEAN /\ tThrown \in -1 .. MostTicks

\* The button from the server's last tick to the newest frame, and the item in the bot's
\* hands from the scene it looks at to the newest one.
Word(server, frames) ==
  [i \in 0 .. Len(frames) + 1 |->
     IF i = 0 THEN server.button ELSE IF i = 1 THEN server.held ELSE frames[i - 1]]
Sight(scene, scenes) ==
  [i \in 0 .. Len(scenes) |-> IF i = 0 THEN scene.carries ELSE scenes[i].carries]

\* Down: pressed, then not.  Up: not pressed, then pressed; and the longer patterns.
All(w, b) == \A i \in DOMAIN w : w[i] = b
Down(w) == \A i, j \in DOMAIN w : i < j /\ w[i] = FALSE => w[j] = FALSE
Up(w) == \A i, j \in DOMAIN w : i < j /\ w[i] = TRUE => w[j] = TRUE
DownUp(w) == \A i, j, k \in DOMAIN w :
  i < j /\ j < k /\ w[i] = FALSE /\ w[j] = TRUE => w[k] = TRUE
DownUpDown(w) == \A i, j, k, l \in DOMAIN w :
  i < j /\ j < k /\ k < l /\ w[i] = FALSE /\ w[j] = TRUE /\ w[k] = FALSE => w[l] = FALSE

\* A sequence that keeps every pattern of another.
Keeps(w, v) ==
  /\ \A b \in BOOLEAN : All(w, b) => All(v, b)
  /\ Down(w) => Down(v)
  /\ Up(w) => Up(v)
  /\ DownUp(w) => DownUp(v)
  /\ DownUpDown(w) => DownUpDown(v)

\* A part of a sequence, in its order, some of its places more than once.
LEMMA Thinned ==
  ASSUME NEW m \in Nat, NEW n \in Nat, NEW v \in [0 .. m -> BOOLEAN],
         NEW w \in [0 .. n -> BOOLEAN], NEW g \in [0 .. m -> 0 .. n],
         \A i, j \in 0 .. m : i < j => g[i] <= g[j],
         \A i \in 0 .. m : v[i] = w[g[i]]
  PROVE  Keeps(w, v)
<1>0. DOMAIN v = 0 .. m /\ DOMAIN w = 0 .. n
  OBVIOUS
<1>a. \A i \in 0 .. m : g[i] \in 0 .. n
  OBVIOUS
<1>b. \A i, j \in 0 .. m : i < j /\ v[i] # v[j] => g[i] < g[j]
  <2> SUFFICES ASSUME NEW i \in 0 .. m, NEW j \in 0 .. m, i < j, v[i] # v[j]
               PROVE  g[i] < g[j]
    OBVIOUS
  <2>1. g[i] <= g[j] /\ g[i] # g[j]
    OBVIOUS
  <2> QED
    BY <1>a, <2>1
<1>1. \A b \in BOOLEAN : All(w, b) => All(v, b)
  BY <1>0, <1>a DEF All
<1>2. Down(w) => Down(v)
  BY <1>0, <1>a, <1>b DEF Down
<1>3. Up(w) => Up(v)
  BY <1>0, <1>a, <1>b DEF Up
<1>4. DownUp(w) => DownUp(v)
  <2> SUFFICES ASSUME DownUp(w), NEW i \in 0 .. m, NEW j \in 0 .. m, NEW k \in 0 .. m,
                      i < j, j < k, v[i] = FALSE, v[j] = TRUE, v[k] # TRUE
               PROVE  FALSE
    BY <1>0 DEF DownUp
  <2>1. g[i] < g[j] /\ g[j] < g[k]
    BY <1>b
  <2>2. w[g[i]] = FALSE /\ w[g[j]] = TRUE /\ w[g[k]] # TRUE
    OBVIOUS
  <2>3. \A a, b, c \in 0 .. n :
          a < b /\ b < c /\ w[a] = FALSE /\ w[b] = TRUE => w[c] = TRUE
    BY <1>0 DEF DownUp
  <2> QED
    BY <1>a, <2>1, <2>2, <2>3
<1>5. DownUpDown(w) => DownUpDown(v)
  <2> SUFFICES ASSUME DownUpDown(w),
                      NEW i \in 0 .. m, NEW j \in 0 .. m, NEW k \in 0 .. m, NEW l \in 0 .. m,
                      i < j, j < k, k < l, v[i] = FALSE, v[j] = TRUE, v[k] = FALSE, v[l] # FALSE
               PROVE  FALSE
    BY <1>0 DEF DownUpDown
  <2>1. g[i] < g[j] /\ g[j] < g[k] /\ g[k] < g[l]
    BY <1>b
  <2>2. w[g[i]] = FALSE /\ w[g[j]] = TRUE /\ w[g[k]] = FALSE /\ w[g[l]] # FALSE
    OBVIOUS
  <2>3. \A a, b, c, d \in 0 .. n :
          a < b /\ b < c /\ c < d /\ w[a] = FALSE /\ w[b] = TRUE /\ w[c] = FALSE => w[d] = FALSE
    BY <1>0 DEF DownUpDown
  <2> DEFINE a == g[i]
             b == g[j]
             c == g[k]
             d == g[l]
  <2>4. /\ a \in 0 .. n /\ b \in 0 .. n /\ c \in 0 .. n /\ d \in 0 .. n
        /\ a < b /\ b < c /\ c < d
        /\ w[a] = FALSE /\ w[b] = TRUE /\ w[c] = FALSE /\ w[d] # FALSE
    BY <1>a, <2>1, <2>2
  <2> HIDE DEF a, b, c, d
  <2>5. w[d] = FALSE
    BY <2>3, <2>4, SMTT(30)
  <2> QED
    BY <2>4, <2>5
<1> QED
  BY <1>1, <1>2, <1>3, <1>4, <1>5 DEF Keeps

\* One more value at the end.
LEMMA Extended ==
  ASSUME NEW n \in Nat, NEW w \in [0 .. n -> BOOLEAN], NEW v \in [0 .. n + 1 -> BOOLEAN],
         \A i \in 0 .. n : v[i] = w[i]
  PROVE  /\ \A b \in BOOLEAN : v[n + 1] = b /\ All(w, b) => All(v, b)
         /\ v[n + 1] = FALSE => /\ Down(w) => Down(v)
                                /\ All(w, TRUE) => Down(v)
                                /\ DownUpDown(w) => DownUpDown(v)
         /\ v[n + 1] = TRUE => /\ Up(w) => Up(v)
                               /\ Down(w) => DownUpDown(v)
                               /\ DownUp(w) => DownUp(v)
<1>0. /\ DOMAIN v = 0 .. n + 1 /\ DOMAIN w = 0 .. n
      /\ \A i \in 0 .. n + 1 : i \in 0 .. n \/ i = n + 1
      /\ \A i, j \in 0 .. n + 1 : i < j => i \in 0 .. n
  OBVIOUS
<1>1. \A b \in BOOLEAN : v[n + 1] = b /\ All(w, b) => All(v, b)
  BY <1>0 DEF All
<1>2. ASSUME v[n + 1] = FALSE
      PROVE  /\ Down(w) => Down(v)
             /\ All(w, TRUE) => Down(v)
  BY <1>0, <1>2 DEF Down, All
<1>3. ASSUME v[n + 1] = FALSE
      PROVE  DownUpDown(w) => DownUpDown(v)
  BY <1>0, <1>3 DEF DownUpDown
<1>4. ASSUME v[n + 1] = TRUE
      PROVE  /\ Up(w) => Up(v)
             /\ DownUp(w) => DownUp(v)
  BY <1>0, <1>4 DEF Up, DownUp
<1>5. ASSUME v[n + 1] = TRUE
      PROVE  Down(w) => DownUpDown(v)
  BY <1>0, <1>5 DEF Down, DownUpDown
<1> QED
  BY <1>1, <1>2, <1>3, <1>4, <1>5

\* What the shorter patterns imply.
LEMMA Patterns ==
  ASSUME NEW n \in Nat, NEW w \in [0 .. n -> BOOLEAN]
  PROVE  /\ Down(w) => DownUp(w)
         /\ All(w, FALSE) => Up(w) /\ Down(w)
         /\ All(w, TRUE) => Up(w) /\ DownUp(w)
<1>0. DOMAIN w = 0 .. n /\ \A i \in 0 .. n : w[i] = TRUE \/ w[i] = FALSE
  OBVIOUS
<1> QED
  BY <1>0 DEF Down, DownUp, All, Up

\* The server's tick takes the newest buttons: what a press and a release leave.
LEMMA Edges ==
  ASSUME NEW n \in Nat \ {0}, NEW w \in [0 .. n -> BOOLEAN], NEW v \in [0 .. n -> BOOLEAN],
         v[0] = w[1], \A i \in 1 .. n : v[i] = w[i]
  PROVE  /\ w[0] = FALSE /\ w[1] = TRUE => /\ ~Down(w)
                                           /\ DownUpDown(w) => Down(v)
                                           /\ Up(w) => All(v, TRUE)
         /\ w[0] = TRUE /\ w[1] = FALSE => /\ ~All(w, TRUE)
                                           /\ Down(w) => All(v, FALSE)
                                           /\ DownUp(w) => Up(v)
<1>0. /\ DOMAIN v = 0 .. n /\ DOMAIN w = 0 .. n /\ 0 \in 0 .. n /\ 1 \in 0 .. n
      /\ \A i \in 0 .. n : i = 0 \/ i = 1 \/ (i \in 1 .. n /\ 1 < i)
      /\ \A i \in 0 .. n : v[i] = TRUE \/ v[i] = FALSE
  OBVIOUS
<1>1. ASSUME w[0] = FALSE, w[1] = TRUE
      PROVE  ~Down(w) /\ (Up(w) => All(v, TRUE))
  BY <1>0, <1>1 DEF Down, Up, All
<1>2. ASSUME w[0] = FALSE, w[1] = TRUE
      PROVE  DownUpDown(w) => Down(v)
  <2> SUFFICES ASSUME DownUpDown(w), NEW i \in 0 .. n, NEW j \in 0 .. n, i < j,
                      v[i] = FALSE, v[j] # FALSE
               PROVE  FALSE
    BY <1>0 DEF Down
  <2>1. i # 0 /\ i # 1
    BY <1>2
  <2>2. 0 < 1 /\ 1 < i /\ w[i] = FALSE /\ w[j] = v[j]
    BY <1>0, <2>1
  <2> QED
    BY <1>0, <1>2, <2>2 DEF DownUpDown
<1>3. ASSUME w[0] = TRUE, w[1] = FALSE
      PROVE  ~All(w, TRUE) /\ (Down(w) => All(v, FALSE))
  BY <1>0, <1>3 DEF Down, All
<1>4. ASSUME w[0] = TRUE, w[1] = FALSE
      PROVE  DownUp(w) => Up(v)
  <2> SUFFICES ASSUME DownUp(w), NEW i \in 0 .. n, NEW j \in 0 .. n, i < j,
                      v[i] = TRUE, v[j] # TRUE
               PROVE  FALSE
    BY <1>0 DEF Up
  <2>1. i # 0 /\ i # 1
    BY <1>4
  <2>2. 1 < i /\ w[i] = TRUE /\ w[j] = v[j]
    BY <1>0, <2>1
  <2> QED
    BY <1>0, <1>4, <2>2 DEF DownUp
<1> QED
  BY <1>1, <1>2, <1>3, <1>4

\* The two sequences, value by value.
LEMMA WordIs ==
  ASSUME NEW server \in Player, NEW frames \in Seq(BOOLEAN)
  PROVE  /\ Word(server, frames) \in [0 .. Len(frames) + 1 -> BOOLEAN]
         /\ Word(server, frames)[0] = server.button /\ Word(server, frames)[1] = server.held
         /\ \A i \in 2 .. Len(frames) + 1 : Word(server, frames)[i] = frames[i - 1]
<1> DEFINE w == Word(server, frames)
<1>1. /\ server.button \in BOOLEAN /\ server.held \in BOOLEAN
      /\ Len(frames) \in Nat /\ \A i \in 1 .. Len(frames) : frames[i] \in BOOLEAN
  BY DEF Player
<1>2. w \in [0 .. Len(frames) + 1 -> BOOLEAN]
  BY <1>1 DEF Word
<1>3. w[0] = server.button /\ w[1] = server.held
  BY <1>1 DEF Word
<1>4. \A i \in 2 .. Len(frames) + 1 : w[i] = frames[i - 1]
  BY <1>1 DEF Word
<1> QED
  BY <1>2, <1>3, <1>4

\* The word of the scenes begins with the scene the bot looks at.
LEMMA SightIs ==
  ASSUME NEW scene \in Scene, NEW scenes \in Seq(Scene)
  PROVE  /\ Sight(scene, scenes) \in [0 .. Len(scenes) -> BOOLEAN]
         /\ Sight(scene, scenes)[0] = scene.carries
         /\ \A i \in 1 .. Len(scenes) : Sight(scene, scenes)[i] = scenes[i].carries
<1> DEFINE w == Sight(scene, scenes)
<1>1. Len(scenes) \in Nat /\ \A i \in 1 .. Len(scenes) : scenes[i] \in Scene
  OBVIOUS
<1>2. \A s \in Scene : s.carries \in BOOLEAN
  BY DEF Scene
<1>3. w \in [0 .. Len(scenes) -> BOOLEAN]
  BY <1>1, <1>2 DEF Sight
<1>4. w[0] = scene.carries
  BY <1>1 DEF Sight
<1>5. \A i \in 1 .. Len(scenes) : w[i] = scenes[i].carries
  BY <1>1 DEF Sight
<1> QED
  BY <1>3, <1>4, <1>5

\* The throwable of a player is changed within the player's type.
LEMMA InHands ==
  ASSUME NEW p \in Player, NEW c \in BOOLEAN, NEW r \in BOOLEAN, NEW g \in BOOLEAN,
         NEW b \in BOOLEAN, NEW t \in 0 .. MostTicks
  PROVE  /\ [p EXCEPT !.button = b] \in Player
         /\ [p EXCEPT !.held = b] \in Player
         /\ [p EXCEPT !.alive = b] \in Player
         /\ [p EXCEPT !.ready = r] \in Player
         /\ [p EXCEPT !.ticks = t] \in Player
         /\ [p EXCEPT !.charging = g, !.ready = r, !.ticks = t] \in Player
         /\ [p EXCEPT !.carried = c, !.ready = r, !.charging = g, !.ticks = t] \in Player
         /\ [p EXCEPT !.carried = c, !.charging = g, !.ready = r, !.ticks = t] \in Player
<1>1. [p EXCEPT !.button = b] \in Player /\ [p EXCEPT !.held = b] \in Player
  BY DEF Player
<1>2. [p EXCEPT !.alive = b] \in Player /\ [p EXCEPT !.ready = r] \in Player
  BY DEF Player
<1>3. [p EXCEPT !.ticks = t] \in Player
  BY DEF Player
<1>4. [p EXCEPT !.charging = g, !.ready = r, !.ticks = t] \in Player
  BY DEF Player
<1>5. [p EXCEPT !.carried = c, !.ready = r, !.charging = g, !.ticks = t] \in Player
  BY DEF Player
<1>6. [p EXCEPT !.carried = c, !.charging = g, !.ready = r, !.ticks = t] \in Player
  BY DEF Player
<1> QED
  BY <1>1, <1>2, <1>3, <1>4, <1>5, <1>6

\* What the charge of a tick does.
LEMMA ChargedIs ==
  ASSUME NEW p \in Player, NEW q, q = Charged(p)
  PROVE  /\ q \in Player /\ q.button = p.button /\ q.held = p.held /\ q.alive = p.alive
         /\ q.carried = p.carried /\ q.ready = p.ready /\ q.charging = p.charging
         /\ q.ticks >= p.ticks
         /\ q.ticks > p.ticks => p.carried = TRUE /\ p.charging = TRUE
<1>0. MostTicks \in Nat /\ p.ticks \in 0 .. MostTicks
  BY DecisionAssumption DEF Player
<1>1. CASE q = p
  BY <1>0, <1>1
<1>2. CASE q = [p EXCEPT !.ticks = @ + 1] /\ p.carried /\ p.charging /\ p.ticks < MostTicks
  <2>1. q \in Player
    BY <1>0, <1>2 DEF Player
  <2>2. /\ q.button = p.button /\ q.held = p.held /\ q.alive = p.alive
        /\ q.carried = p.carried /\ q.ready = p.ready /\ q.charging = p.charging
        /\ q.ticks = p.ticks + 1
    BY <1>2 DEF Player
  <2>3. p.carried \in BOOLEAN /\ p.charging \in BOOLEAN
    BY DEF Player
  <2>4. p.carried = TRUE /\ p.charging = TRUE
    BY <1>2, <2>3
  <2> QED
    BY <1>0, <2>1, <2>2, <2>4
<1> QED
  BY <1>1, <1>2 DEF Charged

\* A tick makes q of the player p.
TickOf(p, q) ==
  /\ q \in Player /\ q.button = p.held /\ q.held = p.held /\ q.alive = p.alive
  /\ \/ /\ p.held = TRUE /\ p.button = FALSE /\ p.carried = FALSE /\ q.carried = TRUE
        /\ q.ready = FALSE /\ q.charging = FALSE /\ q.ticks = 0
     \/ /\ p.held = TRUE /\ p.button = FALSE /\ p.carried = TRUE /\ p.ready = TRUE
        /\ q.carried = TRUE /\ q.ready = FALSE /\ q.charging = TRUE
     \/ /\ p.held = FALSE /\ p.button = TRUE /\ p.carried = TRUE /\ p.charging = TRUE
        /\ q.carried = FALSE /\ q.ready = FALSE /\ q.charging = FALSE /\ q.ticks = 0
     \/ /\ p.held = FALSE /\ p.button = TRUE /\ p.carried = TRUE /\ p.charging = FALSE
        /\ q.carried = TRUE /\ q.ready = TRUE /\ q.charging = FALSE /\ q.ticks = p.ticks
     \/ /\ q.carried = p.carried /\ q.ready = p.ready /\ q.charging = p.charging
        /\ q.ticks >= p.ticks
        /\ q.ticks > p.ticks => p.carried = TRUE /\ p.charging = TRUE

\* What a tick does to the throwable of a living player.
LEMMA AppliedIs ==
  ASSUME NEW p \in Player, NEW reach \in BOOLEAN, NEW q, q = Charged(Applied(p, reach))
  PROVE  TickOf(p, q)
<1> USE DEF TickOf
<1>0. MostTicks \in Nat \ {0} /\ 0 \in 0 .. MostTicks /\ TRUE \in BOOLEAN /\ FALSE \in BOOLEAN
  BY DecisionAssumption
<1>1. /\ p.carried \in BOOLEAN /\ p.button \in BOOLEAN /\ p.ready \in BOOLEAN
      /\ p.charging \in BOOLEAN /\ p.held \in BOOLEAN /\ p.ticks \in 0 .. MostTicks
  BY DEF Player
<1> DEFINE a == Applied(p, reach)
<1>9. ASSUME a = [p EXCEPT !.button = p.held]
      PROVE  /\ q \in Player /\ q.button = p.held /\ q.held = p.held /\ q.alive = p.alive
             /\ q.carried = p.carried /\ q.ready = p.ready /\ q.charging = p.charging
             /\ q.ticks >= p.ticks
             /\ q.ticks > p.ticks => p.carried = TRUE /\ p.charging = TRUE
  <2>1. /\ a \in Player /\ a.button = p.held /\ a.held = p.held /\ a.alive = p.alive
        /\ a.carried = p.carried /\ a.ready = p.ready /\ a.charging = p.charging
        /\ a.ticks = p.ticks
    BY <1>1, <1>9 DEF Player
  <2> HIDE DEF a
  <2> QED
    BY <1>1, <2>1, ChargedIs DEF a
<1>2. CASE p.held = TRUE /\ p.button = FALSE
  <2>1. CASE p.carried = TRUE /\ p.ready = TRUE
    <3>1. a = [[p EXCEPT !.charging = TRUE, !.ready = FALSE, !.ticks = 0] EXCEPT !.button = p.held]
      BY <1>2, <2>1 DEF Applied, Pressed
    <3> DEFINE x == [p EXCEPT !.charging = TRUE, !.ready = FALSE, !.ticks = 0]
    <3>4. a = [x EXCEPT !.button = p.held] /\ x \in Player
      BY <1>0, <3>1, InHands, Zenon
    <3>5. a \in Player
      BY <1>1, <3>4, InHands, ZenonT(60)
    <3>2. /\ a \in Player /\ a.button = p.held /\ a.held = p.held /\ a.alive = p.alive
          /\ a.carried = TRUE /\ a.ready = FALSE /\ a.charging = TRUE /\ a.ticks = 0
      BY <1>0, <1>1, <2>1, <3>1, <3>5 DEF Player
    <3> HIDE DEF a
    <3>3. q = [a EXCEPT !.ticks = @ + 1]
      BY <1>0, <1>2, <3>2 DEF Charged, a
    <3> QED
      BY <1>0, <1>2, <2>1, <3>2, <3>3 DEF Player
  <2>2. CASE p.carried = FALSE /\ reach = TRUE
    <3>1. a = [[p EXCEPT !.carried = TRUE, !.ready = FALSE, !.charging = FALSE, !.ticks = 0]
                 EXCEPT !.button = p.held]
      BY <1>2, <2>2 DEF Applied, Pressed
    <3> DEFINE x == [p EXCEPT !.carried = TRUE, !.ready = FALSE, !.charging = FALSE, !.ticks = 0]
    <3>4. a = [x EXCEPT !.button = p.held] /\ x \in Player
      BY <1>0, <3>1, InHands, Zenon
    <3>5. a \in Player
      BY <1>1, <3>4, InHands, ZenonT(60)
    <3>2. /\ a \in Player /\ a.button = p.held /\ a.held = p.held /\ a.alive = p.alive
          /\ a.carried = TRUE /\ a.ready = FALSE /\ a.charging = FALSE /\ a.ticks = 0
      BY <1>0, <1>1, <2>2, <3>1, <3>5 DEF Player
    <3> HIDE DEF a
    <3>3. q = a
      BY <3>2 DEF Charged, a
    <3> QED
      BY <1>2, <2>2, <3>2, <3>3
  <2>3. CASE ~(p.carried = TRUE /\ p.ready = TRUE) /\ ~(p.carried = FALSE /\ reach = TRUE)
    <3>1. Pressed(p, reach) = p
      BY <1>1, <2>3 DEF Pressed
    <3> QED
      BY <1>2, <3>1, <1>9 DEF Applied
  <2> QED
    BY <1>1, <2>1, <2>2, <2>3
<1>3. CASE p.held = FALSE /\ p.button = TRUE
  <2>1. CASE p.carried = TRUE /\ p.charging = TRUE
    <3>1. a = [[p EXCEPT !.carried = FALSE, !.charging = FALSE, !.ready = FALSE, !.ticks = 0]
                 EXCEPT !.button = p.held]
      BY <1>3, <2>1 DEF Applied, ReleasedThrow
    <3> DEFINE x == [p EXCEPT !.carried = FALSE, !.charging = FALSE, !.ready = FALSE, !.ticks = 0]
    <3>4. a = [x EXCEPT !.button = p.held] /\ x \in Player
      BY <1>0, <3>1, InHands, Zenon
    <3>5. a \in Player
      BY <1>1, <3>4, InHands, ZenonT(60)
    <3>2. /\ a \in Player /\ a.button = p.held /\ a.held = p.held /\ a.alive = p.alive
          /\ a.carried = FALSE /\ a.ready = FALSE /\ a.charging = FALSE /\ a.ticks = 0
      BY <1>0, <1>1, <2>1, <3>1, <3>5 DEF Player
    <3> HIDE DEF a
    <3>3. q = a
      BY <3>2 DEF Charged, a
    <3> QED
      BY <1>3, <2>1, <3>2, <3>3
  <2>2. CASE p.carried = TRUE /\ p.charging = FALSE
    <3>1. a = [[p EXCEPT !.ready = TRUE] EXCEPT !.button = p.held]
      BY <1>3, <2>2 DEF Applied, ReleasedThrow
    <3> DEFINE x == [p EXCEPT !.ready = TRUE]
    <3>4. a = [x EXCEPT !.button = p.held] /\ x \in Player
      BY <1>1, <3>1, InHands
    <3>5. a \in Player
      BY <1>1, <3>4, InHands, ZenonT(60)
    <3>2. /\ a \in Player /\ a.button = p.held /\ a.held = p.held /\ a.alive = p.alive
          /\ a.carried = TRUE /\ a.ready = TRUE /\ a.charging = FALSE /\ a.ticks = p.ticks
      BY <1>0, <1>1, <2>2, <3>1, <3>5 DEF Player
    <3> HIDE DEF a
    <3>3. q = a
      BY <3>2 DEF Charged, a
    <3> QED
      BY <1>3, <2>2, <3>2, <3>3
  <2>3. CASE p.carried = FALSE
    <3>1. ReleasedThrow(p) = p
      BY <2>3 DEF ReleasedThrow
    <3> QED
      BY <1>3, <3>1, <1>9 DEF Applied
  <2> QED
    BY <1>1, <2>1, <2>2, <2>3
<1>4. CASE ~(p.held = TRUE /\ p.button = FALSE) /\ ~(p.held = FALSE /\ p.button = TRUE)
  <2>1. a = [p EXCEPT !.button = p.held]
    BY <1>1, <1>4 DEF Applied
  <2> QED
    BY <1>9, <2>1
<1> QED
  BY <1>1, <1>2, <1>3, <1>4

\* It leaves a player.
LEMMA AppliedIsPlayer ==
  ASSUME NEW p \in Player, NEW reach \in BOOLEAN
  PROVE  Applied(p, reach) \in Player
<1>0. /\ 0 \in 0 .. MostTicks /\ TRUE \in BOOLEAN /\ FALSE \in BOOLEAN /\ p.held \in BOOLEAN
  BY DecisionAssumption DEF Player
<1>1. Pressed(p, reach) \in Player
  BY <1>0, InHands, Zenon DEF Pressed
<1>2. ReleasedThrow(p) \in Player
  BY <1>0, InHands, Zenon DEF ReleasedThrow
<1>3. PICK x \in Player : Applied(p, reach) = [x EXCEPT !.button = p.held]
  BY <1>1, <1>2, Zenon DEF Applied
<1> QED
  BY <1>0, <1>3, InHands, Zenon

\* A fallen player's throwable stays in its hands.
LEMMA FallenTick ==
  ASSUME NEW p \in Player, NEW q, q = Charged([p EXCEPT !.held = FALSE])
  PROVE  q \in Player /\ q.carried = p.carried /\ q.alive = p.alive
<1>0. MostTicks \in Nat /\ p.ticks \in 0 .. MostTicks
  BY DecisionAssumption DEF Player
<1> DEFINE a == [p EXCEPT !.held = FALSE]
<1>1. a \in Player
  BY InHands, Zenon, <1>0
<1>2. a.carried = p.carried /\ a.alive = p.alive /\ a.ticks = p.ticks
  BY DEF Player
<1> QED
  BY <1>1, <1>2, ChargedIs

\* What the server reads, what it applies at a tick and what the bot sends.
LEMMA WordReads ==
  ASSUME NEW p \in Player, NEW q \in Player, NEW frames \in Seq(BOOLEAN), frames # <<>>,
         q.button = p.button, q.held = Head(frames)
  PROVE  Keeps(Word(p, frames), Word(q, Tail(frames)))
<1> DEFINE n == Len(frames) + 1
           m == Len(Tail(frames)) + 1
           w == Word(p, frames)
           v == Word(q, Tail(frames))
           g == [i \in 0 .. m |-> IF i = 0 THEN 0 ELSE i + 1]
<1>1. n \in Nat /\ m \in Nat /\ m + 1 = n /\ Tail(frames) \in Seq(BOOLEAN)
      /\ \A i \in 1 .. Len(Tail(frames)) : Tail(frames)[i] = frames[i + 1]
      /\ Head(frames) = frames[1]
  OBVIOUS
<1>2. /\ w \in [0 .. n -> BOOLEAN] /\ w[0] = p.button /\ w[1] = p.held
      /\ \A i \in 2 .. n : w[i] = frames[i - 1]
  BY WordIs
<1>7. /\ v \in [0 .. m -> BOOLEAN] /\ v[0] = q.button /\ v[1] = q.held
      /\ \A i \in 2 .. m : v[i] = Tail(frames)[i - 1]
  BY <1>1, WordIs
<1>3. g \in [0 .. m -> 0 .. n] /\ \A i, j \in 0 .. m : i < j => g[i] <= g[j]
  BY <1>1
<1> HIDE DEF w, v
<1>4. \A i \in 0 .. m : v[i] = w[g[i]]
  <2> SUFFICES ASSUME NEW i \in 0 .. m
               PROVE  v[i] = w[IF i = 0 THEN 0 ELSE i + 1]
    OBVIOUS
  <2>1. CASE i = 0
    BY <1>2, <1>7, <2>1
  <2>2. CASE i = 1
    <3>1. w[2] = frames[1] /\ v[1] = q.held
      BY <1>1, <1>2, <1>7
    <3> QED
      BY <1>1, <2>2, <3>1
  <2>3. CASE i \in 2 .. m
    <3>1. w[i + 1] = frames[i] /\ v[i] = Tail(frames)[i - 1]
      BY <1>1, <1>2, <1>7, <2>3
    <3> QED
      BY <1>1, <2>3, <3>1
  <2> QED
    BY <1>1, <2>1, <2>2, <2>3
<1>8. n \in Nat /\ m \in Nat /\ w \in [0 .. n -> BOOLEAN] /\ v \in [0 .. m -> BOOLEAN]
  BY <1>1, <1>2, <1>7
<1> HIDE DEF n, m, g
<1>5. Keeps(w, v)
  BY <1>3, <1>4, <1>8, Thinned
<1> QED
  BY <1>5 DEF w, v

\* A tick takes the newest frame: the words keep their pattern, and where the button
\* changes at the tick they lose their first letter.
LEMMA WordTicks ==
  ASSUME NEW p \in Player, NEW q \in Player, NEW frames \in Seq(BOOLEAN),
         q.button = p.held, q.held = p.held,
         NEW w, w = Word(p, frames), NEW v, v = Word(q, frames)
  PROVE  /\ Keeps(w, v)
         /\ p.button = FALSE /\ p.held = TRUE => /\ ~Down(w)
                                                 /\ DownUpDown(w) => Down(v)
                                                 /\ Up(w) => All(v, TRUE)
         /\ p.button = TRUE /\ p.held = FALSE => /\ ~All(w, TRUE)
                                                 /\ Down(w) => All(v, FALSE)
                                                 /\ DownUp(w) => Up(v)
<1> DEFINE n == Len(frames) + 1
           g == [i \in 0 .. n |-> IF i = 0 THEN 1 ELSE i]
<1>1. n \in Nat \ {0}
  OBVIOUS
<1>2. w \in [0 .. n -> BOOLEAN] /\ v \in [0 .. n -> BOOLEAN]
  BY WordIs
<1>3. g \in [0 .. n -> 0 .. n] /\ \A i, j \in 0 .. n : i < j => g[i] <= g[j]
  BY <1>1
<1>4. v[0] = w[1] /\ w[0] = p.button /\ w[1] = p.held
  BY WordIs
<1>5. \A i \in 1 .. n : v[i] = w[i]
  <2> SUFFICES ASSUME NEW i \in 1 .. n
               PROVE  v[i] = w[i]
    OBVIOUS
  <2>1. CASE i = 1
    BY <2>1, WordIs
  <2>2. CASE i \in 2 .. n
    BY <2>2, WordIs
  <2> QED
    BY <1>1, <2>1, <2>2
<1>6. \A i \in 0 .. n : v[i] = w[g[i]]
  BY <1>1, <1>4, <1>5
<1> HIDE DEF n, g
<1>7. Keeps(w, v)
  BY <1>1, <1>2, <1>3, <1>6, Thinned, ZenonT(60)
<1> QED
  BY <1>1, <1>2, <1>4, <1>5, <1>7, Edges

\* What a sequence becomes with one more value.
Grows(w, v, b) ==
  /\ All(w, b) => All(v, b)
  /\ b = FALSE => /\ Down(w) => Down(v)
                  /\ All(w, TRUE) => Down(v)
                  /\ DownUpDown(w) => DownUpDown(v)
  /\ b = TRUE => /\ Up(w) => Up(v)
                 /\ Down(w) => DownUpDown(v)
                 /\ DownUp(w) => DownUp(v)

\* A frame that the bot sends is a letter at the end of its word.
LEMMA WordGrows ==
  ASSUME NEW p \in Player, NEW frames \in Seq(BOOLEAN), NEW b \in BOOLEAN
  PROVE  Grows(Word(p, frames), Word(p, Append(frames, b)), b)
<1> DEFINE n == Len(frames) + 1
           w == Word(p, frames)
           v == Word(p, Append(frames, b))
<1>1. /\ n \in Nat /\ Append(frames, b) \in Seq(BOOLEAN) /\ Len(Append(frames, b)) = n
      /\ \A i \in 1 .. Len(frames) : Append(frames, b)[i] = frames[i]
      /\ Append(frames, b)[n] = b
  OBVIOUS
<1>2. /\ w \in [0 .. n -> BOOLEAN] /\ w[0] = p.button /\ w[1] = p.held
      /\ \A i \in 2 .. n : w[i] = frames[i - 1]
  BY WordIs
<1>5. /\ v \in [0 .. n + 1 -> BOOLEAN] /\ v[0] = p.button /\ v[1] = p.held
      /\ \A i \in 2 .. n + 1 : v[i] = Append(frames, b)[i - 1]
  BY <1>1, WordIs
<1> HIDE DEF w, v
<1>3. v[n + 1] = b
  BY <1>1, <1>5
<1>4. \A i \in 0 .. n : v[i] = w[i]
  <2> SUFFICES ASSUME NEW i \in 0 .. n
               PROVE  v[i] = w[i]
    OBVIOUS
  <2>1. CASE i = 0 \/ i = 1
    BY <1>2, <1>5, <2>1
  <2>2. CASE i \in 2 .. n
    <3>1. w[i] = frames[i - 1] /\ v[i] = Append(frames, b)[i - 1]
      BY <1>1, <1>2, <1>5, <2>2
    <3> QED
      BY <1>1, <2>2, <3>1
  <2> QED
    BY <1>1, <2>1, <2>2
<1>6. n \in Nat /\ w \in [0 .. n -> BOOLEAN] /\ v \in [0 .. n + 1 -> BOOLEAN]
  BY <1>1, <1>2, <1>5
<1> HIDE DEF n
<1>7. Grows(w, v, b)
  BY <1>3, <1>4, <1>6, Extended DEF Grows
<1> QED
  BY <1>7 DEF w, v

\* What the bot receives, and what the server sends it.
LEMMA SightReceives ==
  ASSUME NEW scene \in Scene, NEW scenes \in Seq(Scene), scenes # <<>>,
         NEW w, w = Sight(scene, scenes), NEW v, v = Sight(Head(scenes), Tail(scenes))
  PROVE  Keeps(w, v) /\ v[Len(Tail(scenes))] = w[Len(scenes)]
<1> DEFINE n == Len(scenes)
           m == Len(Tail(scenes))
           g == [i \in 0 .. m |-> i + 1]
<1>1. /\ n \in Nat /\ m \in Nat /\ m + 1 = n /\ Tail(scenes) \in Seq(Scene)
      /\ \A i \in 1 .. m : Tail(scenes)[i] = scenes[i + 1]
      /\ Head(scenes) = scenes[1] /\ Head(scenes) \in Scene
  OBVIOUS
<1>2. w \in [0 .. n -> BOOLEAN] /\ v \in [0 .. m -> BOOLEAN]
  BY <1>1, SightIs
<1>3. g \in [0 .. m -> 0 .. n] /\ \A i, j \in 0 .. m : i < j => g[i] <= g[j]
  BY <1>1
<1>4. \A i \in 0 .. m : v[i] = w[i + 1]
  <2> SUFFICES ASSUME NEW i \in 0 .. m
               PROVE  v[i] = w[i + 1]
    OBVIOUS
  <2>1. w[i + 1] = scenes[i + 1].carries
    BY <1>1, SightIs
  <2>2. CASE i = 0
    BY <1>1, <2>1, <2>2, SightIs
  <2>3. CASE i \in 1 .. m
    <3>1. v[i] = Tail(scenes)[i].carries
      BY <1>1, <2>3, SightIs
    <3> QED
      BY <1>1, <2>1, <2>3, <3>1
  <2> QED
    BY <1>1, <2>2, <2>3
<1>5. \A i \in 0 .. m : v[i] = w[g[i]]
  BY <1>4
<1>6. v[m] = w[n]
  BY <1>1, <1>4
<1>7. n \in Nat /\ m \in Nat
  BY <1>1
<1> HIDE DEF n, m, g
<1>8. Keeps(w, v)
  BY <1>2, <1>3, <1>5, <1>7, Thinned, ZenonT(60)
<1> QED
  BY <1>6, <1>8 DEF n, m

\* So is a scene that the server sends.
LEMMA SightGrows ==
  ASSUME NEW scene \in Scene, NEW scenes \in Seq(Scene), NEW next \in Scene,
         NEW w, w = Sight(scene, scenes), NEW v, v = Sight(scene, Append(scenes, next))
  PROVE  Grows(w, v, next.carries) /\ v[Len(Append(scenes, next))] = next.carries
<1> DEFINE n == Len(scenes)
<1>1. /\ n \in Nat /\ Append(scenes, next) \in Seq(Scene) /\ Len(Append(scenes, next)) = n + 1
      /\ \A i \in 1 .. n : Append(scenes, next)[i] = scenes[i]
      /\ Append(scenes, next)[n + 1] = next
  OBVIOUS
<1>2. w \in [0 .. n -> BOOLEAN] /\ v \in [0 .. n + 1 -> BOOLEAN]
  BY <1>1, SightIs
<1>8. \A i \in 1 .. n + 1 : v[i] = Append(scenes, next)[i].carries
  BY <1>1, SightIs
<1>3. v[n + 1] = next.carries
  BY <1>1, <1>8
<1>5. next.carries \in BOOLEAN
  BY DEF Scene
<1>4. \A i \in 0 .. n : v[i] = w[i]
  <2> SUFFICES ASSUME NEW i \in 0 .. n
               PROVE  v[i] = w[i]
    OBVIOUS
  <2>1. CASE i = 0
    BY <1>1, <2>1, SightIs
  <2>2. CASE i \in 1 .. n
    <3>1. w[i] = scenes[i].carries /\ v[i] = Append(scenes, next)[i].carries
      BY <1>1, <2>2, SightIs
    <3> QED
      BY <1>1, <2>2, <3>1
  <2> QED
    BY <1>1, <2>1, <2>2
<1>6. n \in Nat
  BY <1>1
<1>7. Grows(w, v, next.carries)
  <2>1. PICK b \in BOOLEAN : b = next.carries
    BY <1>5
  <2> HIDE DEF n
  <2>2. Grows(w, v, b)
    BY <1>2, <1>3, <1>4, <1>6, <2>1, Extended, SMTT(60) DEF Grows
  <2> QED
    BY <2>1, <2>2
<1> QED
  BY <1>1, <1>3, <1>7

\* The scenes the bot has or will have.
Scenes(scene, scenes) == {scene} \cup {scenes[i] : i \in DOMAIN scenes}

\* The invariant while the bot's player p is alive, by the phase the bot is in: w are the
\* buttons, h the hands in the scenes S, the newest at n.
AtRest(p, w, h) == p.carried = FALSE /\ All(h, FALSE) /\ Down(w)
PickingUp(p, w, h, n, S) ==
  /\ p.charging = FALSE /\ Up(h) /\ (h[n] = TRUE => p.carried = TRUE)
  /\ \A s \in S : s.ticks = 0
  /\ p.carried = TRUE => Down(w) /\ (p.ready = TRUE => All(w, FALSE))
  /\ p.carried = FALSE => DownUpDown(w)
Charging(p, w, h, S) ==
  /\ p.carried = TRUE /\ All(h, TRUE) /\ DownUp(w)
  /\ \A s \in S : s.ticks <= p.ticks
  /\ p.ready = TRUE => Up(w) /\ p.charging = FALSE
  /\ p.charging = TRUE => All(w, TRUE)
LettingGo(p, w, h, n) ==
  /\ Down(w) /\ Down(h) /\ (h[n] = FALSE => p.carried = FALSE)
  /\ p.carried = TRUE => p.charging = TRUE /\ p.ticks >= ThrowTicks
  /\ p.carried = FALSE => All(w, FALSE)

\* Only what is carried is charged, and only while it charges are ticks counted.
Hands(p, S) ==
  /\ p.charging = TRUE => p.carried = TRUE
  /\ p.ticks > 0 => p.charging = TRUE
  /\ \A s \in S : s.ticks > 0 => s.carries = TRUE

\* 5 stands for a bot that has given up a pick-up before its answer.
InPhase(phase, p, w, h, n, S) ==
  /\ Hands(p, S)
  /\ phase = 0 => AtRest(p, w, h)
  /\ phase = 1 => PickingUp(p, w, h, n, S)
  /\ phase = 3 => Charging(p, w, h, S)
  /\ phase = 4 => LettingGo(p, w, h, n)

Pressing == Word(tServer, tFrames)
Holding == Sight(tScene, tScenes)

Known == IF tLate THEN 5 ELSE tPhase

DecisionInvariant ==
  /\ DecisionTypes
  /\ tThrown # -1 => tThrown >= ThrowTicks
  /\ tServer.alive = TRUE =>
       InPhase(Known, tServer, Pressing, Holding, Len(tScenes), Scenes(tScene, tScenes))

\* What the ends of a sequence say of its other values.
LEMMA EndsTell ==
  ASSUME NEW n \in Nat, NEW h \in [0 .. n -> BOOLEAN]
  PROVE  /\ Up(h) /\ h[0] = TRUE => All(h, TRUE)
         /\ Up(h) /\ h[n] = FALSE => All(h, FALSE)
         /\ Down(h) /\ h[0] = FALSE => All(h, FALSE)
         /\ Down(h) /\ h[n] = TRUE => All(h, TRUE)
         /\ \A b \in BOOLEAN : All(h, b) => h[0] = b /\ h[n] = b
<1>0. /\ DOMAIN h = 0 .. n /\ 0 \in 0 .. n /\ n \in 0 .. n
      /\ \A i \in 0 .. n : (0 = i \/ 0 < i) /\ (i = n \/ i < n) /\ h[i] \in BOOLEAN
  OBVIOUS
<1> QED
  BY <1>0 DEF Up, Down, All

\* The hands and the scenes are the same.
LEMMA HandsOf ==
  ASSUME NEW scene \in Scene, NEW scenes \in Seq(Scene)
  PROVE  /\ Scenes(scene, scenes) \in SUBSET Scene
         /\ \A b \in BOOLEAN : All(Sight(scene, scenes), b) =>
              \A s \in Scenes(scene, scenes) : s.carries = b
<1>1. /\ DOMAIN scenes = 1 .. Len(scenes) /\ Len(scenes) \in Nat
      /\ \A i \in 1 .. Len(scenes) : scenes[i] \in Scene
  OBVIOUS
<1>2. Scenes(scene, scenes) \in SUBSET Scene
  BY <1>1 DEF Scenes
<1>3. ASSUME NEW b \in BOOLEAN, All(Sight(scene, scenes), b), NEW s \in Scenes(scene, scenes)
      PROVE  s.carries = b
  <2>1. \A i \in 0 .. Len(scenes) : Sight(scene, scenes)[i] = b
    BY <1>3, SightIs DEF All
  <2>2. CASE s = scene
    BY <1>1, <2>1, <2>2, SightIs
  <2>3. ASSUME NEW i \in 1 .. Len(scenes), s = scenes[i]
        PROVE  s.carries = b
    BY <1>1, <2>1, <2>3, SightIs
  <2> QED
    BY <1>1, <1>3, <2>2, <2>3 DEF Scenes
<1> QED
  BY <1>2, <1>3

\* A tick makes q of p, while the bot's words to come are frames.
Ticks(p, q, reach, frames, phase) ==
  /\ p \in Player /\ q \in Player /\ reach \in BOOLEAN /\ q = Charged(Applied(p, reach))
  /\ frames \in Seq(BOOLEAN) /\ phase \in {0, 1, 3, 4, 5}

\* What the bot sees and is going to see.
Watched(n, h, S) == n \in Nat /\ h \in [0 .. n -> BOOLEAN] /\ S \in SUBSET Scene

\* A tick of a living player keeps the invariant, and what it throws was charged.
LEMMA TickLives ==
  ASSUME NEW p, NEW q, NEW reach, NEW frames, NEW phase, Ticks(p, q, reach, frames, phase),
         NEW n, NEW h, NEW S, Watched(n, h, S), InPhase(phase, p, Word(p, frames), h, n, S)
  PROVE  /\ InPhase(phase, q, Word(q, frames), h, n, S)
         /\ phase # 5 /\ p.carried = TRUE /\ q.carried = FALSE => p.ticks >= ThrowTicks
<1> DEFINE w == Word(p, frames)
           v == Word(q, frames)
           Rising == p.held = TRUE /\ p.button = FALSE
           Sinking == p.held = FALSE /\ p.button = TRUE
<1>0. /\ p \in Player /\ q \in Player /\ reach \in BOOLEAN /\ q = Charged(Applied(p, reach))
      /\ frames \in Seq(BOOLEAN) /\ phase \in {0, 1, 3, 4, 5}
      /\ n \in Nat /\ h \in [0 .. n -> BOOLEAN] /\ S \in SUBSET Scene
  BY DEF Ticks, Watched
<1>1. /\ q.button = p.held /\ q.held = p.held
      /\ \/ /\ Rising /\ p.carried = FALSE /\ q.carried = TRUE
            /\ q.ready = FALSE /\ q.charging = FALSE /\ q.ticks = 0
         \/ /\ Rising /\ p.carried = TRUE /\ p.ready = TRUE
            /\ q.carried = TRUE /\ q.ready = FALSE /\ q.charging = TRUE
         \/ /\ Sinking /\ p.carried = TRUE /\ p.charging = TRUE
            /\ q.carried = FALSE /\ q.ready = FALSE /\ q.charging = FALSE /\ q.ticks = 0
         \/ /\ Sinking /\ p.carried = TRUE /\ p.charging = FALSE
            /\ q.carried = TRUE /\ q.ready = TRUE /\ q.charging = FALSE /\ q.ticks = p.ticks
         \/ /\ q.carried = p.carried /\ q.ready = p.ready /\ q.charging = p.charging
            /\ q.ticks >= p.ticks
            /\ q.ticks > p.ticks => p.carried = TRUE /\ p.charging = TRUE
  <2>1. p \in Player /\ reach \in BOOLEAN /\ q = Charged(Applied(p, reach))
    BY <1>0
  <2>2. TickOf(p, q)
    BY <2>1, AppliedIs
  <2> QED
    BY <2>2, Zenon DEF TickOf
<1>2. /\ Keeps(w, v)
      /\ Rising => ~Down(w) /\ (DownUpDown(w) => Down(v)) /\ (Up(w) => All(v, TRUE))
      /\ Sinking => ~All(w, TRUE) /\ (Down(w) => All(v, FALSE)) /\ (DownUp(w) => Up(v))
  BY <1>0, <1>1, WordTicks
<1>3. /\ p.ticks \in Nat /\ q.ticks \in Nat /\ ThrowTicks \in Nat
      /\ TRUE \in BOOLEAN /\ FALSE \in BOOLEAN
      /\ p.carried \in BOOLEAN /\ p.ready \in BOOLEAN /\ p.charging \in BOOLEAN
      /\ q.carried \in BOOLEAN /\ q.ready \in BOOLEAN /\ q.charging \in BOOLEAN
      /\ \A s \in S : s.ticks \in Nat /\ s.carries \in BOOLEAN
  BY <1>0, DecisionAssumption DEF Player, Scene
<1>4. v \in [0 .. Len(frames) + 1 -> BOOLEAN] /\ Len(frames) + 1 \in Nat
  BY <1>0, WordIs
<1>5. /\ All(v, FALSE) => Up(v) /\ Down(v)
      /\ All(v, TRUE) => Up(v) /\ DownUp(v)
      /\ Down(v) => DownUp(v)
  BY <1>4, Patterns
<1>6. InPhase(phase, p, w, h, n, S)
  OBVIOUS
<1> HIDE DEF w, v, Rising, Sinking
<1>7. Hands(q, S)
  BY <1>0, <1>1, <1>3, <1>6 DEF InPhase, Hands
<1>8. CASE phase = 0
  <2>1. p.carried = FALSE /\ All(h, FALSE) /\ Down(w) /\ Down(v)
    BY <1>2, <1>6, <1>8 DEF InPhase, AtRest, Keeps, w
  <2>2. q.carried = FALSE
    BY <1>1, <1>2, <2>1
  <2>3. AtRest(q, v, h)
    BY <2>1, <2>2 DEF AtRest
  <2> QED
    BY <1>7, <1>8, <2>1, <2>3 DEF InPhase, v
<1>9. CASE phase = 1
  <2>1. PickingUp(p, w, h, n, S)
    BY <1>6, <1>9 DEF InPhase, w
  <2>2. /\ q.charging = FALSE /\ (p.carried = TRUE => q.carried = TRUE)
        /\ q.carried = TRUE => Down(v)
    BY <1>0, <1>1, <1>2, <1>3, <2>1 DEF PickingUp, Keeps
  <2>3. q.carried = TRUE /\ q.ready = TRUE => All(v, FALSE)
    BY <1>0, <1>1, <1>2, <1>3, <2>1 DEF PickingUp, Keeps
  <2>4. q.carried = FALSE => DownUpDown(v)
    BY <1>0, <1>1, <1>2, <1>3, <2>1 DEF PickingUp, Keeps
  <2>5. PickingUp(q, v, h, n, S)
    BY <2>1, <2>2, <2>3, <2>4 DEF PickingUp
  <2> QED
    BY <1>7, <1>9, <2>2, <2>5 DEF InPhase, v
<1>10. CASE phase = 3
  BY <1>0, <1>1, <1>2, <1>3, <1>5, <1>6, <1>7, <1>10, SMTT(60) DEF InPhase, Charging, Hands, Keeps, w, v
<1>11. CASE phase = 4
  <2>1. LettingGo(p, w, h, n)
    BY <1>6, <1>11 DEF InPhase, w
  <2>2. ~Rising /\ Down(v) /\ (p.carried = TRUE => p.charging = TRUE /\ p.ticks >= ThrowTicks)
    BY <1>2, <2>1 DEF LettingGo, Keeps
  <2>3. \/ q.carried = FALSE /\ All(v, FALSE)
        \/ /\ q.carried = TRUE /\ p.carried = TRUE /\ q.charging = TRUE
           /\ q.ticks >= ThrowTicks
    <3>1. (Sinking => All(v, FALSE)) /\ (p.carried = FALSE => All(v, FALSE))
      BY <1>2, <1>3, <2>1 DEF LettingGo, Keeps
    <3>2. \/ Sinking /\ q.carried = FALSE
          \/ Sinking /\ p.carried = TRUE /\ p.charging = FALSE
          \/ q.carried = p.carried /\ q.charging = p.charging /\ q.ticks >= p.ticks
      BY <1>1, <2>2
    <3>3. p.ticks >= ThrowTicks /\ q.ticks >= p.ticks => q.ticks >= ThrowTicks
      BY <1>3
    <3>4. (p.carried = TRUE \/ p.carried = FALSE) /\ TRUE # FALSE
      BY <1>3
    <3> QED
      BY <2>2, <3>1, <3>2, <3>3, <3>4, Zenon
  <2>4. LettingGo(q, v, h, n)
    BY <1>3, <2>1, <2>2, <2>3 DEF LettingGo
  <2> QED
    BY <1>7, <1>11, <2>2, <2>4 DEF InPhase, v
<1>12. CASE phase = 5
  BY <1>7, <1>12 DEF InPhase, v
<1> QED
  BY <1>0, <1>8, <1>9, <1>10, <1>11, <1>12

\* The scene of a tick keeps the invariant.
LEMMA SceneLives ==
  ASSUME NEW phase \in {0, 1, 3, 4, 5}, NEW p \in Player, NEW w,
         NEW scene \in Scene, NEW scenes \in Seq(Scene), NEW next \in Scene,
         next.carries = p.carried, next.ticks = p.ticks,
         InPhase(phase, p, w, Sight(scene, scenes), Len(scenes), Scenes(scene, scenes))
  PROVE  InPhase(phase, p, w, Sight(scene, Append(scenes, next)), Len(Append(scenes, next)),
                Scenes(scene, Append(scenes, next)))
<1> DEFINE h == Sight(scene, scenes)
           v == Sight(scene, Append(scenes, next))
           n == Len(scenes)
           m == Len(Append(scenes, next))
           S == Scenes(scene, scenes)
           T == Scenes(scene, Append(scenes, next))
<1>1. n \in Nat /\ h \in [0 .. n -> BOOLEAN] /\ S \in SUBSET Scene
  BY SightIs, HandsOf
<1>2. \A s \in T : s \in S \/ s = next
  <2>1. /\ Append(scenes, next) \in Seq(Scene) /\ Len(Append(scenes, next)) = n + 1
        /\ DOMAIN Append(scenes, next) = 1 .. n + 1 /\ DOMAIN scenes = 1 .. n
        /\ \A i \in 1 .. n : Append(scenes, next)[i] = scenes[i]
        /\ Append(scenes, next)[n + 1] = next
        /\ \A i \in 1 .. n + 1 : i \in 1 .. n \/ i = n + 1
    OBVIOUS
  <2> QED
    BY <2>1 DEF Scenes
<1>3. PICK b \in BOOLEAN : b = p.carried
  BY DEF Player
<1>4. Grows(h, v, b) /\ v[m] = b
  BY <1>3, SightGrows
<1>5. /\ p.ticks \in Nat /\ next.ticks \in Nat
      /\ p.charging \in BOOLEAN /\ p.carried \in BOOLEAN /\ next.carries \in BOOLEAN
  BY DEF Player, Scene
<1>6. /\ Up(h) /\ h[n] = FALSE => All(h, FALSE)
      /\ Down(h) /\ h[n] = TRUE => All(h, TRUE)
      /\ h[n] \in BOOLEAN
  <2>1. n \in Nat /\ h \in [0 .. n -> BOOLEAN]
    BY <1>1
  <2> HIDE DEF h, n
  <2> QED
    BY <2>1, EndsTell, SMTT(30)
<1>7. InPhase(phase, p, w, h, n, S)
  OBVIOUS
<1>8. v \in [0 .. m -> BOOLEAN] /\ m \in Nat
  BY SightIs
<1>9. All(v, FALSE) => Up(v)
  BY <1>8, Patterns
<1> HIDE DEF h, v, n, m, S, T
<1>10. Hands(p, T)
  BY <1>2, <1>5, <1>7 DEF InPhase, Hands
<1>11. CASE phase = 0
  <2>1. AtRest(p, w, h)
    BY <1>7, <1>11 DEF InPhase
  <2>2. AtRest(p, w, v)
    BY <1>3, <1>4, <2>1 DEF AtRest, Grows
  <2> QED
    BY <1>10, <1>11, <2>2 DEF InPhase, v, m, T
<1>12. CASE phase = 1
  <2>1. PickingUp(p, w, h, n, S)
    BY <1>7, <1>12 DEF InPhase
  <2>2. Up(v)
    <3>1. CASE b = TRUE
      BY <1>4, <2>1, <3>1 DEF PickingUp, Grows
    <3>2. CASE b = FALSE
      BY <1>3, <1>4, <1>6, <1>9, <2>1, <3>2 DEF PickingUp, Grows
    <3> QED
      BY <3>1, <3>2
  <2>3. p.ticks = 0
    BY <1>5, <1>10, <2>1 DEF PickingUp, Hands
  <2>4. PickingUp(p, w, v, m, T)
    BY <1>2, <1>3, <1>4, <2>1, <2>2, <2>3 DEF PickingUp
  <2> QED
    BY <1>10, <1>12, <2>4 DEF InPhase, v, m, T
<1>13. CASE phase = 3
  <2>1. Charging(p, w, h, S)
    BY <1>7, <1>13 DEF InPhase
  <2>4. b = TRUE /\ All(v, TRUE)
    BY <1>3, <1>4, <2>1 DEF Charging, Grows
  <2>2. All(v, TRUE) /\ \A s \in T : s.ticks <= p.ticks
    <3>1. \A s \in S : s.ticks <= p.ticks
      BY <2>1 DEF Charging
    <3>2. next.ticks <= p.ticks
      BY <1>5
    <3>3. \A s \in T : s.ticks <= p.ticks
      BY <1>2, <3>1, <3>2
    <3> QED
      BY <2>4, <3>3
  <2>3. Charging(p, w, v, T)
    BY <2>1, <2>2 DEF Charging
  <2> QED
    BY <1>10, <1>13, <2>3 DEF InPhase, v, m, T
<1>14. CASE phase = 4
  <2>1. LettingGo(p, w, h, n)
    BY <1>7, <1>14 DEF InPhase
  <2>2. Down(v)
    <3>1. CASE b = FALSE
      BY <1>4, <2>1, <3>1 DEF LettingGo, Grows
    <3>2. CASE b = TRUE
      <4>1. All(h, TRUE)
        BY <1>3, <1>6, <2>1, <3>2 DEF LettingGo
      <4>2. All(v, TRUE)
        BY <1>4, <3>2, <4>1 DEF Grows
      <4> QED
        BY <4>2 DEF Down, All
    <3> QED
      BY <3>1, <3>2
  <2>3. LettingGo(p, w, v, m)
    BY <1>3, <1>4, <2>1, <2>2 DEF LettingGo
  <2> QED
    BY <1>10, <1>14, <2>3 DEF InPhase, v, m, T
<1>15. CASE phase = 5
  BY <1>10, <1>15 DEF InPhase, v, m, T
<1> QED
  BY <1>11, <1>12, <1>13, <1>14, <1>15

\* Receiving a scene keeps the invariant.
LEMMA ReceiptLives ==
  ASSUME NEW phase \in {0, 1, 3, 4, 5}, NEW p, NEW w,
         NEW scene \in Scene, NEW scenes \in Seq(Scene), scenes # <<>>,
         InPhase(phase, p, w, Sight(scene, scenes), Len(scenes), Scenes(scene, scenes))
  PROVE  InPhase(phase, p, w, Sight(Head(scenes), Tail(scenes)), Len(Tail(scenes)),
                Scenes(Head(scenes), Tail(scenes)))
<1> DEFINE h == Sight(scene, scenes)
           v == Sight(Head(scenes), Tail(scenes))
           n == Len(scenes)
           m == Len(Tail(scenes))
           S == Scenes(scene, scenes)
           T == Scenes(Head(scenes), Tail(scenes))
<1>1. Keeps(h, v) /\ v[m] = h[n]
  BY SightReceives
<1>2. \A s \in T : s \in S
  <2>1. /\ DOMAIN scenes = 1 .. n /\ n \in Nat /\ 1 \in 1 .. n
        /\ DOMAIN Tail(scenes) = 1 .. n - 1 /\ Head(scenes) = scenes[1]
        /\ \A i \in 1 .. n - 1 : Tail(scenes)[i] = scenes[i + 1] /\ i + 1 \in 1 .. n
    OBVIOUS
  <2> QED
    BY <2>1 DEF Scenes
<1>3. InPhase(phase, p, w, h, n, S)
  OBVIOUS
<1> HIDE DEF h, v, n, m, S, T
<1>4. InPhase(phase, p, w, v, m, T)
  BY <1>1, <1>2, <1>3, Zenon
     DEF InPhase, Hands, AtRest, PickingUp, Charging, LettingGo, Keeps
<1> QED
  BY <1>4 DEF v, m, T

\* So does reading a frame, which changes the buttons only.
LEMMA FrameLives ==
  ASSUME NEW phase \in {0, 1, 3, 4, 5}, NEW p, NEW q, NEW w, NEW v, NEW h, NEW n, NEW S,
         Keeps(w, v), q.carried = p.carried, q.charging = p.charging, q.ready = p.ready,
         q.ticks = p.ticks, InPhase(phase, p, w, h, n, S)
  PROVE  InPhase(phase, q, v, h, n, S)
<1>1. Hands(q, S)
  BY DEF InPhase, Hands
<1>2. phase = 0 => AtRest(q, v, h)
  BY DEF InPhase, AtRest, Keeps
<1>3. phase = 1 => PickingUp(q, v, h, n, S)
  BY DEF InPhase, PickingUp, Keeps
<1>4. phase = 3 => Charging(q, v, h, S)
  BY DEF InPhase, Charging, Keeps
<1>5. phase = 4 => LettingGo(q, v, h, n)
  BY DEF InPhase, LettingGo, Keeps
<1> QED
  BY <1>1, <1>2, <1>3, <1>4, <1>5 DEF InPhase

\* A decision: from one phase, by way of another and perhaps a press, to the next.
Decides(p, frames, scene, scenes, from, phase, press, b, then) ==
  /\ press = TRUE => scene.carries = FALSE /\ phase = 0
  /\ b = TRUE <=> (phase = 3 \/ press = TRUE)
  /\ then = IF phase = 2 THEN 3 ELSE IF press THEN 1 ELSE phase
  /\ \/ scene.carries = TRUE /\ from = 1 /\ phase = 2
     \/ scene.carries = TRUE /\ from = 3 /\ scene.ticks >= ThrowTicks /\ phase = 4
     \/ scene.carries = TRUE /\ from \in {0, 3, 4} /\ phase = from
     \/ scene.carries = FALSE /\ from = 1 /\ phase = 1
     \/ /\ scene.carries = FALSE /\ phase = 0
        /\ frames = <<>> /\ scenes = <<>> /\ p.held = p.button /\ p.carried = FALSE
     \/ scene.carries = FALSE /\ from \in {0, 3, 4} /\ phase = 0

\* The bot's decision keeps the invariant.
LEMMA DecisionLives ==
  ASSUME NEW p \in Player, NEW frames \in Seq(BOOLEAN),
         NEW scene \in Scene, NEW scenes \in Seq(Scene),
         NEW from \in {0, 1, 3, 4, 5}, NEW phase, NEW press \in BOOLEAN, NEW b \in BOOLEAN,
         NEW then, Decides(p, frames, scene, scenes, from, phase, press, b, then),
         InPhase(from, p, Word(p, frames), Sight(scene, scenes), Len(scenes), Scenes(scene, scenes))
  PROVE  /\ then \in {0, 1, 3, 4}
         /\ InPhase(then, p, Word(p, Append(frames, b)), Sight(scene, scenes), Len(scenes),
                   Scenes(scene, scenes))
<1> DEFINE h == Sight(scene, scenes)
           w == Word(p, frames)
           v == Word(p, Append(frames, b))
           n == Len(scenes)
           S == Scenes(scene, scenes)
<1>1. n \in Nat /\ h \in [0 .. n -> BOOLEAN] /\ S \in SUBSET Scene /\ h[0] = scene.carries
      /\ scene \in S
  BY SightIs, HandsOf DEF Scenes
<1>2. \A x \in BOOLEAN : All(h, x) => \A s \in S : s.carries = x
  BY HandsOf
<1>3. Grows(w, v, b)
  BY WordGrows
<1>4. Len(frames) + 1 \in Nat /\ w \in [0 .. Len(frames) + 1 -> BOOLEAN]
      /\ w[0] = p.button /\ w[1] = p.held
  BY WordIs
<1>5. /\ Down(w) => DownUp(w)
      /\ All(w, FALSE) => Up(w) /\ Down(w)
      /\ All(w, TRUE) => Up(w) /\ DownUp(w)
  BY <1>4, Patterns
<1>6. /\ Up(h) /\ h[0] = TRUE => All(h, TRUE)
      /\ Up(h) /\ h[n] = FALSE => All(h, FALSE)
      /\ Down(h) /\ h[0] = FALSE => All(h, FALSE)
      /\ All(h, TRUE) => h[0] = TRUE /\ h[n] = TRUE /\ Up(h) /\ Down(h)
      /\ All(h, FALSE) => h[0] = FALSE /\ h[n] = FALSE /\ Up(h) /\ Down(h)
  <2> HIDE DEF h, n
  <2>1. All(h, TRUE) => Down(h)
    BY <1>1 DEF All, Down
  <2> QED
    BY <1>1, <2>1, EndsTell, Patterns
<1>7. InPhase(from, p, w, h, n, S)
  OBVIOUS
<1>8. Hands(p, S)
  BY <1>7 DEF InPhase
<1>9. /\ p.ticks \in Nat /\ ThrowTicks \in Nat /\ ThrowTicks > 0
      /\ p.carried \in BOOLEAN /\ p.charging \in BOOLEAN /\ p.ready \in BOOLEAN
      /\ \A s \in S : s.ticks \in Nat /\ s.carries \in BOOLEAN
  BY <1>1, DecisionAssumption DEF Player, Scene
<1>17. v = Word(p, Append(frames, b))
  OBVIOUS
<1>18. Len(Append(frames, b)) + 1 \in Nat /\ v \in [0 .. Len(Append(frames, b)) + 1 -> BOOLEAN]
  <2> DEFINE f == Append(frames, b)
  <2>1. f \in Seq(BOOLEAN) /\ Len(f) + 1 \in Nat
    OBVIOUS
  <2> HIDE DEF f
  <2>2. Word(p, f) \in [0 .. Len(f) + 1 -> BOOLEAN]
    BY <2>1, WordIs
  <2> QED
    BY <2>1, <2>2 DEF f
<1> SUFFICES then \in {0, 1, 3, 4} /\ InPhase(then, p, v, h, n, S)
  OBVIOUS
<1> HIDE DEF h, w, v, n, S
<1> USE DEF Decides
<1>10. ASSUME All(h, FALSE), p.carried = FALSE, Down(w), phase = 0
       PROVE  then \in {0, 1, 3, 4} /\ InPhase(then, p, v, h, n, S)
  <2>1. \A s \in S : s.ticks = 0
    <3>1. \A s \in S : s.carries = FALSE
      BY <1>2, <1>10
    <3>2. \A s \in S : ~(s.ticks > 0)
      BY <1>8, <3>1 DEF Hands
    <3> QED
      BY <1>9, <3>2
  <2>4. b = press
    BY <1>10
  <2>2. CASE press = TRUE
    <3>1. then = 1 /\ DownUpDown(v)
      BY <1>3, <1>10, <2>2, <2>4 DEF Grows
    <3>2. p.charging = FALSE
      BY <1>8, <1>9, <1>10 DEF Hands
    <3>3. PickingUp(p, v, h, n, S)
      BY <1>6, <1>10, <2>1, <3>1, <3>2 DEF PickingUp
    <3> QED
      BY <1>8, <3>1, <3>3 DEF InPhase
  <2>3. CASE press = FALSE
    <3>1. then = 0 /\ Down(v)
      BY <1>3, <1>10, <2>3, <2>4 DEF Grows
    <3>2. AtRest(p, v, h)
      BY <1>10, <3>1 DEF AtRest
    <3> QED
      BY <1>8, <3>1, <3>2 DEF InPhase
  <2> QED
    BY <2>2, <2>3
<1>11. CASE scene.carries = TRUE /\ from = 1 /\ phase = 2
  <2>1. PickingUp(p, w, h, n, S) /\ then = 3 /\ b = FALSE
    BY <1>7, <1>11 DEF InPhase
  <2>2. All(h, TRUE) /\ p.carried = TRUE
    BY <1>1, <1>6, <1>11, <2>1 DEF PickingUp
  <2>3. Down(v) /\ (p.ready = TRUE => All(v, FALSE))
    BY <1>3, <2>1, <2>2 DEF PickingUp, Grows
  <2>4. DownUp(v) /\ (All(v, FALSE) => Up(v))
    BY <1>18, <2>3, Patterns
  <2>5. \A s \in S : s.ticks <= p.ticks
    BY <1>9, <2>1 DEF PickingUp
  <2>6. Charging(p, v, h, S)
    BY <2>1, <2>2, <2>3, <2>4, <2>5 DEF Charging, PickingUp
  <2> QED
    BY <1>8, <2>1, <2>6 DEF InPhase
<1>12. CASE scene.carries = TRUE /\ from = 3 /\ scene.ticks >= ThrowTicks /\ phase = 4
  <2>1. Charging(p, w, h, S) /\ then = 4 /\ b = FALSE
    BY <1>7, <1>12 DEF InPhase
  <2>2. p.ticks >= ThrowTicks /\ p.charging = TRUE
    <3>1. scene.ticks <= p.ticks /\ scene.ticks \in Nat
      BY <1>1, <1>9, <2>1 DEF Charging
    <3>2. p.ticks >= ThrowTicks /\ p.ticks > 0
      BY <1>9, <1>12, <3>1
    <3> QED
      BY <1>8, <3>2 DEF Hands
  <2>3. Down(v)
    BY <1>3, <2>1, <2>2 DEF Charging, Grows
  <2>4. LettingGo(p, v, h, n)
    BY <1>6, <2>1, <2>2, <2>3 DEF LettingGo, Charging
  <2> QED
    BY <1>8, <2>1, <2>4 DEF InPhase
<1>13. CASE scene.carries = TRUE /\ from \in {0, 3, 4} /\ phase = from
  <2>1. press = FALSE
    BY <1>13
  <2>2. CASE from = 0
    BY <1>1, <1>6, <1>7, <1>13, <2>2 DEF InPhase, AtRest
  <2>3. CASE from = 3
    <3>1. Charging(p, w, h, S) /\ then = 3 /\ b = TRUE
      BY <1>7, <1>13, <2>1, <2>3 DEF InPhase
    <3>2. Charging(p, v, h, S)
      BY <1>3, <3>1 DEF Charging, Grows
    <3> QED
      BY <1>8, <3>1, <3>2 DEF InPhase
  <2>4. CASE from = 4
    <3>1. LettingGo(p, w, h, n) /\ then = 4 /\ b = FALSE
      BY <1>7, <1>13, <2>1, <2>4 DEF InPhase
    <3>2. LettingGo(p, v, h, n)
      BY <1>3, <3>1 DEF LettingGo, Grows
    <3> QED
      BY <1>8, <3>1, <3>2 DEF InPhase
  <2> QED
    BY <1>13, <2>2, <2>3, <2>4
<1>14. CASE scene.carries = FALSE /\ from = 1 /\ phase = 1
  <2>1. PickingUp(p, w, h, n, S) /\ then = 1 /\ b = FALSE
    BY <1>7, <1>14 DEF InPhase
  <2>2. PickingUp(p, v, h, n, S)
    BY <1>3, <2>1 DEF PickingUp, Grows
  <2> QED
    BY <1>8, <2>1, <2>2 DEF InPhase
<1>15. CASE /\ scene.carries = FALSE /\ phase = 0
            /\ frames = <<>> /\ scenes = <<>> /\ p.held = p.button /\ p.carried = FALSE
  <2>1. n = 0 /\ Len(frames) = 0
    BY <1>15 DEF n
  <2>2. All(h, FALSE)
    BY <1>1, <1>15, <2>1 DEF All
  <2>3. Down(w)
    <3>1. DOMAIN w = 0 .. 1 /\ w[0] = w[1]
      BY <1>4, <1>15, <2>1
    <3> QED
      BY <3>1 DEF Down
  <2> QED
    BY <1>10, <1>15, <2>2, <2>3
<1>16. CASE scene.carries = FALSE /\ from \in {0, 3, 4} /\ phase = 0
  <2>1. CASE from = 0
    BY <1>7, <1>10, <1>16, <2>1 DEF InPhase, AtRest
  <2>2. CASE from = 3
    BY <1>1, <1>6, <1>7, <1>16, <2>2 DEF InPhase, Charging
  <2>3. CASE from = 4
    <3>1. LettingGo(p, w, h, n)
      BY <1>7, <2>3 DEF InPhase
    <3>2. All(h, FALSE) /\ p.carried = FALSE
      BY <1>1, <1>6, <1>16, <3>1 DEF LettingGo
    <3> QED
      BY <1>10, <1>16, <3>1, <3>2 DEF LettingGo
  <2> QED
    BY <1>16, <2>1, <2>2, <2>3
<1> QED
  BY <1>11, <1>12, <1>13, <1>14, <1>15, <1>16

\* A bot's life begins with empty hands.
LEMMA DecisionStart == DecisionInit => DecisionInvariant
<1> SUFFICES ASSUME DecisionInit
             PROVE  DecisionInvariant
  OBVIOUS
<1>0. MostTicks \in Nat /\ ThrowTicks \in 1 .. MostTicks
  BY DecisionAssumption
<1>1. tServer \in Player /\ tScene \in Scene /\ tServer = Grounded /\ tScene.carries = FALSE
  BY <1>0 DEF DecisionInit, Grounded, Player, Scene
<1>2. /\ tServer.carried = FALSE /\ tServer.button = FALSE /\ tServer.held = FALSE
      /\ tServer.ticks = 0
  BY <1>1 DEF Grounded
<1>3. DecisionTypes
  <2>1. MostTicks \in -1 .. MostTicks
    BY <1>0
  <2>2. tFrames \in Seq(BOOLEAN) /\ tScenes \in Seq(Scene) /\ tPhase \in {0, 1, 3, 4}
    BY DEF DecisionInit
  <2>3. tItem \in BOOLEAN /\ tLate \in BOOLEAN /\ tThrown \in -1 .. MostTicks
    BY <2>1 DEF DecisionInit
  <2> QED
    BY <1>1, <2>2, <2>3 DEF DecisionTypes
<1>4. Len(tFrames) = 0 /\ Len(tScenes) = 0
  BY DEF DecisionInit
<1>5. All(Pressing, FALSE) /\ Pressing \in [0 .. 1 -> BOOLEAN]
  <2>1. /\ Pressing \in [0 .. 1 -> BOOLEAN]
        /\ Pressing[0] = tServer.button /\ Pressing[1] = tServer.held
    <3>1. tServer \in Player /\ tFrames \in Seq(BOOLEAN) /\ Len(tFrames) + 1 = 1
      BY <1>3, <1>4 DEF DecisionTypes
    <3> QED
      BY <3>1, WordIs DEF Pressing
  <2> QED
    BY <1>2, <2>1 DEF All
<1>8. All(Holding, FALSE)
  <2>1. Holding \in [0 .. 0 -> BOOLEAN] /\ Holding[0] = tScene.carries
    BY <1>3, <1>4, SightIs DEF Holding, DecisionTypes
  <2> QED
    BY <1>1, <2>1 DEF All
<1>6. Down(Pressing)
  BY <1>5, Patterns
<1>7. AtRest(tServer, Pressing, Holding)
  BY <1>2, <1>6, <1>8 DEF AtRest
<1>9. Hands(tServer, Scenes(tScene, tScenes))
  BY <1>1, <1>2 DEF Hands, Scenes, Grounded, DecisionInit
<1>10. Known = 0
  BY DEF DecisionInit, Known
<1> QED
  BY <1>0, <1>3, <1>7, <1>9, <1>10 DEF DecisionInvariant, InPhase, DecisionInit

\* Every step of the bot and of the server keeps the invariant.
LEMMA DecisionStep == DecisionInvariant /\ [DecisionNext]_tVars => DecisionInvariant'
<1> SUFFICES ASSUME DecisionInvariant, [DecisionNext]_tVars
             PROVE  DecisionInvariant'
  OBVIOUS
<1> DEFINE L == InPhase(Known, tServer, Pressing, Holding, Len(tScenes), Scenes(tScene, tScenes))
<1>0. /\ tPhase \in {0, 1, 3, 4} /\ tFrames \in Seq(BOOLEAN) /\ tScenes \in Seq(Scene)
      /\ tScene \in Scene /\ tServer \in Player /\ tItem \in BOOLEAN
      /\ tLate \in BOOLEAN /\ (tLate = FALSE => Known # 5) /\ Known \in {0, 1, 3, 4, 5}
      /\ tThrown \in -1 .. MostTicks /\ (tThrown # -1 => tThrown >= ThrowTicks)
      /\ tServer.alive = TRUE => L
  BY DEF DecisionInvariant, DecisionTypes, Known
<1>1. CASE UNCHANGED tVars
  BY <1>0, <1>1 DEF tVars, DecisionInvariant, DecisionTypes, Known, Pressing, Holding
<1>2. CASE Decide
  <2>1. PICK phase \in Seen(tPhase, tScene), near \in BOOLEAN :
          LET press == ~tScene.carries /\ tScene.pickup /\ phase = 0 /\ near
          IN /\ tPhase' = IF phase = 2 THEN 3 ELSE IF press THEN 1 ELSE phase
             /\ tFrames' = Append(tFrames, phase = 3 \/ press)
             /\ tLate' = LateAfter(phase)
    BY <1>2 DEF Decide
  <2> DEFINE press == ~tScene.carries /\ tScene.pickup /\ phase = 0 /\ near
             b == phase = 3 \/ press
  <2>2. /\ tPhase' = (IF phase = 2 THEN 3 ELSE IF press THEN 1 ELSE phase)
        /\ tFrames' = Append(tFrames, b) /\ tLate' = LateAfter(phase)
        /\ UNCHANGED <<tScene, tScenes, tServer, tItem, tThrown>>
    BY <1>2, <2>1 DEF Decide
  <2>3. tScene.carries \in BOOLEAN /\ tServer.carried \in BOOLEAN
    BY <1>0 DEF Scene, Player
  <2>4. press \in BOOLEAN /\ b \in BOOLEAN
    OBVIOUS
  <2>5. \/ tScene.carries = TRUE /\ tPhase = 1 /\ phase = 2
        \/ tScene.carries = TRUE /\ tPhase = 3 /\ tScene.ticks >= ThrowTicks /\ phase = 4
        \/ tScene.carries = TRUE /\ tPhase \in {0, 3, 4} /\ phase = tPhase
        \/ tScene.carries = FALSE /\ tPhase = 1 /\ phase = 1
        \/ tScene.carries = FALSE /\ tPhase = 1 /\ phase = 0
        \/ tScene.carries = FALSE /\ tPhase \in {0, 3, 4} /\ phase = 0
    <3>1. CASE tScene.carries = TRUE
      BY <1>0, <3>1 DEF Seen
    <3>2. CASE tScene.carries = FALSE
      <4>1. phase \in IF tPhase = 1 THEN {0, 1} ELSE {0}
        BY <3>2 DEF Seen
      <4> QED
        BY <1>0, <3>2, <4>1
    <3> QED
      BY <2>3, <3>1, <3>2
  <2>6. press = TRUE => tScene.carries = FALSE /\ phase = 0
    BY <2>3
  <2>7. b = TRUE <=> phase = 3 \/ press = TRUE
    OBVIOUS
  <2> HIDE DEF press, b
  <2>8. tPhase' \in {0, 1, 3, 4} /\ tLate' \in BOOLEAN
    BY <1>0, <2>2, <2>4, <2>5 DEF LateAfter
  <2>10. Append(tFrames, b) \in Seq(BOOLEAN)
    BY <1>0, <2>4
  <2>12. CASE tLate' = TRUE
    <3>1. Known' = 5
      BY <2>12 DEF Known
    <3>2. tServer.alive = TRUE =>
            InPhase(5, tServer, Word(tServer, Append(tFrames, b)), Holding, Len(tScenes),
                   Scenes(tScene, tScenes))
      BY <1>0 DEF InPhase
    <3> QED
      BY <1>0, <2>2, <2>8, <2>10, <3>1, <3>2 DEF DecisionInvariant, DecisionTypes, Pressing, Holding
  <2>13. CASE tLate' = FALSE
    <3>1. \/ /\ phase = 0 /\ tScene.carries = FALSE
             /\ tFrames = <<>> /\ tScenes = <<>> /\ tServer.held = tServer.button
             /\ tServer.carried = FALSE
          \/ Known = tPhase /\ ~(tPhase = 1 /\ phase = 0)
      BY <1>0, <2>2, <2>3, <2>13 DEF LateAfter, Agreed, Known
    <3>2. Decides(tServer, tFrames, tScene, tScenes, Known, phase, press, b, tPhase')
      BY <2>2, <2>5, <2>6, <2>7, <3>1 DEF Decides
    <3>3. Known' = tPhase'
      BY <2>13 DEF Known
    <3>4. tServer.alive = TRUE =>
            InPhase(tPhase', tServer, Word(tServer, Append(tFrames, b)), Holding, Len(tScenes),
                   Scenes(tScene, tScenes))
      <4> SUFFICES ASSUME tServer.alive = TRUE
                   PROVE  InPhase(tPhase', tServer, Word(tServer, Append(tFrames, b)), Holding,
                                 Len(tScenes), Scenes(tScene, tScenes))
        OBVIOUS
      <4>1. /\ tServer \in Player /\ tFrames \in Seq(BOOLEAN) /\ tScene \in Scene
            /\ tScenes \in Seq(Scene) /\ Known \in {0, 1, 3, 4, 5}
            /\ InPhase(Known, tServer, Word(tServer, tFrames), Sight(tScene, tScenes),
                      Len(tScenes), Scenes(tScene, tScenes))
        BY <1>0, <2>2 DEF Pressing, Holding
      <4> QED
        BY <2>4, <3>2, <4>1, DecisionLives DEF Holding
    <3> QED
      BY <1>0, <2>2, <2>8, <2>10, <3>3, <3>4 DEF DecisionInvariant, DecisionTypes, Pressing, Holding
  <2> QED
    BY <2>8, <2>12, <2>13
<1>3. CASE BotReceives
  <2>1. /\ tScenes # <<>> /\ tScene' = Head(tScenes) /\ tScenes' = Tail(tScenes)
        /\ UNCHANGED <<tPhase, tFrames, tServer, tItem, tThrown, tLate>>
    BY <1>3 DEF BotReceives
  <2>2. Head(tScenes) \in Scene /\ Tail(tScenes) \in Seq(Scene)
    BY <1>0, <2>1
  <2>3. tServer.alive = TRUE =>
          InPhase(Known, tServer, Pressing, Sight(Head(tScenes), Tail(tScenes)),
                 Len(Tail(tScenes)), Scenes(Head(tScenes), Tail(tScenes)))
    BY <1>0, <2>1, ReceiptLives DEF Holding
  <2> QED
    BY <1>0, <2>1, <2>2, <2>3 DEF DecisionInvariant, DecisionTypes, Known, Pressing, Holding
<1>4. CASE ReadBotFrame
  <2>1. /\ tFrames # <<>> /\ tFrames' = Tail(tFrames)
        /\ tServer' = [tServer EXCEPT !.held = Head(tFrames)]
        /\ UNCHANGED <<tPhase, tScene, tScenes, tItem, tThrown, tLate>>
    BY <1>4 DEF ReadBotFrame
  <2>2. Head(tFrames) \in BOOLEAN /\ Tail(tFrames) \in Seq(BOOLEAN)
    BY <1>0, <2>1
  <2>3. /\ tServer' \in Player /\ tServer'.button = tServer.button
        /\ tServer'.held = Head(tFrames) /\ tServer'.alive = tServer.alive
        /\ tServer'.carried = tServer.carried /\ tServer'.charging = tServer.charging
        /\ tServer'.ready = tServer.ready /\ tServer'.ticks = tServer.ticks
    BY <1>0, <2>1, <2>2 DEF Player
  <2>4. Keeps(Pressing, Word(tServer', Tail(tFrames)))
    BY <1>0, <2>1, <2>3, WordReads DEF Pressing
  <2>5. tServer.alive = TRUE =>
          InPhase(Known, tServer', Word(tServer', Tail(tFrames)), Holding, Len(tScenes),
                 Scenes(tScene, tScenes))
    BY <1>0, <2>3, <2>4, FrameLives
  <2> QED
    BY <1>0, <2>1, <2>2, <2>3, <2>5 DEF DecisionInvariant, DecisionTypes, Known, Pressing, Holding
<1>5. CASE BotTick
  <2>1. PICK reach \in BOOLEAN, news \in BOOLEAN :
          LET p == tServer
              q == IF p.alive THEN Applied(p, reach /\ tItem) ELSE [p EXCEPT !.held = FALSE]
          IN /\ tServer' = Charged(q)
             /\ tItem' = (tItem /\ (q.carried => p.carried))
             /\ tThrown' = IF p.carried /\ ~q.carried THEN (IF tLate THEN -1 ELSE p.ticks)
                           ELSE tThrown
             /\ IF news /\ Len(tScenes) < InFlight THEN tScenes' = Append(tScenes, SceneNow')
                ELSE UNCHANGED tScenes
    BY <1>5 DEF BotTick
  <2> DEFINE near == reach /\ tItem
             q == IF tServer.alive THEN Applied(tServer, near) ELSE [tServer EXCEPT !.held = FALSE]
             then == Charged(q)
  <2>2. /\ tServer' = then
        /\ tThrown' = IF tServer.carried /\ ~q.carried THEN (IF tLate THEN -1 ELSE tServer.ticks)
                     ELSE tThrown
        /\ \/ tScenes' = Append(tScenes, SceneNow')
           \/ tScenes' = tScenes
        /\ tItem' \in BOOLEAN
        /\ UNCHANGED <<tPhase, tScene, tFrames, tLate>>
    BY <1>5, <2>1 DEF BotTick
  <2>3. /\ tServer.alive \in BOOLEAN /\ tServer.carried \in BOOLEAN /\ near \in BOOLEAN
        /\ tServer.ticks \in 0 .. MostTicks
    BY <1>0 DEF Player
  <2>4. CASE tServer.alive = FALSE
    <3>1. then \in Player /\ then.carried = tServer.carried /\ then.alive = FALSE
      BY <1>0, <2>4, FallenTick
    <3>2. q.carried = tServer.carried
      BY <1>0, <2>4 DEF Player
    <3>3. tThrown' = tThrown
      BY <2>2, <2>3, <3>2
    <3> HIDE DEF then, q, near
    <3>4. SceneNow' \in Scene
      BY <2>2, <3>1 DEF SceneNow, Scene, Player
    <3>5. tScenes' \in Seq(Scene)
      BY <1>0, <2>2, <3>4
    <3> QED
      BY <1>0, <2>2, <3>1, <3>3, <3>5 DEF DecisionInvariant, DecisionTypes, Known
  <2>5. CASE tServer.alive = TRUE
    <3>1. then = Charged(Applied(tServer, near))
      BY <2>5
    <3>2. then \in Player /\ then.alive = TRUE
      BY <1>0, <2>3, <2>5, <3>1, AppliedIs DEF TickOf
    <3>3. q.carried = then.carried
      <4>1. q \in Player
        BY <1>0, <2>3, <2>5, AppliedIsPlayer
      <4> QED
        BY <4>1, ChargedIs
    <3>4. /\ InPhase(Known, then, Word(then, tFrames), Holding, Len(tScenes),
                    Scenes(tScene, tScenes))
          /\ Known # 5 /\ tServer.carried = TRUE /\ then.carried = FALSE =>
               tServer.ticks >= ThrowTicks
      <4>2. Scenes(tScene, tScenes) \in SUBSET Scene
        BY <1>0, HandsOf
      <4>3. InPhase(Known, tServer, Word(tServer, tFrames), Holding, Len(tScenes),
                   Scenes(tScene, tScenes))
        BY <1>0, <2>5 DEF Pressing
      <4> HIDE DEF then, near, q
      <4>4. tServer \in Player /\ tFrames \in Seq(BOOLEAN) /\ Known \in {0, 1, 3, 4, 5}
        BY <1>0
      <4>5. Ticks(tServer, then, near, tFrames, Known)
        BY <2>3, <3>1, <3>2, <4>4 DEF Ticks
      <4>1. Watched(Len(tScenes), Holding, Scenes(tScene, tScenes))
        BY <1>0, <4>2, SightIs DEF Holding, Watched
      <4> QED
        BY <4>1, <4>3, <4>5, TickLives, Zenon
    <3> HIDE DEF then, near, q
    <3>5. tThrown' \in -1 .. MostTicks /\ (tThrown' # -1 => tThrown' >= ThrowTicks)
      <4>1. then.carried \in BOOLEAN
        BY <3>2 DEF Player
      <4>2. CASE tServer.carried = TRUE /\ then.carried = FALSE
        <5>1. tThrown' = IF tLate THEN -1 ELSE tServer.ticks
          BY <2>2, <3>3, <4>2
        <5>2. tLate = FALSE => Known # 5
          BY <1>0
        <5>3. tLate = FALSE => tServer.ticks >= ThrowTicks
          BY <3>4, <4>2, <5>2
        <5>4. MostTicks \in Nat
          BY DecisionAssumption
        <5>5. tServer.ticks \in -1 .. MostTicks /\ -1 \in -1 .. MostTicks
          BY <2>3, <5>4
        <5> QED
          BY <1>0, <5>1, <5>3, <5>5
      <4>3. CASE ~(tServer.carried = TRUE /\ then.carried = FALSE)
        <5>1. tThrown' = tThrown
          BY <2>2, <2>3, <3>3, <4>1, <4>3
        <5> QED
          BY <1>0, <5>1
      <4> QED
        BY <4>2, <4>3
    <3>6. SceneNow' \in Scene /\ SceneNow'.carries = then.carried /\ SceneNow'.ticks = then.ticks
      BY <2>2, <3>2 DEF SceneNow, Scene, Player
    <3>7. CASE tScenes' = Append(tScenes, SceneNow')
      <4>1. tScenes' \in Seq(Scene)
        BY <1>0, <3>6, <3>7
      <4>2. InPhase(Known, then, Word(then, tFrames), Sight(tScene, tScenes'), Len(tScenes'),
                   Scenes(tScene, tScenes'))
        BY <1>0, <3>2, <3>4, <3>6, <3>7, SceneLives DEF Holding
      <4> QED
        BY <1>0, <2>2, <3>2, <3>5, <4>1, <4>2
           DEF DecisionInvariant, DecisionTypes, Known, Pressing, Holding
    <3>8. CASE tScenes' = tScenes
      BY <1>0, <2>2, <3>2, <3>4, <3>5, <3>8
         DEF DecisionInvariant, DecisionTypes, Known, Pressing, Holding
    <3> QED
      BY <2>2, <3>7, <3>8
  <2> QED
    BY <2>3, <2>4, <2>5
<1>6. CASE PlayerFalls
  <2>1. /\ tServer' = [tServer EXCEPT !.alive = FALSE]
        /\ UNCHANGED <<tPhase, tScene, tFrames, tScenes, tItem, tThrown, tLate>>
    BY <1>6 DEF PlayerFalls
  <2>2. tServer' \in Player /\ tServer'.alive = FALSE
    BY <1>0, <2>1 DEF Player
  <2> QED
    BY <1>0, <2>1, <2>2 DEF DecisionInvariant, DecisionTypes, Known
<1>7. CASE OthersTake
  <2>1. /\ tItem' = ~tItem
        /\ UNCHANGED <<tPhase, tScene, tFrames, tScenes, tServer, tThrown, tLate>>
    BY <1>7 DEF OthersTake
  <2> QED
    BY <1>0, <2>1 DEF DecisionInvariant, DecisionTypes, Known, Pressing, Holding
<1> QED
  BY <1>1, <1>2, <1>3, <1>4, <1>5, <1>6, <1>7 DEF DecisionNext

\* The directions that a bot turns to.
LEMMA AimIsExact == \A own, bearing \in Bearings :
  LET word == LookWord(bearing, own)
  IN word \in -1800 .. 1800 /\ (TurnedBy(own, word) - bearing) % 360 = 0
<1> SUFFICES ASSUME NEW own \in Bearings, NEW bearing \in Bearings
             PROVE  LET word == LookWord(bearing, own)
                    IN word \in -1800 .. 1800 /\ (TurnedBy(own, word) - bearing) % 360 = 0
  OBVIOUS
<1>1. own \in -180 .. 180 /\ bearing \in -180 .. 180
  <2>1. AngleUnit \in Nat \ {0} /\ 180 % AngleUnit = 0
    BY DecisionAssumption
  <2>2. (180 \div AngleUnit) \in Nat /\ (180 \div AngleUnit) * AngleUnit = 180
    BY <2>1
  <2>3. \A k \in -(180 \div AngleUnit) .. 180 \div AngleUnit : k * AngleUnit \in -180 .. 180
    BY <2>1, <2>2
  <2> QED
    BY <2>3 DEF Bearings
<1> DEFINE turn == bearing - own
           delta == JsRemainder(turn + 540, 360) - 180
<1>2. /\ turn < -180 => delta = turn + 360
      /\ -180 <= turn /\ turn < 180 => delta = turn
      /\ turn >= 180 => delta = turn - 360
  BY <1>1 DEF JsRemainder
<1>3. LookWord(bearing, own) = IF delta * 10 > 1800 THEN 1800
                               ELSE IF delta * 10 < -1800 THEN -1800 ELSE delta * 10
  BY DEF LookWord
<1> HIDE DEF delta
<1>4. delta \in -180 .. 180
  BY <1>1, <1>2, SMTT(60)
<1>5. LookWord(bearing, own) = delta * 10
  BY <1>3, <1>4
<1>6. TurnedBy(own, delta * 10) = IF own + delta > 180 THEN own + delta - 360
                                  ELSE IF own + delta < -180 THEN own + delta + 360 ELSE own + delta
  <2>1. (IF delta * 10 < 0 THEN -((-(delta * 10)) \div 10) ELSE (delta * 10) \div 10) = delta
    BY <1>4
  <2>2. PICK word : word = delta * 10
    OBVIOUS
  <2>3. PICK whole : whole = (IF word < 0 THEN -((-word) \div 10) ELSE word \div 10)
    OBVIOUS
  <2>4. whole = delta
    BY <2>1, <2>2, <2>3
  <2>5. TurnedBy(own, word) = IF own + whole > 180 THEN own + whole - 360
                              ELSE IF own + whole < -180 THEN own + whole + 360
                              ELSE own + whole
    BY <1>1, <1>4, <2>2, <2>3, <2>4 DEF TurnedBy
  <2> QED
    BY <2>2, <2>4, <2>5
<1>7. own + delta \in {bearing, bearing + 360, bearing - 360}
  BY <1>1, <1>2
<1>8. TurnedBy(own, delta * 10) - bearing \in {0, 360, -360}
  BY <1>1, <1>4, <1>6, <1>7
<1>9. delta * 10 \in -1800 .. 1800
  BY <1>4
<1> QED
  BY <1>5, <1>8, <1>9

\* Whatever is late or skipped between the bot and the server, a throw that the bot lets go
\* was charged as long as the bot means to charge it, unless a pick-up was given up before its
\* answer and the two have not agreed since; and its looks face the target: the phases of
\* updateBrowserBattleBot against applyInputFrame and advanceTick.
THEOREM ThrowsAreCharged == DecisionSpec => []ThrowInv
<1>1. DecisionInvariant => ThrowInv
  BY AimIsExact DEF DecisionInvariant, ThrowInv, ThrowIsCharged, AimsAtTarget
<1> QED
  BY <1>1, DecisionStart, DecisionStep, PTL DEF DecisionSpec

-----------------------------------------------------------------------------
(* The library of projects.                                                  *)

\* No two projects of the list have the same id or the same name, and there are not
\* too many of them.
Neat(list) ==
  /\ list \in Seq(Projects) /\ Len(list) <= MaxProjects
  /\ \A j, k \in 1 .. Len(list) :
       list[j].id = list[k].id \/ list[j].name = list[k].name => j = k

\* As many values as places: no value is at two of them.
LEMMA DistinctValues ==
  ASSUME NEW n \in Nat, NEW f, DOMAIN f = 1 .. n, f = [k \in 1 .. n |-> f[k]],
         \A j, k \in 1 .. n : f[j] = f[k] => j = k
  PROVE  Cardinality({f[k] : k \in 1 .. n}) = n
<1> DEFINE T == {f[k] : k \in 1 .. n}
<1>1. f \in [1 .. n -> T]
  OBVIOUS
<1>2. /\ \A t \in T : \E k \in 1 .. n : f[k] = t
      /\ \A j, k \in 1 .. n : f[j] = f[k] => j = k
  OBVIOUS
<1>3. IsFiniteSet(1 .. n) /\ Cardinality(1 .. n) = n
  <2>1. 1 \in Int /\ n \in Int /\ (n = 0 => 1 > n) /\ (n # 0 => ~ (1 > n)) /\ (n - 1) + 1 = n
    OBVIOUS
  <2> QED
    BY <2>1, FS_Interval
<1> HIDE DEF T
<1>4. f \in Surjection(1 .. n, T) /\ f \in Injection(1 .. n, T)
  BY <1>1, <1>2, Zenon DEF Surjection, Injection, IsInjective
<1>5. Cardinality(T) = Cardinality(1 .. n)
  BY <1>3, <1>4, FS_Surjection
<1> QED
  BY <1>3, <1>5 DEF T

\* Such a list is accepted as a library.
LEMMA NeatIsRestorable == ASSUME NEW list, Neat(list) PROVE Restorable(list)
<1> DEFINE n == Len(list)
           ids == [k \in 1 .. n |-> list[k].id]
           names == [k \in 1 .. n |-> list[k].name]
<1>1. n \in Nat /\ DOMAIN list = 1 .. n /\ n <= MaxProjects
  BY LenProperties DEF Neat
<1>2. IdsOf(list) = {ids[k] : k \in 1 .. n} /\ NamesOf(list) = {names[k] : k \in 1 .. n}
  BY <1>1 DEF IdsOf, NamesOf
<1>3. /\ \A j, k \in 1 .. n : ids[j] = ids[k] => j = k
      /\ \A j, k \in 1 .. n : names[j] = names[k] => j = k
  BY DEF Neat
<1>4. /\ DOMAIN ids = 1 .. n /\ ids = [k \in 1 .. n |-> ids[k]]
      /\ DOMAIN names = 1 .. n /\ names = [k \in 1 .. n |-> names[k]]
  OBVIOUS
<1> HIDE DEF ids, names
<1>5. Cardinality({ids[k] : k \in 1 .. n}) = n /\ Cardinality({names[k] : k \in 1 .. n}) = n
  BY <1>1, <1>3, <1>4, DistinctValues
<1> QED
  BY <1>1, <1>2, <1>5 DEF Restorable

\* Some projects of such a list are one.
LEMMA OnlyIsNeat ==
  ASSUME NEW list, Neat(list), NEW S
  PROVE  Neat(Only(list, S)) /\ \A k \in 1 .. Len(Only(list, S)) : Only(list, S)[k] \in S
                             /\ Len(Only(list, S)) <= Len(list)
<1>1. list \in Seq(Projects) /\ Len(list) \in Nat /\ Len(list) <= MaxProjects /\ MaxProjects \in Nat
  BY LenProperties, LibraryAssumption DEF Neat
<1> DEFINE part == Only(list, S)
<1>2. part \in Seq(Projects) /\ Len(part) <= Len(list)
  BY <1>1, OnlyPicks
<1>3. PICK from : Picks(part, from, list, Len(list), S)
  BY <1>1, OnlyPicks
<1> HIDE DEF part
<1>4. Len(part) \in Nat
  BY <1>2, LenProperties
<1>5. /\ \A k \in 1 .. Len(part) : from[k] \in 1 .. Len(list) /\ part[k] = list[from[k]] /\ part[k] \in S
      /\ \A j, k \in 1 .. Len(part) : j < k => from[j] < from[k]
  BY <1>3 DEF Picks
<1>6. ASSUME NEW j \in 1 .. Len(part), NEW k \in 1 .. Len(part),
             part[j].id = part[k].id \/ part[j].name = part[k].name
      PROVE  j = k
  <2>1. from[j] = from[k]
    BY <1>5, <1>6 DEF Neat
  <2>2. ~ (from[j] < from[k]) /\ ~ (from[k] < from[j])
    BY <1>1, <1>5, <2>1
  <2>3. ~ (j < k) /\ ~ (k < j)
    BY <1>5, <2>2
  <2> QED
    BY <1>4, <2>3
<1>7. Len(part) <= MaxProjects
  BY <1>1, <1>2, <1>4
<1> QED
  BY <1>2, <1>5, <1>6, <1>7, Zenon DEF Neat, part

\* A list of one more, with an id and a name of its own.
LEMMA LongerIsNeat ==
  ASSUME NEW list, Neat(list), Len(list) < MaxProjects, NEW p \in Projects,
         p.id \notin IdsOf(list), p.name \notin NamesOf(list)
  PROVE  Neat(Append(list, p))
<1> DEFINE n == Len(list)
           longer == Append(list, p)
<1>1. /\ list \in Seq(Projects) /\ n \in Nat /\ DOMAIN list = 1 .. n
  BY LenProperties DEF Neat
<1>2. /\ longer \in Seq(Projects) /\ Len(longer) = n + 1 /\ longer[n + 1] = p
      /\ \A k \in 1 .. n : longer[k] = list[k]
  BY <1>1, AppendProperties
<1>3. \A k \in 1 .. n : list[k].id # p.id /\ list[k].name # p.name
  BY <1>1 DEF IdsOf, NamesOf
<1>4. n + 1 <= MaxProjects /\ \A k \in 1 .. n + 1 : k = n + 1 \/ k \in 1 .. n
  BY <1>1, LibraryAssumption
<1> HIDE DEF longer, n
<1>5. ASSUME NEW j \in 1 .. n + 1, NEW k \in 1 .. n + 1,
             longer[j].id = longer[k].id \/ longer[j].name = longer[k].name
      PROVE  j = k
  <2>1. CASE j \in 1 .. n /\ k \in 1 .. n
    BY <1>2, <1>5, <2>1 DEF Neat, n
  <2>2. CASE j \in 1 .. n /\ k = n + 1
    BY <1>2, <1>3, <1>5, <2>2
  <2>3. CASE j = n + 1 /\ k \in 1 .. n
    BY <1>2, <1>3, <1>5, <2>3
  <2> QED
    BY <1>4, <2>1, <2>2, <2>3
<1> QED
  BY <1>2, <1>4, <1>5, Zenon DEF Neat, longer

\* Two lists that share no id and no name, when there is room for both.
LEMMA JoinIsNeat ==
  ASSUME NEW list, Neat(list), NEW more, Neat(more),
         IdsOf(more) \cap IdsOf(list) = {}, NamesOf(more) \cap NamesOf(list) = {},
         Len(list) + Len(more) <= MaxProjects
  PROVE  /\ Neat(list \o more)
         /\ \A k \in 1 .. Len(list) : k \in 1 .. Len(list \o more) /\ (list \o more)[k] = list[k]
<1> DEFINE m == Len(list)
           n == Len(more)
           both == list \o more
<1>1. /\ list \in Seq(Projects) /\ m \in Nat /\ DOMAIN list = 1 .. m
      /\ more \in Seq(Projects) /\ n \in Nat /\ DOMAIN more = 1 .. n
  BY LenProperties DEF Neat
<1>2. /\ both \in Seq(Projects) /\ Len(both) = m + n
      /\ \A k \in 1 .. m + n : both[k] = IF k <= m THEN list[k] ELSE more[k - m]
  BY <1>1, ConcatProperties
<1>3. \A j \in 1 .. m, k \in 1 .. n : list[j].id # more[k].id /\ list[j].name # more[k].name
  BY <1>1 DEF IdsOf, NamesOf
<1>4. /\ \A k \in 1 .. m + n : (k <= m /\ k \in 1 .. m) \/ (~ (k <= m) /\ k - m \in 1 .. n)
      /\ \A j, k \in 1 .. m + n : j - m = k - m => j = k
  BY <1>1
<1>5. \A k \in 1 .. m : k <= m /\ k \in 1 .. m + n
  BY <1>1
<1>6. m + n <= MaxProjects
  OBVIOUS
<1> HIDE DEF both, m, n
<1>7. ASSUME NEW j \in 1 .. m + n, NEW k \in 1 .. m + n,
             both[j].id = both[k].id \/ both[j].name = both[k].name
      PROVE  j = k
  <2>1. CASE j <= m /\ k <= m
    BY <1>2, <1>4, <1>7, <2>1 DEF Neat, m
  <2>2. CASE j <= m /\ ~ (k <= m)
    BY <1>2, <1>3, <1>4, <1>7, <2>2
  <2>3. CASE ~ (j <= m) /\ k <= m
    BY <1>2, <1>3, <1>4, <1>7, <2>3
  <2>4. CASE ~ (j <= m) /\ ~ (k <= m)
    <3>1. j - m \in 1 .. n /\ k - m \in 1 .. n /\ both[j] = more[j - m] /\ both[k] = more[k - m]
      BY <1>2, <1>4, <2>4
    <3>2. j - m = k - m
      BY <1>7, <3>1 DEF Neat, n
    <3> QED
      BY <1>4, <3>2
  <2> QED
    BY <2>1, <2>2, <2>3, <2>4
<1>8. Neat(both)
  BY <1>2, <1>6, <1>7, Zenon DEF Neat
<1>9. \A k \in 1 .. m : k \in 1 .. Len(both) /\ both[k] = list[k]
  BY <1>2, <1>5
<1> QED
  BY <1>8, <1>9 DEF both, m

\* A project is changed in its place: its document, or its name to a free one.
LEMMA ChangedIsNeat ==
  ASSUME NEW list, Neat(list), NEW k \in DOMAIN list, NEW p \in Projects, p.id = list[k].id,
         \A i \in DOMAIN list \ {k} : list[i].name # p.name
  PROVE  Neat([list EXCEPT ![k] = p])
<1> DEFINE n == Len(list)
           other == [list EXCEPT ![k] = p]
<1>1. /\ list \in Seq(Projects) /\ n \in Nat /\ DOMAIN list = 1 .. n /\ n <= MaxProjects
  BY LenProperties DEF Neat
<1>2. /\ other \in Seq(Projects) /\ Len(other) = n
      /\ \A j \in 1 .. n : other[j] = IF j = k THEN p ELSE list[j]
  BY <1>1, ExceptSeq
<1> HIDE DEF other
<1>3. ASSUME NEW i \in 1 .. n, NEW j \in 1 .. n,
             other[i].id = other[j].id \/ other[i].name = other[j].name
      PROVE  i = j
  <2>1. /\ other[i].id = list[i].id /\ other[j].id = list[j].id
        /\ (i # k /\ j # k) => other[i].name = list[i].name /\ other[j].name = list[j].name
    BY <1>1, <1>2
  <2>2. CASE other[i].id = other[j].id
    BY <2>1, <2>2 DEF Neat
  <2>3. CASE other[i].name = other[j].name /\ i # k /\ j # k
    BY <2>1, <2>3 DEF Neat
  <2>4. CASE other[i].name = other[j].name /\ (i = k \/ j = k)
    BY <1>1, <1>2, <2>4
  <2> QED
    BY <1>3, <2>2, <2>3, <2>4
<1> QED
  BY <1>1, <1>2, <1>3, Zenon DEF Neat, other

\* Every library is neat, and the tab that wrote last shows what is stored.
LibraryInvariant ==
  /\ Neat(pStored) /\ Neat(pBackup)
  /\ DOMAIN pSaved = Tabs /\ \A t \in Tabs : Neat(pSaved[t])
  /\ pSaved = [t \in Tabs |-> pSaved[t]]
  /\ pLast.tab \in Tabs /\ StoredIsShown

LEMMA LibraryStarts == LibraryInit => LibraryInvariant
<1> SUFFICES ASSUME LibraryInit PROVE LibraryInvariant
  OBVIOUS
<1>1. PICK p \in Projects, q \in Projects : pStored = <<p>> /\ pBackup = <<q>>
  BY DEF LibraryInit
<1>2. ASSUME NEW x \in Projects PROVE Neat(<<x>>)
  <2>1. <<x>> \in Seq(Projects) /\ Len(<<x>>) = 1
    OBVIOUS
  <2>2. 1 <= MaxProjects /\ \A k \in 1 .. 1 : k = 1
    BY LibraryAssumption
  <2> QED
    BY <2>1, <2>2 DEF Neat
<1>3. Neat(pStored) /\ Neat(pBackup)
  BY <1>1, <1>2
<1>4. pSaved = [t \in Tabs |-> pStored]
  BY DEF LibraryInit
<1>5. pLast.tab \in Tabs
  BY LibraryAssumption DEF LibraryInit
<1> QED
  BY <1>3, <1>4, <1>5 DEF LibraryInvariant, StoredIsShown

\* A tab that writes a neat list leaves everything in order, whether the storage takes
\* it or not.
LEMMA WritesKeep ==
  ASSUME LibraryInvariant, NEW t \in Tabs, NEW list, Neat(list), NEW imported,
         Writes(t, list, imported)
  PROVE  LibraryInvariant'
<1>1. CASE UNCHANGED pVars
  BY <1>1 DEF pVars, LibraryInvariant, StoredIsShown, Neat
<1>2. CASE /\ pStored' = list /\ pSaved' = [pSaved EXCEPT ![t] = list]
           /\ pLast' = [tab |-> t, imported |-> imported] /\ UNCHANGED pBackup
  <2>1. /\ pStored' = list /\ pSaved' = [pSaved EXCEPT ![t] = list]
        /\ pLast'.tab = t /\ pBackup' = pBackup
    BY <1>2
  <2>2. /\ DOMAIN pSaved' = Tabs /\ pSaved' = [u \in Tabs |-> pSaved'[u]] /\ pSaved'[t] = list
        /\ \A u \in Tabs \ {t} : pSaved'[u] = pSaved[u]
    BY <2>1 DEF LibraryInvariant
  <2>3. \A u \in Tabs : Neat(pSaved'[u])
    BY <2>2 DEF LibraryInvariant
  <2> QED
    BY <2>1, <2>2, <2>3 DEF LibraryInvariant, StoredIsShown, Neat
<1> QED
  BY <1>1, <1>2, Zenon DEF Writes

\* What is written: a list of one more, one that is changed in its place, one of fewer,
\* or one that was joined with a backup.
LEMMA MergedIsNeat ==
  ASSUME NEW list, Neat(list), NEW backup, Neat(backup), Merged(list, backup) # <<>>
  PROVE  /\ Neat(Merged(list, backup))
         /\ ToSet(list) \subseteq ToSet(Merged(list, backup))
<1> DEFINE new == Only(backup, Projects \ ToSet(list))
<1>1. Neat(new)
  BY OnlyIsNeat
<1>2. /\ IdsOf(new) \cap IdsOf(list) = {} /\ NamesOf(new) \cap NamesOf(list) = {}
      /\ Len(list) + Len(new) <= MaxProjects /\ Merged(list, backup) = list \o new
  BY Zenon DEF Merged
<1> HIDE DEF new
<1>3. /\ Neat(list \o new)
      /\ \A k \in 1 .. Len(list) : k \in 1 .. Len(list \o new) /\ (list \o new)[k] = list[k]
  BY <1>1, <1>2, JoinIsNeat
<1>4. DOMAIN list = 1 .. Len(list) /\ DOMAIN (list \o new) = 1 .. Len(list \o new)
  BY <1>3, LenProperties DEF Neat
<1> HIDE DEF Merged
<1>5. ToSet(list) \subseteq ToSet(list \o new)
  BY <1>3, <1>4, Zenon DEF ToSet
<1> QED
  BY <1>2, <1>3, <1>5

LEMMA LibraryStays == LibraryInvariant /\ [LibraryNext]_pVars => LibraryInvariant'
<1> SUFFICES ASSUME LibraryInvariant, [LibraryNext]_pVars PROVE LibraryInvariant'
  OBVIOUS
<1>1. ASSUME UNCHANGED pVars PROVE LibraryInvariant'
  BY <1>1 DEF pVars, LibraryInvariant, StoredIsShown, Neat
<1>2. ASSUME NEW t \in Tabs
      PROVE  /\ Neat(pSaved[t]) /\ pSaved[t] \in Seq(Projects) /\ DOMAIN pSaved[t] = 1 .. Len(pSaved[t])
             /\ \A k \in DOMAIN pSaved[t] : pSaved[t][k] \in Projects
  <2>1. Neat(pSaved[t]) /\ pSaved[t] \in Seq(Projects)
    BY DEF LibraryInvariant, Neat
  <2> QED
    BY <2>1, LenProperties, ElementOfSeq
<1>3. ASSUME NEW t \in Tabs, NEW n \in Names \ NamesOf(pSaved[t]), NEW d \in Docs, NEW id \in FreshKeys,
             Len(pSaved[t]) < MaxProjects,
             Writes(t, Append(pSaved[t], [id |-> id, name |-> n, doc |-> d]), FALSE)
      PROVE  LibraryInvariant'
  <2> DEFINE p == [id |-> id, name |-> n, doc |-> d]
  <2>1. id \in 1 .. MaxKey /\ id \notin IdsOf(pSaved[t])
    BY Zenon DEF FreshKeys
  <2>2. p \in Projects /\ p.id \notin IdsOf(pSaved[t]) /\ p.name \notin NamesOf(pSaved[t])
    BY <2>1 DEF Projects
  <2> HIDE DEF p
  <2>3. Neat(Append(pSaved[t], p))
    BY <1>2, <1>3, <2>2, LongerIsNeat
  <2> QED
    BY <1>3, <2>3, WritesKeep DEF p
<1>4. ASSUME NEW t \in Tabs, SaveAs(t) \/ CopyPicked(t) PROVE LibraryInvariant'
  BY <1>3, <1>4, Zenon DEF SaveAs, CopyPicked
<1>5. ASSUME NEW t \in Tabs, Update(t) PROVE LibraryInvariant'
  <2>1. PICK k \in DOMAIN pSaved[t], d \in Docs : Writes(t, [pSaved[t] EXCEPT ![k].doc = d], FALSE)
    BY <1>5 DEF Update
  <2> DEFINE p == [pSaved[t][k] EXCEPT !.doc = d]
  <2>2. p \in Projects /\ p.id = pSaved[t][k].id /\ p.name = pSaved[t][k].name
    BY <1>2 DEF Projects
  <2>3. [pSaved[t] EXCEPT ![k].doc = d] = [pSaved[t] EXCEPT ![k] = p]
    OBVIOUS
  <2> HIDE DEF p
  <2>4. \A i \in DOMAIN pSaved[t] \ {k} : pSaved[t][i].name # p.name
    BY <1>2, <2>2 DEF Neat
  <2>5. Neat([pSaved[t] EXCEPT ![k] = p])
    BY <1>2, <2>2, <2>4, ChangedIsNeat
  <2> QED
    BY <2>1, <2>3, <2>5, WritesKeep
<1>6. ASSUME NEW t \in Tabs, Rename(t) PROVE LibraryInvariant'
  <2>1. PICK k \in DOMAIN pSaved[t], n \in Names :
          /\ n \notin {pSaved[t][i].name : i \in DOMAIN pSaved[t] \ {k}}
          /\ Writes(t, [pSaved[t] EXCEPT ![k].name = n], FALSE)
    BY <1>6 DEF Rename
  <2> DEFINE p == [pSaved[t][k] EXCEPT !.name = n]
  <2>2. p \in Projects /\ p.id = pSaved[t][k].id /\ p.name = n
    BY <1>2 DEF Projects
  <2>3. [pSaved[t] EXCEPT ![k].name = n] = [pSaved[t] EXCEPT ![k] = p]
    OBVIOUS
  <2> HIDE DEF p
  <2>4. \A i \in DOMAIN pSaved[t] \ {k} : pSaved[t][i].name # p.name
    BY <2>1, <2>2
  <2>5. Neat([pSaved[t] EXCEPT ![k] = p])
    BY <1>2, <2>2, <2>4, ChangedIsNeat
  <2> QED
    BY <2>1, <2>3, <2>5, WritesKeep
<1>7. ASSUME NEW t \in Tabs, Delete(t) PROVE LibraryInvariant'
  BY <1>2, <1>7, OnlyIsNeat, WritesKeep DEF Delete
<1>8. ASSUME NEW t \in Tabs, Export(t) PROVE LibraryInvariant'
  BY <1>2, <1>8 DEF Export, LibraryInvariant, StoredIsShown, Neat
<1>9. ASSUME NEW t \in Tabs, Import(t) PROVE LibraryInvariant'
  <2>1. Neat(Merged(pSaved[t], pBackup))
    BY <1>2, <1>9, MergedIsNeat DEF Import, LibraryInvariant
  <2>2. Writes(t, Merged(pSaved[t], pBackup), TRUE)
    BY <1>9, Zenon DEF Import
  <2> QED
    BY <2>1, <2>2, WritesKeep
<1>10. ASSUME NEW t \in Tabs, Reopen(t) PROVE LibraryInvariant'
  <2>1. /\ pSaved' = [pSaved EXCEPT ![t] = pStored] /\ pLast'.tab = t
        /\ pStored' = pStored /\ pBackup' = pBackup
    BY <1>10 DEF Reopen
  <2>2. /\ DOMAIN pSaved' = Tabs /\ pSaved' = [u \in Tabs |-> pSaved'[u]] /\ pSaved'[t] = pStored
        /\ \A u \in Tabs \ {t} : pSaved'[u] = pSaved[u]
    BY <2>1 DEF LibraryInvariant
  <2>3. \A u \in Tabs : Neat(pSaved'[u])
    BY <2>2 DEF LibraryInvariant
  <2> QED
    BY <2>1, <2>2, <2>3, SMTT(60) DEF LibraryInvariant, StoredIsShown, Neat
<1> QED
  BY <1>1, <1>4, <1>5, <1>6, <1>7, <1>8, <1>9, <1>10, Zenon DEF LibraryNext

\* Whatever tabs write over each other and whichever writes the storage refuses, every
\* library that is stored, shown or was exported can be imported, and the tab that wrote
\* last shows what is stored.
THEOREM LibrariesStayWhole == LibrarySpec => []ProjectsInv
<1>1. LibraryInvariant => ProjectsInv
  BY NeatIsRestorable DEF LibraryInvariant, ProjectsInv, LibraryRestorable
<1>2. LibrarySpec => []LibraryInvariant
  BY LibraryStarts, LibraryStays, PTL DEF LibrarySpec
<1> QED
  BY <1>1, <1>2, PTL

\* An import into any library, of any backup, adds projects to those of its tab: it
\* takes none away and changes none.
THEOREM ImportsAdd == LibrarySpec => ImportPreserves
<1>1. LibraryInvariant /\ [LibraryNext]_pVars =>
        [pLast'.imported /\ pSaved # pSaved'
           => ToSet(pSaved[pLast'.tab]) \subseteq ToSet(pSaved'[pLast'.tab])]_pVars
  <2> SUFFICES ASSUME LibraryInvariant, LibraryNext, pLast'.imported, pSaved # pSaved'
               PROVE  ToSet(pSaved[pLast'.tab]) \subseteq ToSet(pSaved'[pLast'.tab])
    OBVIOUS
  <2>1. ASSUME NEW t \in Tabs, NEW list, Writes(t, list, FALSE) PROVE FALSE
    BY <2>1 DEF Writes, pVars
  <2>2. PICK t \in Tabs : Import(t)
    <3>1. ASSUME NEW t \in Tabs, Export(t) PROVE FALSE
      BY <3>1 DEF Export
    <3>2. ASSUME NEW t \in Tabs, Reopen(t) PROVE FALSE
      BY <3>2 DEF Reopen
    <3> QED
      BY <2>1, <3>1, <3>2, Zenon DEF LibraryNext, SaveAs, Update, Rename, CopyPicked, Delete
  <2>3. Writes(t, Merged(pSaved[t], pBackup), TRUE) /\ Merged(pSaved[t], pBackup) # <<>>
    BY <2>2, Zenon DEF Import
  <2>4. pLast'.tab = t /\ pSaved'[t] = Merged(pSaved[t], pBackup)
    BY <2>3 DEF Writes, pVars, LibraryInvariant
  <2>5. ToSet(pSaved[t]) \subseteq ToSet(Merged(pSaved[t], pBackup))
    BY <2>3, MergedIsNeat DEF LibraryInvariant
  <2> QED
    BY <2>4, <2>5
<1>2. LibrarySpec => []LibraryInvariant
  BY LibraryStarts, LibraryStays, PTL DEF LibrarySpec
<1> QED
  BY <1>1, <1>2, PTL DEF LibrarySpec, ImportPreserves


-----------------------------------------------------------------------------
(* The editor. *)

\* A document made or imported, or edited by one of the first "now" changes.
DocsUpTo(now) ==
  {d \in [nodes : SUBSET KNodes, id : 0 .. now] : d.id = 0 => d.nodes \in Uploads \cup {{1}}}

EditorsUpTo(now) ==
  [doc : DocsUpTo(now), valid : BOOLEAN, undo : Seq(DocsUpTo(now)), redo : Seq(DocsUpTo(now)),
   tool : KTools, sel : KNodes \cup {0}, preview : BOOLEAN]

\* What can be undone is older than the document, the older the farther from it; what
\* can be redone is newer.
InTime(e) ==
  /\ \A k \in 1 .. Len(e.undo) : e.undo[k].id < e.doc.id
  /\ \A j, k \in 1 .. Len(e.undo) : j < k => e.undo[j].id < e.undo[k].id
  /\ \A k \in 1 .. Len(e.redo) : e.doc.id < e.redo[k].id
  /\ \A j, k \in 1 .. Len(e.redo) : j < k => e.redo[k].id < e.redo[j].id

EditorSound(e, now) ==
  /\ e \in EditorsUpTo(now) /\ InTime(e)
  /\ Len(e.undo) <= HistoryCap /\ Len(e.redo) <= HistoryCap

\* Commands, tasks, and what is told of an editor.
Commands ==
  {Cmd(do) : do \in {"get", "apply", "remove", "undo", "redo", "preview"}}
    \cup {CmdOn("tool", t) : t \in KTools} \cup {CmdOn("select", n) : n \in KNodes}
    \cup {CmdOn("update", b) : b \in BOOLEAN}
    \cup {[do |-> "import", chunk |-> k, arg |-> u] : k \in {1, 2}, u \in Uploads}

Tasks == [todo : Seq(Commands) \ {<<>>}, refresh : BOOLEAN]

States ==
  [version : Nat, whole : {TRUE}, canUndo : BOOLEAN, canRedo : BOOLEAN,
   editor : [doc : [nodes : SUBSET KNodes, id : Nat], tool : KTools, sel : KNodes \cup {0},
             preview : BOOLEAN]]

Answers ==
  [seq : Nat, kind : {"document"}, state : States] \cup [seq : Nat, kind : {"rejected", "pending"}]

PageIsSound(pg) ==
  /\ DOMAIN pg = DOMAIN NewPage
  /\ pg.open \in BOOLEAN /\ pg.queue \in Seq(Tasks) /\ pg.seq \in Nat /\ pg.waiting \in Nat
  /\ pg.waiting # 0 <=> pg.queue # <<>>
  /\ ~pg.open => pg.queue = <<>>
  /\ DOMAIN pg.parts = {}
  /\ pg.shown \in States \cup {NoDocument}

\* With the answers d on the way, a page that shows version "shown" will have come to
\* version "accepted".
ComesTo(accepted, shown, d) ==
  \E k \in 0 .. Len(d) :
    /\ k = 0 => shown >= accepted
    /\ k > 0 => d[k].kind = "document"
    /\ \A j \in 1 .. Len(d) : j >= k /\ d[j].kind = "document" => d[j].state.version >= accepted

EditorAgrees ==
  /\ kVersion \in [now : Nat, accepted : Nat] /\ kVersion.accepted <= kVersion.now
  /\ EditorSound(kEditor, kVersion.now)
  /\ kImport \in [owner : KPages \cup {Nobody}, chunks : Seq(Uploads)] /\ Len(kImport.chunks) < 2

PagesAgree ==
  /\ DOMAIN kPage = KPages /\ \A p \in KPages : PageIsSound(kPage[p])
  /\ kDown \in [KPages -> Seq(Answers)]
  /\ kServed = {p \in KPages : kPage[p].open}

DocumentComes ==
  kEditor.valid => \A p \in kServed : ComesTo(kVersion.accepted, kPage[p].shown.version, kDown[p])

EditingAgrees == EditorAgrees /\ PagesAgree /\ DocumentComes


LEMMA EditorNumbers ==
  /\ NodeCap \in Nat \ {0} /\ HistoryCap \in Nat \ {0}
  /\ 1 \in KNodes /\ KNodes \subseteq Nat \ {0} /\ 0 \notin KNodes
  /\ \A u \in Uploads : u \subseteq KNodes /\ u # {}
BY KutterAssumption DEF KNodes

\* The documents of earlier changes are documents of later ones.
LEMMA DocsGrow ==
  ASSUME NEW now \in Nat
  PROVE  /\ DocsUpTo(now) \subseteq DocsUpTo(now + 1)
         /\ \A d \in DocsUpTo(now) : d.id \in Nat /\ d.id <= now /\ d.nodes \subseteq KNodes
         /\ \A nodes \in SUBSET KNodes : [nodes |-> nodes, id |-> now + 1] \in DocsUpTo(now + 1)
BY DEF DocsUpTo

\* All of a list but its end, in the order they have in another.
EndsWhatFollows(push, h) ==
  \E off \in {0, 1} : \A k \in 1 .. Len(push) - 1 : k + off \in 1 .. Len(h) /\ push[k] = h[k + off]

\* A history is pushed a document: it ends with it, after the others in their order.
LEMMA PushedIs ==
  ASSUME NEW S, NEW h \in Seq(S), Len(h) <= HistoryCap, NEW d \in S
  PROVE  /\ Pushed(h, d) \in Seq(S) /\ Len(Pushed(h, d)) <= HistoryCap
         /\ Len(Pushed(h, d)) \in Nat \ {0} /\ Pushed(h, d)[Len(Pushed(h, d))] = d
         /\ EndsWhatFollows(Pushed(h, d), h)
<1>1. Len(h) \in Nat /\ HistoryCap \in Nat \ {0}
  BY LenProperties, EditorNumbers
<1>2. CASE Len(h) >= HistoryCap
  <2>1. h # <<>> /\ Pushed(h, d) = Append(Tail(h), d)
    BY <1>1, <1>2, EmptySeq DEF Pushed
  <2>2. /\ Tail(h) \in Seq(S) /\ Len(Tail(h)) = Len(h) - 1
        /\ \A k \in 1 .. Len(Tail(h)) : Tail(h)[k] = h[k + 1]
    BY <2>1, HeadTailProperties
  <2> DEFINE rest == Tail(h)
  <2> HIDE DEF rest
  <2>3. /\ Append(rest, d) \in Seq(S) /\ Len(Append(rest, d)) = Len(rest) + 1
        /\ \A k \in 1 .. Len(rest) : Append(rest, d)[k] = rest[k]
        /\ Append(rest, d)[Len(rest) + 1] = d
    BY <2>2, AppendProperties DEF rest
  <2>4. Len(rest) = Len(h) - 1 /\ \A k \in 1 .. Len(rest) : k + 1 \in 1 .. Len(h) /\ rest[k] = h[k + 1]
    BY <1>1, <2>2 DEF rest
  <2>5. Pushed(h, d) = Append(rest, d)
    BY <2>1 DEF rest
  <2>6. Len(rest) + 1 <= HistoryCap /\ Len(rest) + 1 \in Nat \ {0} /\ (Len(rest) + 1) - 1 = Len(rest)
    BY <1>1, <1>2, <2>4
  <2>7. \A k \in 1 .. Len(rest) : k + 1 \in 1 .. Len(h) /\ Append(rest, d)[k] = h[k + 1]
    BY <2>3, <2>4
  <2> HIDE DEF Pushed
  <2> QED
    BY <2>3, <2>5, <2>6, <2>7, Zenon DEF EndsWhatFollows
<1>3. CASE ~ (Len(h) >= HistoryCap)
  <2>1. Pushed(h, d) = Append(h, d)
    BY <1>3 DEF Pushed
  <2>2. /\ Append(h, d) \in Seq(S) /\ Len(Append(h, d)) = Len(h) + 1
        /\ \A k \in 1 .. Len(h) : Append(h, d)[k] = h[k]
        /\ Append(h, d)[Len(h) + 1] = d
    BY AppendProperties
  <2>3. Len(h) + 1 <= HistoryCap /\ Len(h) + 1 \in Nat \ {0} /\ (Len(h) + 1) - 1 = Len(h)
    BY <1>1, <1>3
  <2>4. \A k \in 1 .. Len(h) : k + 0 \in 1 .. Len(h) /\ Append(h, d)[k] = h[k + 0]
    BY <1>1, <2>2
  <2> QED
    BY <2>1, <2>2, <2>3, <2>4, Zenon DEF EndsWhatFollows
<1> QED
  BY <1>2, <1>3

\* What is left of a history when its last entry is taken.
LEMMA FrontIs ==
  ASSUME NEW S, NEW h \in Seq(S), h # <<>>
  PROVE  /\ Len(h) \in Nat \ {0} /\ Last(h) = h[Len(h)] /\ Last(h) \in S
         /\ Front(h) \in Seq(S) /\ Len(Front(h)) = Len(h) - 1
         /\ \A k \in 1 .. Len(h) - 1 : Front(h)[k] = h[k] /\ k \in 1 .. Len(h) /\ k < Len(h)
<1>1. Len(h) \in Nat \ {0} /\ Len(h) \in 1 .. Len(h)
  BY EmptySeq
<1>2. Last(h) = h[Len(h)] /\ h[Len(h)] \in S
  BY <1>1, ElementOfSeq DEF Last
<1>3. /\ Front(h) \in Seq(S) /\ Len(Front(h)) = Len(h) - 1
      /\ \A k \in 1 .. Len(h) - 1 : Front(h)[k] = h[k]
  <2> DEFINE n == Len(h)
  <2>1. n \in Nat \ {0} /\ Front(h) = [k \in 1 .. n - 1 |-> h[k]]
    <3>1. SubSeq(h, 1, n - 1) = [k \in 1 .. (n - 1) - 1 + 1 |-> h[1 + k - 1]]
      BY <1>1
    <3>2. (n - 1) - 1 + 1 = n - 1 /\ \A k \in 1 .. n - 1 : 1 + k - 1 = k
      BY <1>1
    <3> QED
      BY <1>1, <3>1, <3>2 DEF Front
  <2>2. \A k \in 1 .. n - 1 : h[k] \in S
    BY <1>1, ElementOfSeq
  <2>3. n - 1 \in Nat /\ Front(h) \in [1 .. n - 1 -> S]
    BY <2>1, <2>2
  <2>4. Front(h) \in Seq(S)
    BY <2>3, SeqOfElements
  <2>5. Len(Front(h)) \in Nat /\ DOMAIN Front(h) = 1 .. Len(Front(h)) /\ DOMAIN Front(h) = 1 .. n - 1
    BY <2>3, <2>4, LenProperties
  <2>6. Len(Front(h)) = n - 1
    BY <2>3, <2>5
  <2> QED
    BY <2>1, <2>4, <2>6
<1> QED
  BY <1>1, <1>2, <1>3

\* The parts of an editor, and what may be changed in it at any time.
LEMMA SoundIs ==
  ASSUME NEW e, NEW now \in Nat, EditorSound(e, now)
  PROVE  /\ e.doc \in DocsUpTo(now) /\ e.valid \in BOOLEAN /\ e.sel \in KNodes \cup {0}
         /\ e.undo \in Seq(DocsUpTo(now)) /\ e.redo \in Seq(DocsUpTo(now)) /\ e.tool \in KTools
         /\ e.preview \in BOOLEAN /\ e.doc.nodes \subseteq KNodes /\ e.doc.id \in Nat /\ e.doc.id <= now
         /\ Len(e.undo) <= HistoryCap /\ Len(e.redo) <= HistoryCap
BY DocsGrow DEF EditorSound, EditorsUpTo

LEMMA SoundAnyway ==
  ASSUME NEW e, NEW now \in Nat, EditorSound(e, now)
  PROVE  /\ \A s \in KNodes \cup {0} : /\ EditorSound([e EXCEPT !.sel = s], now)
                                      /\ [e EXCEPT !.sel = s].doc = e.doc
                                      /\ [e EXCEPT !.sel = s].valid = e.valid
                                      /\ [e EXCEPT !.sel = s].sel = s
         /\ \A t \in KTools : EditorSound([e EXCEPT !.tool = t], now)
         /\ EditorSound([e EXCEPT !.preview = ~e.preview], now)
<1>1. \A s \in KNodes \cup {0} : /\ [e EXCEPT !.sel = s] \in EditorsUpTo(now)
                                /\ [e EXCEPT !.sel = s].doc = e.doc
                                /\ [e EXCEPT !.sel = s].valid = e.valid
                                /\ [e EXCEPT !.sel = s].sel = s
                                /\ [e EXCEPT !.sel = s].undo = e.undo
                                /\ [e EXCEPT !.sel = s].redo = e.redo
  BY DEF EditorSound, EditorsUpTo
<1>2. \A t \in KTools : /\ [e EXCEPT !.tool = t] \in EditorsUpTo(now)
                        /\ [e EXCEPT !.tool = t].doc = e.doc
                        /\ [e EXCEPT !.tool = t].undo = e.undo
                        /\ [e EXCEPT !.tool = t].redo = e.redo
  BY DEF EditorSound, EditorsUpTo
<1>3. /\ [e EXCEPT !.preview = ~e.preview] \in EditorsUpTo(now)
      /\ [e EXCEPT !.preview = ~e.preview].doc = e.doc
      /\ [e EXCEPT !.preview = ~e.preview].undo = e.undo
      /\ [e EXCEPT !.preview = ~e.preview].redo = e.redo
  <2>1. (~e.preview) \in BOOLEAN
    OBVIOUS
  <2> QED
    BY <2>1 DEF EditorSound, EditorsUpTo
<1> QED
  BY <1>1, <1>2, <1>3 DEF EditorSound, InTime

LEMMA SoundLater ==
  ASSUME NEW e, NEW now \in Nat, EditorSound(e, now) PROVE EditorSound(e, now + 1)
<1>1. e.undo \in Seq(DocsUpTo(now + 1)) /\ e.redo \in Seq(DocsUpTo(now + 1)) /\ e.doc \in DocsUpTo(now + 1)
  BY SoundIs, DocsGrow, SeqMonotonic
<1>2. e \in EditorsUpTo(now + 1)
  BY <1>1 DEF EditorSound, EditorsUpTo
<1> QED
  BY <1>2 DEF EditorSound

\* An editor of these parts.
EditorOf(d, v, u, h, t, s, w) ==
  [doc |-> d, valid |-> v, undo |-> u, redo |-> h, tool |-> t, sel |-> s, preview |-> w]

\* A history before a document, and one after it, in time.
Older(u, d) ==
  /\ \A k \in 1 .. Len(u) : u[k].id < d.id
  /\ \A j, k \in 1 .. Len(u) : j < k => u[j].id < u[k].id

Newer(h, d) ==
  /\ \A k \in 1 .. Len(h) : d.id < h[k].id
  /\ \A j, k \in 1 .. Len(h) : j < k => h[k].id < h[j].id

LEMMA EditorIs ==
  ASSUME NEW e, NEW now \in Nat, EditorSound(e, now)
  PROVE  /\ e = EditorOf(e.doc, e.valid, e.undo, e.redo, e.tool, e.sel, e.preview)
         /\ Older(e.undo, e.doc) /\ Newer(e.redo, e.doc)
<1>1. e \in EditorsUpTo(now) /\ InTime(e)
  BY DEF EditorSound
<1>2. e = EditorOf(e.doc, e.valid, e.undo, e.redo, e.tool, e.sel, e.preview)
  BY <1>1 DEF EditorsUpTo, EditorOf
<1> QED
  BY <1>1, <1>2 DEF InTime, Older, Newer

LEMMA EditorMade ==
  ASSUME NEW now \in Nat, NEW d \in DocsUpTo(now), NEW v \in BOOLEAN, NEW u \in Seq(DocsUpTo(now)),
         NEW h \in Seq(DocsUpTo(now)), NEW t \in KTools, NEW s \in KNodes \cup {0},
         NEW w \in BOOLEAN, Older(u, d), Newer(h, d), Len(u) <= HistoryCap, Len(h) <= HistoryCap
  PROVE  EditorSound(EditorOf(d, v, u, h, t, s, w), now)
<1>1. EditorOf(d, v, u, h, t, s, w) \in EditorsUpTo(now)
  BY Zenon DEF EditorsUpTo, EditorOf
<1>2. InTime(EditorOf(d, v, u, h, t, s, w))
  BY DEF InTime, EditorOf, Older, Newer
<1> QED
  BY <1>1, <1>2 DEF EditorSound, EditorOf

LEMMA NothingElse ==
  \A d : Older(<<>>, d) /\ Newer(<<>>, d)
BY DEF Older, Newer

\* A history that is pushed a document is one before any later document.
LEMMA PushedOlder ==
  ASSUME NEW now \in Nat, NEW d \in DocsUpTo(now), NEW u \in Seq(DocsUpTo(now)),
         Len(u) <= HistoryCap, Older(u, d)
  PROVE  /\ Pushed(u, d) \in Seq(DocsUpTo(now)) /\ Len(Pushed(u, d)) <= HistoryCap
         /\ \A later \in DocsUpTo(now + 1) : d.id < later.id => Older(Pushed(u, d), later)
         /\ Pushed(u, d) # <<>>
<1> DEFINE push == Pushed(u, d)
<1>1. /\ push \in Seq(DocsUpTo(now)) /\ Len(push) <= HistoryCap
      /\ Len(push) \in Nat \ {0} /\ push[Len(push)] = d
  BY PushedIs
<1>0. EndsWhatFollows(push, u)
  BY PushedIs
<1> HIDE DEF push
<1>2. PICK off \in {0, 1} : \A k \in 1 .. Len(push) - 1 : k + off \in 1 .. Len(u) /\ push[k] = u[k + off]
  BY <1>0, Zenon DEF EndsWhatFollows
<1>3. push # <<>>
  BY <1>1, EmptySeq
<1>4. d.id \in Nat /\ \A k \in 1 .. Len(u) : u[k] \in DocsUpTo(now) /\ u[k].id \in Nat
  BY DocsGrow, ElementOfSeq
<1> HIDE DEF push
<1>5. ASSUME NEW k \in 1 .. Len(push) PROVE push[k].id \in Nat /\ push[k].id <= d.id /\ (k < Len(push) => push[k].id < d.id)
  <2>1. CASE k = Len(push)
    BY <1>1, <1>4, <2>1
  <2>2. CASE k # Len(push)
    <3>1. k \in 1 .. Len(push) - 1
      BY <1>1, <2>2
    <3>2. push[k] = u[k + off] /\ k + off \in 1 .. Len(u)
      BY <1>2, <3>1
    <3>3. u[k + off].id \in Nat /\ u[k + off].id < d.id
      BY <1>4, <3>2 DEF Older
    <3> QED
      BY <1>4, <3>2, <3>3, SMTT(60)
  <2> QED
    BY <2>1, <2>2
<1>6. ASSUME NEW j \in 1 .. Len(push), NEW k \in 1 .. Len(push), j < k PROVE push[j].id < push[k].id
  <2>0. j \in 1 .. Len(push) - 1
    BY <1>1, <1>6
  <2>1. CASE k = Len(push)
    BY <1>1, <1>5, <1>6, <2>1
  <2>2. CASE k # Len(push)
    <3>1. k \in 1 .. Len(push) - 1
      BY <1>1, <2>2
    <3>2. /\ push[k] = u[k + off] /\ k + off \in 1 .. Len(u)
          /\ push[j] = u[j + off] /\ j + off \in 1 .. Len(u) /\ j + off < k + off
      BY <1>2, <1>6, <2>0, <3>1
    <3>3. u[j + off].id < u[k + off].id
      BY <3>2 DEF Older
    <3> QED
      BY <3>2, <3>3
  <2> QED
    BY <2>1, <2>2
<1>7. ASSUME NEW later \in DocsUpTo(now + 1), d.id < later.id PROVE Older(push, later)
  <2>1. later.id \in Nat
    BY DocsGrow
  <2> QED
    BY <1>4, <1>5, <1>6, <1>7, <2>1 DEF Older
<1> QED
  BY <1>1, <1>3, <1>7 DEF push

\* So is what can be redone after any earlier one.
LEMMA PushedNewer ==
  ASSUME NEW now \in Nat, NEW d \in DocsUpTo(now), NEW h \in Seq(DocsUpTo(now)),
         Len(h) <= HistoryCap, Newer(h, d)
  PROVE  /\ Pushed(h, d) \in Seq(DocsUpTo(now)) /\ Len(Pushed(h, d)) <= HistoryCap
         /\ \A former \in DocsUpTo(now) : former.id < d.id => Newer(Pushed(h, d), former)
<1> DEFINE push == Pushed(h, d)
<1>1. /\ push \in Seq(DocsUpTo(now)) /\ Len(push) <= HistoryCap
      /\ Len(push) \in Nat \ {0} /\ push[Len(push)] = d
  BY PushedIs
<1>0. EndsWhatFollows(push, h)
  BY PushedIs
<1> HIDE DEF push
<1>2. PICK off \in {0, 1} : \A k \in 1 .. Len(push) - 1 : k + off \in 1 .. Len(h) /\ push[k] = h[k + off]
  BY <1>0, Zenon DEF EndsWhatFollows
<1>4. d.id \in Nat /\ \A k \in 1 .. Len(h) : h[k] \in DocsUpTo(now) /\ h[k].id \in Nat
  BY DocsGrow, ElementOfSeq
<1> HIDE DEF push
<1>5. ASSUME NEW k \in 1 .. Len(push) PROVE push[k].id \in Nat /\ d.id <= push[k].id /\ (k < Len(push) => d.id < push[k].id)
  <2>1. CASE k = Len(push)
    BY <1>1, <1>4, <2>1
  <2>2. CASE k # Len(push)
    <3>1. k \in 1 .. Len(push) - 1
      BY <1>1, <2>2
    <3>2. push[k] = h[k + off] /\ k + off \in 1 .. Len(h)
      BY <1>2, <3>1
    <3>3. h[k + off].id \in Nat /\ d.id < h[k + off].id
      BY <1>4, <3>2 DEF Newer
    <3> QED
      BY <1>4, <3>2, <3>3, SMTT(60)
  <2> QED
    BY <2>1, <2>2
<1>6. ASSUME NEW j \in 1 .. Len(push), NEW k \in 1 .. Len(push), j < k PROVE push[k].id < push[j].id
  <2>0. j \in 1 .. Len(push) - 1
    BY <1>1, <1>6
  <2>1. CASE k = Len(push)
    BY <1>1, <1>5, <1>6, <2>1
  <2>2. CASE k # Len(push)
    <3>1. k \in 1 .. Len(push) - 1
      BY <1>1, <2>2
    <3>2. /\ push[k] = h[k + off] /\ k + off \in 1 .. Len(h)
          /\ push[j] = h[j + off] /\ j + off \in 1 .. Len(h) /\ j + off < k + off
      BY <1>2, <1>6, <2>0, <3>1
    <3>3. h[k + off].id < h[j + off].id
      BY <3>2 DEF Newer
    <3> QED
      BY <3>2, <3>3
  <2> QED
    BY <2>1, <2>2
<1>7. ASSUME NEW former \in DocsUpTo(now), former.id < d.id PROVE Newer(push, former)
  <2>1. former.id \in Nat
    BY DocsGrow
  <2> QED
    BY <1>4, <1>5, <1>6, <1>7, <2>1, SMTT(60) DEF Newer
<1> QED
  BY <1>1, <1>7 DEF push

\* The last entry of a history, and what is left of it.
LEMMA FrontInTime ==
  ASSUME NEW now \in Nat, NEW h \in Seq(DocsUpTo(now)), h # <<>>, NEW d
  PROVE  /\ Last(h) \in DocsUpTo(now) /\ Front(h) \in Seq(DocsUpTo(now)) /\ Len(Front(h)) <= Len(h)
         /\ Older(h, d) => Older(Front(h), d) /\ Older(Front(h), Last(h)) /\ Last(h).id < d.id
         /\ Newer(h, d) => Newer(Front(h), Last(h)) /\ d.id < Last(h).id
<1>1. /\ Len(h) \in Nat \ {0} /\ Last(h) = h[Len(h)] /\ Last(h) \in DocsUpTo(now)
      /\ Front(h) \in Seq(DocsUpTo(now)) /\ Len(Front(h)) = Len(h) - 1
      /\ \A k \in 1 .. Len(h) - 1 : Front(h)[k] = h[k] /\ k \in 1 .. Len(h) /\ k < Len(h)
  BY FrontIs
<1> DEFINE f == Front(h)  l == Last(h)
<1> HIDE DEF f, l
<1>2. /\ Len(f) = Len(h) - 1 /\ l = h[Len(h)] /\ Len(h) \in 1 .. Len(h)
      /\ \A k \in 1 .. Len(f) : f[k] = h[k] /\ k \in 1 .. Len(h) /\ k < Len(h)
  BY <1>1 DEF f, l
<1>3. Older(h, d) => Older(f, d) /\ Older(f, l) /\ l.id < d.id
  BY <1>2 DEF Older
<1>4. Newer(h, d) => Newer(f, l) /\ d.id < l.id
  BY <1>2 DEF Newer
<1> QED
  BY <1>1, <1>3, <1>4 DEF f, l

\* What a command makes of an editor: it stays sound, its document is a new one when it
\* was changed by a mutation, and only an accepted command mends a broken document.
Changes(e, r, now) ==
  /\ r.accepted \in BOOLEAN
  /\ \/ EditorSound(r.editor, now)
     \/ EditorSound(r.editor, now + 1) /\ e.valid /\ (r.editor.valid => r.editor.doc # e.doc)
  /\ r.editor.valid /\ ~e.valid => r.accepted

LEMMA Refuses ==
  ASSUME NEW e, NEW now \in Nat, EditorSound(e, now)
  PROVE  Changes(e, KRefused(e), now)
BY DEF Changes, KRefused

LEMMA Reselects ==
  ASSUME NEW e, NEW now \in Nat, NEW r, Changes(e, r, now), NEW s \in KNodes \cup {0}
  PROVE  Changes(e, KAccepted([r.editor EXCEPT !.sel = s]), now)
<1>1. CASE EditorSound(r.editor, now)
  <2>1. /\ EditorSound([r.editor EXCEPT !.sel = s], now)
        /\ [r.editor EXCEPT !.sel = s].valid = r.editor.valid
    BY <1>1, SoundAnyway
  <2> QED
    BY <2>1 DEF Changes, KAccepted
<1>2. CASE EditorSound(r.editor, now + 1) /\ e.valid /\ (r.editor.valid => r.editor.doc # e.doc)
  <2>1. /\ EditorSound([r.editor EXCEPT !.sel = s], now + 1)
        /\ [r.editor EXCEPT !.sel = s].valid = r.editor.valid
        /\ [r.editor EXCEPT !.sel = s].doc = r.editor.doc
    <3>1. now + 1 \in Nat
      OBVIOUS
    <3> QED
      BY <1>2, <3>1, SoundAnyway
  <2> QED
    BY <1>2, <2>1 DEF Changes, KAccepted
<1> QED
  BY <1>1, <1>2 DEF Changes

\* What an edit writes of an editor.
IsEditor(e) == e = EditorOf(e.doc, e.valid, e.undo, e.redo, e.tool, e.sel, e.preview)
Reverted(e, b) == [e EXCEPT !.undo = Front(@), !.valid = b]
Written(e, nodes) == [e EXCEPT !.doc.nodes = nodes]
Deselected(e, nodes) == [e EXCEPT !.sel = IF @ \in nodes THEN @ ELSE 0]

LEMMA EditorParts ==
  ASSUME NEW d, NEW v, NEW u, NEW h, NEW t, NEW s, NEW w, NEW e, e = EditorOf(d, v, u, h, t, s, w)
  PROVE  /\ e.doc = d /\ e.valid = v /\ e.undo = u /\ e.redo = h /\ e.tool = t /\ e.sel = s
         /\ e.preview = w
         /\ IsEditor(e)
BY DEF EditorOf, IsEditor

LEMMA BegunIs ==
  ASSUME NEW e, IsEditor(e), NEW id
  PROVE  Begun(e, id) = EditorOf([e.doc EXCEPT !.id = id], e.valid, Pushed(e.undo, e.doc), <<>>,
                                 e.tool, e.sel, e.preview)
<1> DEFINE d == e.doc  v == e.valid  t == e.tool  s == e.sel  w == e.preview
           push == Pushed(e.undo, d)
           pushed == [e EXCEPT !.undo = push]
           emptied == [pushed EXCEPT !.redo = <<>>]
<1>1. e = EditorOf(d, v, e.undo, e.redo, t, s, w)
  BY DEF IsEditor
<1>2. Begun(e, id) = [emptied EXCEPT !.doc.id = id]
  <2> HIDE DEF d
  <2> QED
    BY DEF Begun, d
<1> HIDE DEF d, v, t, s, w, push
<1>3. pushed = EditorOf(d, v, push, e.redo, t, s, w)
  BY <1>1 DEF EditorOf
<1>4. emptied = EditorOf(d, v, push, <<>>, t, s, w)
  <2> HIDE DEF pushed
  <2> QED
    BY <1>3 DEF EditorOf
<1>5. [emptied EXCEPT !.doc.id = id] = EditorOf([d EXCEPT !.id = id], v, push, <<>>, t, s, w)
  <2> HIDE DEF emptied
  <2> QED
    BY <1>4 DEF EditorOf
<1> HIDE DEF emptied
<1> QED
  BY <1>2, <1>5, Zenon DEF d, v, t, s, w, push

LEMMA RevertedIs ==
  ASSUME NEW e, IsEditor(e), NEW b
  PROVE  Reverted(e, b) = EditorOf(e.doc, b, Front(e.undo), e.redo, e.tool, e.sel, e.preview)
<1> DEFINE d == e.doc  v == e.valid  t == e.tool  s == e.sel  w == e.preview
           front == Front(e.undo)
           less == [e EXCEPT !.undo = front]
<1>1. e = EditorOf(d, v, e.undo, e.redo, t, s, w)
  BY DEF IsEditor
<1>2. Reverted(e, b) = [less EXCEPT !.valid = b]
  BY DEF Reverted
<1> HIDE DEF d, v, t, s, w, front
<1>3. less = EditorOf(d, v, front, e.redo, t, s, w)
  BY <1>1 DEF EditorOf
<1> HIDE DEF less
<1>4. [less EXCEPT !.valid = b] = EditorOf(d, b, front, e.redo, t, s, w)
  BY <1>3 DEF EditorOf
<1> QED
  BY <1>2, <1>4, Zenon DEF d, v, t, s, w, front

LEMMA WrittenIs ==
  ASSUME NEW e, IsEditor(e), NEW nodes
  PROVE  /\ Written(e, nodes) = EditorOf([e.doc EXCEPT !.nodes = nodes], e.valid, e.undo, e.redo,
                                         e.tool, e.sel, e.preview)
         /\ Deselected(e, nodes) = EditorOf(e.doc, e.valid, e.undo, e.redo, e.tool,
                                            IF e.sel \in nodes THEN e.sel ELSE 0, e.preview)
<1> DEFINE d == e.doc  v == e.valid  t == e.tool  s == e.sel  w == e.preview
           u == e.undo  h == e.redo
<1>1. e = EditorOf(d, v, u, h, t, s, w)
  BY DEF IsEditor
<1> HIDE DEF d, v, t, s, w, u, h
<1>2. Written(e, nodes) = EditorOf([d EXCEPT !.nodes = nodes], v, u, h, t, s, w)
  BY <1>1 DEF EditorOf, Written
<1>3. Deselected(e, nodes) = EditorOf(d, v, u, h, t, IF s \in nodes THEN s ELSE 0, w)
  BY <1>1 DEF EditorOf, Deselected
<1> QED
  BY <1>2, <1>3, Zenon DEF d, v, t, s, w, u, h

\* beginMutation and the change: the document is a new one, and the editor can undo it.
LEMMA EditedIs ==
  ASSUME NEW e, NEW now \in Nat, EditorSound(e, now), NEW nodes \in SUBSET KNodes
  PROVE  LET d == [nodes |-> nodes, id |-> now + 1]
         IN /\ [Begun(e, now + 1) EXCEPT !.doc.nodes = nodes]
                 = EditorOf(d, e.valid, Pushed(e.undo, e.doc), <<>>, e.tool, e.sel, e.preview)
            /\ d \in DocsUpTo(now + 1) /\ d # e.doc
            /\ Pushed(e.undo, e.doc) \in Seq(DocsUpTo(now + 1))
            /\ Len(Pushed(e.undo, e.doc)) <= HistoryCap /\ Older(Pushed(e.undo, e.doc), d)
            /\ Front(Pushed(e.undo, e.doc)) \in Seq(DocsUpTo(now + 1))
            /\ Len(Front(Pushed(e.undo, e.doc))) <= HistoryCap
            /\ Older(Front(Pushed(e.undo, e.doc)), d)
<1> DEFINE d == [nodes |-> nodes, id |-> now + 1]
           push == Pushed(e.undo, e.doc)
<1>1. /\ e.doc \in DocsUpTo(now) /\ e.undo \in Seq(DocsUpTo(now)) /\ Len(e.undo) <= HistoryCap
      /\ e.doc.id \in Nat /\ e.doc.id <= now /\ Older(e.undo, e.doc)
  BY SoundIs, EditorIs
<1>2. [Begun(e, now + 1) EXCEPT !.doc.nodes = nodes]
        = EditorOf(d, e.valid, push, <<>>, e.tool, e.sel, e.preview)
  <2> HIDE DEF push
  <2>1. e.doc \in [nodes : SUBSET KNodes, id : 0 .. now]
    BY <1>1 DEF DocsUpTo
  <2> DEFINE old == e.doc  dated == [old EXCEPT !.id = now + 1]
             begun == Begun(e, now + 1)
  <2>2. IsEditor(e)
    BY EditorIs, Zenon DEF IsEditor
  <2>3. begun = EditorOf(dated, e.valid, push, <<>>, e.tool, e.sel, e.preview)
    BY <2>2, BegunIs, Zenon DEF push
  <2>4. [dated EXCEPT !.nodes = nodes] = d
    <3>1. old = [nodes |-> old.nodes, id |-> old.id]
      BY <2>1
    <3> HIDE DEF old
    <3>2. dated = [nodes |-> old.nodes, id |-> now + 1]
      BY <3>1
    <3> HIDE DEF dated
    <3> QED
      BY <3>2
  <2> HIDE DEF d, dated, begun
  <2>5. /\ begun.doc = dated /\ begun.valid = e.valid /\ begun.undo = push /\ begun.redo = <<>>
        /\ begun.tool = e.tool /\ begun.sel = e.sel /\ begun.preview = e.preview /\ IsEditor(begun)
    BY <2>3, EditorParts
  <2>6. Written(begun, nodes)
          = EditorOf([dated EXCEPT !.nodes = nodes], e.valid, push, <<>>, e.tool, e.sel, e.preview)
    BY <2>5, WrittenIs, Zenon
  <2>7. Written(begun, nodes) = [Begun(e, now + 1) EXCEPT !.doc.nodes = nodes]
    BY DEF Written, begun
  <2> QED
    BY <2>4, <2>6, <2>7, Zenon
<1>3. d \in DocsUpTo(now + 1) /\ d.id = now + 1 /\ e.doc.id < d.id
  BY <1>1, DocsGrow, SMTT(60)
<1>4. /\ push \in Seq(DocsUpTo(now)) /\ Len(push) <= HistoryCap /\ Older(push, d) /\ push # <<>>
  BY <1>1, <1>3, PushedOlder
<1>5. Seq(DocsUpTo(now)) \subseteq Seq(DocsUpTo(now + 1))
  BY DocsGrow, SeqMonotonic
<1>6. Front(push) \in Seq(DocsUpTo(now)) /\ Len(Front(push)) <= Len(push) /\ Older(Front(push), d)
  <2> HIDE DEF push, d
  <2> QED
    BY <1>4, FrontInTime
<1>7. Len(Front(push)) <= HistoryCap
  <2>1. Len(Front(push)) \in Nat /\ Len(push) \in Nat /\ HistoryCap \in Nat
    BY <1>4, <1>6, LenProperties, EditorNumbers
  <2> QED
    BY <1>4, <1>6, <2>1
<1>8. d # e.doc
  BY <1>1, <1>3
<1> QED
  BY <1>2, <1>3, <1>4, <1>5, <1>6, <1>7, <1>8

LEMMA MutatedChanges ==
  ASSUME NEW e, NEW now \in Nat, EditorSound(e, now), NEW nodes \in SUBSET KNodes, NEW ok \in BOOLEAN
  PROVE  Changes(e, Mutated(e, nodes, ok, now + 1), now)
<1> DEFINE d == [nodes |-> nodes, id |-> now + 1]
           push == Pushed(e.undo, e.doc)
           edited == [Begun(e, now + 1) EXCEPT !.doc.nodes = nodes]
<1>1. /\ edited = EditorOf(d, e.valid, push, <<>>, e.tool, e.sel, e.preview)
      /\ d \in DocsUpTo(now + 1) /\ d # e.doc
      /\ push \in Seq(DocsUpTo(now + 1)) /\ Len(push) <= HistoryCap /\ Older(push, d)
      /\ Front(push) \in Seq(DocsUpTo(now + 1)) /\ Len(Front(push)) <= HistoryCap
      /\ Older(Front(push), d)
  BY EditedIs, Zenon
<1>2. e.tool \in KTools /\ e.sel \in KNodes \cup {0} /\ e.preview \in BOOLEAN /\ e.valid \in BOOLEAN
  BY SoundIs
<1>3. /\ <<>> \in Seq(DocsUpTo(now + 1)) /\ Len(<<>>) <= HistoryCap /\ Newer(<<>>, d)
      /\ now + 1 \in Nat
  BY EmptySeq, NothingElse, EditorNumbers
<1> DEFINE s == IF e.sel \in nodes THEN e.sel ELSE 0
           taken == [edited EXCEPT !.sel = IF @ \in nodes THEN @ ELSE 0]
           kept == [edited EXCEPT !.undo = Front(@), !.valid = nodes # {}]
<1>4. Mutated(e, nodes, ok, now + 1) =
        IF ~e.valid THEN KRefused(e)
        ELSE IF ok /\ nodes # {} THEN KAccepted(taken) ELSE KRefused(kept)
  BY Zenon DEF Mutated
<1> HIDE DEF push, d, edited
<1>0. /\ edited.doc = d /\ edited.valid = e.valid /\ edited.undo = push /\ edited.redo = <<>>
      /\ edited.tool = e.tool /\ edited.sel = e.sel /\ edited.preview = e.preview /\ IsEditor(edited)
  BY <1>1, EditorParts
<1>5. taken = EditorOf(d, e.valid, push, <<>>, e.tool, s, e.preview)
  <2>1. taken = Deselected(edited, nodes)
    BY DEF Deselected
  <2> QED
    BY <2>1, <1>0, WrittenIs, Zenon
<1>6. kept = EditorOf(d, nodes # {}, Front(push), <<>>, e.tool, e.sel, e.preview)
  <2>1. kept = Reverted(edited, nodes # {})
    BY DEF Reverted
  <2> QED
    BY <2>1, <1>0, RevertedIs, ZenonT(60)
<1>7. s \in KNodes \cup {0}
  BY <1>2
<1>8. (nodes # {}) \in BOOLEAN
  OBVIOUS
<1> HIDE DEF push, d, edited, s, taken, kept
<1>9. EditorSound(taken, now + 1) /\ taken.doc = d
  BY <1>1, <1>2, <1>3, <1>5, <1>7, EditorMade DEF EditorOf
<1>10. EditorSound(kept, now + 1) /\ kept.doc = d
  <2> DEFINE some == nodes # {}  rest == Front(push)  none == <<>>
  <2>1. /\ now + 1 \in Nat /\ d \in DocsUpTo(now + 1) /\ some \in BOOLEAN
        /\ rest \in Seq(DocsUpTo(now + 1)) /\ none \in Seq(DocsUpTo(now + 1))
        /\ e.tool \in KTools /\ e.sel \in KNodes \cup {0} /\ e.preview \in BOOLEAN
        /\ Older(rest, d) /\ Newer(none, d) /\ Len(rest) <= HistoryCap /\ Len(none) <= HistoryCap
    BY <1>1, <1>2, <1>3, <1>8
  <2>2. kept = EditorOf(d, some, rest, none, e.tool, e.sel, e.preview)
    BY <1>6
  <2> HIDE DEF some, rest, none
  <2>3. EditorSound(EditorOf(d, some, rest, none, e.tool, e.sel, e.preview), now + 1)
    BY <2>1, EditorMade, Zenon
  <2>4. EditorOf(d, some, rest, none, e.tool, e.sel, e.preview).doc = d
    BY DEF EditorOf
  <2> QED
    BY <2>2, <2>3, <2>4, Zenon
<1>11. CASE ~e.valid
  BY <1>4, <1>11, Refuses
<1>12. CASE e.valid /\ ok /\ nodes # {}
  <2>1. Mutated(e, nodes, ok, now + 1) = KAccepted(taken)
    BY <1>4, <1>12
  <2>2. KAccepted(taken).editor = taken /\ KAccepted(taken).accepted = TRUE
    BY DEF KAccepted
  <2> QED
    BY <1>1, <1>9, <1>12, <2>1, <2>2, Zenon DEF Changes
<1>13. CASE e.valid /\ ~(ok /\ nodes # {})
  <2>1. Mutated(e, nodes, ok, now + 1) = KRefused(kept)
    BY <1>4, <1>13
  <2>2. KRefused(kept).editor = kept /\ KRefused(kept).accepted = FALSE
    BY DEF KRefused
  <2> QED
    BY <1>1, <1>10, <1>13, <2>1, <2>2, Zenon DEF Changes
<1> QED
  BY <1>11, <1>12, <1>13

LEMMA SelectChanges ==
  ASSUME NEW e, NEW now \in Nat, EditorSound(e, now), NEW n
  PROVE  Changes(e, SelectNode(e, n), now)
<1>1. Changes(e, KRefused(e), now) /\ KRefused(e).editor = e
  BY Refuses DEF KRefused
<1>2. ASSUME n \in e.doc.nodes PROVE Changes(e, KAccepted([e EXCEPT !.sel = n]), now)
  <2>1. n \in KNodes \cup {0}
    BY <1>2, SoundIs
  <2>2. Changes(e, KAccepted([KRefused(e).editor EXCEPT !.sel = n]), now)
    BY <1>1, <2>1, Reselects
  <2> QED
    BY <1>1, <2>2
<1> QED
  BY <1>1, <1>2 DEF SelectNode

LEMMA RemoveChanges ==
  ASSUME NEW e, NEW now \in Nat, EditorSound(e, now)
  PROVE  Changes(e, RemoveSelected(e, now + 1), now)
<1> DEFINE r == Mutated(e, e.doc.nodes \ {e.sel}, TRUE, now + 1)
<1>1. Changes(e, KRefused(e), now)
  BY Refuses
<1>2. Changes(e, r, now)
  <2>1. e.doc.nodes \ {e.sel} \in SUBSET KNodes
    BY SoundIs
  <2> QED
    BY <2>1, MutatedChanges
<1> HIDE DEF r
<1>3. Changes(e, KAccepted([r.editor EXCEPT !.sel = 0]), now)
  BY <1>2, Reselects
<1>4. RemoveSelected(e, now + 1) = IF e.sel = 0 THEN KRefused(e)
        ELSE IF r.accepted THEN KAccepted([r.editor EXCEPT !.sel = 0]) ELSE r
  BY Zenon DEF RemoveSelected, r
<1> QED
  BY <1>1, <1>2, <1>3, <1>4

LEMMA UpdateChanges ==
  ASSUME NEW e, NEW now \in Nat, EditorSound(e, now), NEW ok \in BOOLEAN
  PROVE  Changes(e, UpdateSelected(e, ok, now + 1), now)
<1>1. Changes(e, KRefused(e), now)
  BY Refuses
<1>2. Changes(e, Mutated(e, e.doc.nodes, ok, now + 1), now)
  <2>1. e.doc.nodes \in SUBSET KNodes
    BY SoundIs
  <2> QED
    BY <2>1, MutatedChanges
<1> QED
  BY <1>1, <1>2 DEF UpdateSelected

\* The greatest node of a document.
LEMMA GreatestNode ==
  ASSUME NEW nodes \in SUBSET KNodes
  PROVE  Max(nodes \cup {0}) \in nodes \cup {0} /\ \A n \in nodes \cup {0} : Max(nodes \cup {0}) >= n
<1> DEFINE S == nodes \cup {0}  T == {NodeCap - n : n \in S}
<1>1. NodeCap \in Nat /\ \A n \in S : n \in Nat /\ n <= NodeCap
  BY EditorNumbers DEF KNodes
<1>2. T \in SUBSET Nat /\ T # {}
  BY <1>1
<1>3. Least(T) \in T /\ \A g \in T : Least(T) <= g
  <2> HIDE DEF T
  <2> QED
    BY <1>2, LeastIsThere
<1>4. PICK m \in S : Least(T) = NodeCap - m
  BY <1>3
<1>5. \A n \in S : m >= n
  <2> TAKE n \in S
  <2>1. NodeCap - n \in T
    OBVIOUS
  <2>2. Least(T) <= NodeCap - n
    BY <1>3, <2>1
  <2> HIDE DEF T, S
  <2> QED
    BY <1>1, <1>4, <2>2
<1> HIDE DEF S, T
<1>6. Max(S) \in S /\ \A n \in S : Max(S) >= n
  BY <1>4, <1>5 DEF Max
<1> QED
  BY <1>6 DEF S

LEMMA AddChanges ==
  ASSUME NEW e, NEW now \in Nat, EditorSound(e, now)
  PROVE  Changes(e, AddCurrentTool(e, now + 1), now)
<1> DEFINE n == 1 + Max(e.doc.nodes \cup {0})
           r == Mutated(e, e.doc.nodes \cup {n}, TRUE, now + 1)
<1>1. e.doc.nodes \in SUBSET KNodes
  BY SoundIs
<1>2. Max(e.doc.nodes \cup {0}) \in Nat
  <2>1. Max(e.doc.nodes \cup {0}) \in e.doc.nodes \cup {0}
    BY <1>1, GreatestNode, Zenon
  <2> DEFINE m == Max(e.doc.nodes \cup {0})  nodes == e.doc.nodes
  <2>2. m \in nodes \cup {0} /\ nodes \subseteq Nat
    BY <1>1, <2>1, EditorNumbers
  <2> HIDE DEF m, nodes
  <2>3. m \in Nat
    BY <2>2
  <2> QED
    BY <2>3 DEF m
<1>3. Changes(e, Mutated(e, e.doc.nodes, FALSE, now + 1), now)
  BY <1>1, MutatedChanges
<1>4. AddCurrentTool(e, now + 1) = IF n > NodeCap THEN Mutated(e, e.doc.nodes, FALSE, now + 1)
        ELSE IF r.accepted THEN KAccepted([r.editor EXCEPT !.sel = n]) ELSE r
  BY Zenon DEF AddCurrentTool
<1>5. ASSUME ~ (n > NodeCap)
      PROVE  Changes(e, r, now) /\ Changes(e, KAccepted([r.editor EXCEPT !.sel = n]), now)
  <2>1. n \in KNodes
    BY <1>2, <1>5, EditorNumbers DEF KNodes
  <2> HIDE DEF n
  <2>2. e.doc.nodes \cup {n} \in SUBSET KNodes
    BY <1>1, <2>1
  <2>3. Changes(e, r, now)
    BY <2>2, MutatedChanges
  <2> HIDE DEF r
  <2> QED
    BY <2>1, <2>3, Reselects
<1> HIDE DEF n, r
<1> QED
  BY <1>3, <1>4, <1>5

LEMMA ApplyChanges ==
  ASSUME NEW e, NEW now \in Nat, EditorSound(e, now), NEW under \in e.doc.nodes \cup {0}
  PROVE  Changes(e, ApplyTool(e, under, now + 1), now)
<1>1. Changes(e, KRefused(e), now)
  BY Refuses
<1>2. Changes(e, SelectNode(e, under), now)
  BY SelectChanges
<1>3. Changes(e, RemoveSelected(e, now + 1), now)
  BY RemoveChanges
<1>4. Changes(e, AddCurrentTool(e, now + 1), now)
  BY AddChanges
<1> DEFINE chosen == [e EXCEPT !.sel = under]
<1>5. Changes(e, RemoveSelected(chosen, now + 1), now)
  <2>1. under \in KNodes \cup {0}
    BY SoundIs
  <2>2. EditorSound(chosen, now) /\ chosen.doc = e.doc /\ chosen.valid = e.valid
    BY <2>1, SoundAnyway
  <2> HIDE DEF chosen
  <2>3. Changes(chosen, RemoveSelected(chosen, now + 1), now)
    BY <2>2, RemoveChanges
  <2> QED
    BY <2>2, <2>3 DEF Changes
<1>6. e.tool \in {"select", "place", "erase"}
  BY SoundIs DEF KTools
<1> HIDE DEF chosen
<1>7. CASE e.tool = "select"
  BY <1>2, <1>7 DEF ApplyTool
<1>8. CASE e.tool = "place"
  BY <1>4, <1>8 DEF ApplyTool
<1>9. CASE e.tool = "erase"
  <2>1. ApplyTool(e, under, now + 1) =
          IF e.sel # 0 THEN RemoveSelected(e, now + 1)
          ELSE IF under \in e.doc.nodes THEN RemoveSelected(chosen, now + 1) ELSE KRefused(e)
    BY <1>9 DEF ApplyTool, chosen
  <2> QED
    BY <1>1, <1>3, <1>5, <2>1
<1> QED
  BY <1>6, <1>7, <1>8, <1>9

LEMMA UndoChanges ==
  ASSUME NEW e, NEW now \in Nat, EditorSound(e, now)
  PROVE  Changes(e, UndoEdit(e), now)
<1>1. Changes(e, KRefused(e), now)
  BY Refuses
<1>2. ASSUME e.undo # <<>>, e.valid
      PROVE  Changes(e, KAccepted([e EXCEPT !.redo = Pushed(@, e.doc), !.doc = Last(e.undo),
                                            !.undo = Front(@), !.sel = 0]), now)
  <2> DEFINE d == e.doc  v == e.valid  u == e.undo  h == e.redo  t == e.tool  s == e.sel
             w == e.preview
             push == Pushed(h, d)  last == Last(u)  front == Front(u)
             new1 == [e EXCEPT !.redo = push]  new2 == [new1 EXCEPT !.doc = last]
             new3 == [new2 EXCEPT !.undo = front]  new4 == [new3 EXCEPT !.sel = 0]
  <2>1. e = EditorOf(d, v, u, h, t, s, w) /\ Older(u, d) /\ Newer(h, d)
    BY EditorIs
  <2>2. [e EXCEPT !.redo = Pushed(@, e.doc), !.doc = Last(e.undo), !.undo = Front(@), !.sel = 0] = new4
    OBVIOUS
  <2>3. /\ d \in DocsUpTo(now) /\ v \in BOOLEAN /\ u \in Seq(DocsUpTo(now)) /\ h \in Seq(DocsUpTo(now))
        /\ t \in KTools /\ w \in BOOLEAN /\ Len(u) <= HistoryCap /\ Len(h) <= HistoryCap /\ u # <<>>
    BY <1>2, SoundIs
  <2> HIDE DEF d, v, u, h, t, s, w
  <2>4. /\ last \in DocsUpTo(now) /\ front \in Seq(DocsUpTo(now)) /\ Len(front) <= Len(u)
        /\ Older(front, last) /\ last.id < d.id
    BY <2>1, <2>3, FrontInTime
  <2>5. push \in Seq(DocsUpTo(now)) /\ Len(push) <= HistoryCap /\ Newer(push, last)
    BY <2>1, <2>3, <2>4, PushedNewer
  <2>6. Len(front) <= HistoryCap
    <3>1. Len(front) \in Nat /\ Len(u) \in Nat /\ HistoryCap \in Nat
      BY <2>3, <2>4, LenProperties, EditorNumbers
    <3> QED
      BY <2>3, <2>4, <3>1
  <2> HIDE DEF push, last, front
  <2>7. new1 = EditorOf(d, v, u, push, t, s, w)
    BY <2>1 DEF EditorOf
  <2> HIDE DEF new1
  <2>8. new2 = EditorOf(last, v, u, push, t, s, w)
    BY <2>7 DEF EditorOf
  <2> HIDE DEF new2
  <2>9. new3 = EditorOf(last, v, front, push, t, s, w)
    BY <2>8 DEF EditorOf
  <2> HIDE DEF new3
  <2>10. new4 = EditorOf(last, v, front, push, t, 0, w)
    BY <2>9 DEF EditorOf
  <2> HIDE DEF new4
  <2>11. EditorSound(new4, now)
    BY <2>3, <2>4, <2>5, <2>6, <2>10, EditorMade
  <2>12. KAccepted(new4).editor = new4 /\ KAccepted(new4).accepted = TRUE
    BY DEF KAccepted
  <2>13. Changes(e, KAccepted(new4), now)
    BY <2>11, <2>12, Zenon DEF Changes
  <2> QED
    BY <2>2, <2>13, Zenon
<1> QED
  BY <1>1, <1>2 DEF UndoEdit

LEMMA RedoChanges ==
  ASSUME NEW e, NEW now \in Nat, EditorSound(e, now)
  PROVE  Changes(e, RedoEdit(e), now)
<1>1. Changes(e, KRefused(e), now)
  BY Refuses
<1>2. ASSUME e.redo # <<>>, e.valid
      PROVE  Changes(e, KAccepted([e EXCEPT !.undo = Pushed(@, e.doc), !.doc = Last(e.redo),
                                            !.redo = Front(@), !.sel = 0]), now)
  <2> DEFINE d == e.doc  v == e.valid  u == e.undo  h == e.redo  t == e.tool  s == e.sel
             w == e.preview
             push == Pushed(u, d)  last == Last(h)  front == Front(h)
             new1 == [e EXCEPT !.undo = push]  new2 == [new1 EXCEPT !.doc = last]
             new3 == [new2 EXCEPT !.redo = front]  new4 == [new3 EXCEPT !.sel = 0]
  <2>1. e = EditorOf(d, v, u, h, t, s, w) /\ Older(u, d) /\ Newer(h, d)
    BY EditorIs
  <2>2. [e EXCEPT !.undo = Pushed(@, e.doc), !.doc = Last(e.redo), !.redo = Front(@), !.sel = 0] = new4
    OBVIOUS
  <2>3. /\ d \in DocsUpTo(now) /\ v \in BOOLEAN /\ u \in Seq(DocsUpTo(now)) /\ h \in Seq(DocsUpTo(now))
        /\ t \in KTools /\ w \in BOOLEAN /\ Len(u) <= HistoryCap /\ Len(h) <= HistoryCap /\ h # <<>>
    BY <1>2, SoundIs
  <2> HIDE DEF d, v, u, h, t, s, w
  <2>4. /\ last \in DocsUpTo(now) /\ front \in Seq(DocsUpTo(now)) /\ Len(front) <= Len(h)
        /\ Newer(front, last) /\ d.id < last.id
    BY <2>1, <2>3, FrontInTime
  <2>5. push \in Seq(DocsUpTo(now)) /\ Len(push) <= HistoryCap /\ Older(push, last)
    <3>1. last \in DocsUpTo(now + 1)
      BY <2>4, DocsGrow
    <3> QED
      BY <2>1, <2>3, <2>4, <3>1, PushedOlder
  <2>6. Len(front) <= HistoryCap
    <3>1. Len(front) \in Nat /\ Len(h) \in Nat /\ HistoryCap \in Nat
      BY <2>3, <2>4, LenProperties, EditorNumbers
    <3> QED
      BY <2>3, <2>4, <3>1
  <2> HIDE DEF push, last, front
  <2>7. new1 = EditorOf(d, v, push, h, t, s, w)
    BY <2>1 DEF EditorOf
  <2> HIDE DEF new1
  <2>8. new2 = EditorOf(last, v, push, h, t, s, w)
    BY <2>7 DEF EditorOf
  <2> HIDE DEF new2
  <2>9. new3 = EditorOf(last, v, push, front, t, s, w)
    BY <2>8 DEF EditorOf
  <2> HIDE DEF new3
  <2>10. new4 = EditorOf(last, v, push, front, t, 0, w)
    BY <2>9 DEF EditorOf
  <2> HIDE DEF new4
  <2>11. EditorSound(new4, now)
    BY <2>3, <2>4, <2>5, <2>6, <2>10, EditorMade
  <2>12. KAccepted(new4).editor = new4 /\ KAccepted(new4).accepted = TRUE
    BY DEF KAccepted
  <2>13. Changes(e, KAccepted(new4), now)
    BY <2>11, <2>12, Zenon DEF Changes
  <2> QED
    BY <2>2, <2>13, Zenon
<1> QED
  BY <1>1, <1>2 DEF RedoEdit

\* A document of two equal chunks is one that a page uploaded.
LEMMA ImportChanges ==
  ASSUME NEW e, NEW now \in Nat, EditorSound(e, now), NEW first \in Uploads, NEW second \in Uploads,
         NEW chunks, chunks[1] = first, chunks[2] = second
  PROVE  Changes(e, Imported(e, chunks), now)
<1>1. Changes(e, KRefused(e), now)
  BY Refuses
<1>2. ASSUME first = second PROVE Changes(e, Loaded(e, chunks), now)
  <2> DEFINE doc == [nodes |-> first, id |-> 0]  s == Min(first)  w == e.preview  yes == TRUE
             new1 == [e EXCEPT !.doc = doc]  new2 == [new1 EXCEPT !.valid = yes]
             new3 == [new2 EXCEPT !.undo = <<>>]  new4 == [new3 EXCEPT !.redo = <<>>]
             new5 == [new4 EXCEPT !.tool = "select"]  new6 == [new5 EXCEPT !.sel = s]
  <2>1. chunks[1] \cup chunks[2] = first
    BY <1>2
  <2>2. Loaded(e, chunks) = KAccepted(new6)
    <3> DEFINE nodes == chunks[1] \cup chunks[2]
    <3>1. Loaded(e, chunks) =
            KAccepted([e EXCEPT !.doc = [nodes |-> nodes, id |-> 0], !.valid = TRUE,
                                !.undo = <<>>, !.redo = <<>>, !.tool = "select", !.sel = Min(nodes)])
      BY DEF Loaded
    <3>2. nodes = first
      BY <2>1
    <3> HIDE DEF nodes
    <3> QED
      BY <3>1, <3>2
  <2>3. e = EditorOf(e.doc, e.valid, e.undo, e.redo, e.tool, e.sel, w) /\ w \in BOOLEAN
    BY EditorIs, SoundIs
  <2>4. first \subseteq KNodes /\ first # {} /\ KNodes \subseteq Nat
    BY EditorNumbers
  <2>5. s \in KNodes \cup {0}
    <3>1. Least(first) \in first /\ \A n \in first : Least(first) <= n
      BY <2>4, LeastIsThere
    <3>2. Min(first) \in first
      BY <3>1 DEF Min
    <3> QED
      BY <2>4, <3>2
  <2>6. doc \in DocsUpTo(now)
    BY <2>4 DEF DocsUpTo
  <2>7. /\ <<>> \in Seq(DocsUpTo(now)) /\ Len(<<>>) <= HistoryCap /\ Older(<<>>, doc) /\ Newer(<<>>, doc)
        /\ "select" \in KTools /\ yes \in BOOLEAN
    BY EmptySeq, NothingElse, EditorNumbers DEF KTools
  <2> HIDE DEF doc, s, w, yes
  <2>8. new1 = EditorOf(doc, e.valid, e.undo, e.redo, e.tool, e.sel, w)
    BY <2>3 DEF EditorOf
  <2> HIDE DEF new1
  <2>9. new2 = EditorOf(doc, yes, e.undo, e.redo, e.tool, e.sel, w)
    BY <2>8 DEF EditorOf
  <2> HIDE DEF new2
  <2>10. new3 = EditorOf(doc, yes, <<>>, e.redo, e.tool, e.sel, w)
    BY <2>9 DEF EditorOf
  <2> HIDE DEF new3
  <2>11. new4 = EditorOf(doc, yes, <<>>, <<>>, e.tool, e.sel, w)
    BY <2>10 DEF EditorOf
  <2> HIDE DEF new4
  <2>12. new5 = EditorOf(doc, yes, <<>>, <<>>, "select", e.sel, w)
    BY <2>11 DEF EditorOf
  <2> HIDE DEF new5
  <2>13. new6 = EditorOf(doc, yes, <<>>, <<>>, "select", s, w)
    BY <2>12 DEF EditorOf
  <2> HIDE DEF new6
  <2>14. EditorSound(new6, now)
    BY <2>3, <2>5, <2>6, <2>7, <2>13, EditorMade
  <2>15. KAccepted(new6).editor = new6 /\ KAccepted(new6).accepted = TRUE
    BY DEF KAccepted
  <2>16. Changes(e, KAccepted(new6), now)
    BY <2>14, <2>15, Zenon DEF Changes
  <2> QED
    BY <2>2, <2>16, Zenon
<1>3. Imported(e, chunks) = IF first = second THEN Loaded(e, chunks) ELSE KRefused(e)
  BY DEF Imported
<1> QED
  BY <1>1, <1>2, <1>3

LEMMA CommandForms ==
  ASSUME NEW c \in Commands
  PROVE  /\ c.do \in {"get", "apply", "remove", "undo", "redo", "preview", "tool", "select", "update", "import"}
         /\ c.do = "tool" => c.arg \in KTools
         /\ c.do = "update" => c.arg \in BOOLEAN
         /\ c.do = "import" => c.chunk \in {1, 2} /\ c.arg \in Uploads
BY DEF Commands, Cmd, CmdOn

\* Two chunks, the second of which is appended.
LEMMA AppendedAt ==
  ASSUME NEW S, NEW list \in Seq(S), NEW last \in S, NEW n \in Nat, Len(list) = n
  PROVE  Append(list, last)[n + 1] = last /\ \A i \in 1 .. n : Append(list, last)[i] = list[i]
BY AppendProperties

LEMMA AppendedTwo ==
  ASSUME NEW S, NEW first \in S, NEW last \in S
  PROVE  Append(<<first>>, last)[1] = first /\ Append(<<first>>, last)[2] = last
<1> DEFINE list == <<first>>  n == 1  more == Append(list, last)
<1>1. list \in Seq(S) /\ Len(list) = n /\ n \in Nat /\ list[n] = first
  OBVIOUS
<1> HIDE DEF list, n
<1>2. more[n + 1] = last /\ \A i \in 1 .. n : more[i] = list[i]
  BY <1>1, AppendedAt
<1> HIDE DEF more
<1>3. more[1] = first /\ more[2] = last
  BY <1>1, <1>2 DEF n
<1> QED
  BY <1>3 DEF more, list

\* Whatever a command makes of the editor is sound.
LEMMA OutcomesChange ==
  ASSUME NEW now \in Nat, kVersion.now = now, EditorSound(kEditor, now), NEW c \in Commands,
         c.do = "import" => \E first \in Uploads : kImport.chunks = <<first>>,
         NEW r \in Outcomes(c)
  PROVE  Changes(kEditor, r, now) /\ (c.do = "get" => r.accepted = kEditor.valid)
<1> DEFINE e == kEditor
<1>1. EditorSound(e, now)
  OBVIOUS
<1>2. e.valid \in BOOLEAN
  BY SoundIs
<1>3. Changes(e, KRefused(e), now) /\ KRefused(e).editor = e
  BY Refuses DEF KRefused
<1>4. /\ c.do \in {"get", "apply", "remove", "undo", "redo", "preview", "tool", "select", "update", "import"}
      /\ c.do = "tool" => c.arg \in KTools
      /\ c.do = "update" => c.arg \in BOOLEAN
      /\ c.do = "import" => c.chunk \in {1, 2} /\ c.arg \in Uploads
  BY CommandForms
<1>5. CASE c.do = "get"
  <2>1. r = [editor |-> e, accepted |-> e.valid]
    BY <1>5 DEF Outcomes
  <2>2. r.editor = e /\ r.accepted = e.valid
    BY <2>1
  <2> QED
    BY <1>1, <1>2, <1>5, <2>2, Zenon DEF Changes
<1>6. CASE c.do = "tool"
  <2>1. r = KAccepted([e EXCEPT !.tool = c.arg])
    BY <1>6 DEF Outcomes
  <2>2. EditorSound([e EXCEPT !.tool = c.arg], now)
    BY <1>1, <1>4, <1>6, SoundAnyway
  <2>3. r.editor = [e EXCEPT !.tool = c.arg] /\ r.accepted = TRUE
    BY <2>1 DEF KAccepted
  <2> QED
    BY <1>6, <2>2, <2>3, Zenon DEF Changes
<1>7. CASE c.do = "preview"
  <2>1. r = KAccepted([e EXCEPT !.preview = ~e.preview])
    BY <1>7 DEF Outcomes
  <2>2. EditorSound([e EXCEPT !.preview = ~e.preview], now)
    BY <1>1, SoundAnyway
  <2>3. r.editor = [e EXCEPT !.preview = ~e.preview] /\ r.accepted = TRUE
    BY <2>1 DEF KAccepted
  <2> QED
    BY <1>7, <2>2, <2>3, Zenon DEF Changes
<1>8. CASE c.do = "select"
  <2>1. r = SelectNode(e, c.arg)
    BY <1>8 DEF Outcomes
  <2> HIDE DEF e
  <2> QED
    BY <1>1, <1>8, <2>1, SelectChanges DEF e
<1>9. CASE c.do = "apply"
  <2>1. PICK under \in e.doc.nodes \cup {0} : r = ApplyTool(e, under, now + 1)
    BY <1>9 DEF Outcomes
  <2> QED
    BY <1>1, <1>9, <2>1, ApplyChanges
<1>10. CASE c.do = "remove"
  <2>1. r = RemoveSelected(e, now + 1)
    BY <1>10 DEF Outcomes
  <2> QED
    BY <1>1, <1>10, <2>1, RemoveChanges
<1>11. CASE c.do = "update"
  <2>1. r = UpdateSelected(e, c.arg, now + 1)
    BY <1>11 DEF Outcomes
  <2> QED
    BY <1>1, <1>4, <1>11, <2>1, UpdateChanges
<1>12. CASE c.do = "undo"
  <2>1. r = UndoEdit(e)
    BY <1>12 DEF Outcomes
  <2> QED
    BY <1>1, <1>12, <2>1, UndoChanges
<1>13. CASE c.do = "redo"
  <2>1. r = RedoEdit(e)
    BY <1>13 DEF Outcomes
  <2> QED
    BY <1>1, <1>13, <2>1, RedoChanges
<1>14. CASE c.do = "import"
  <2>1. PICK first \in Uploads : kImport.chunks = <<first>>
    BY <1>14
  <2>2. r = Imported(e, Append(kImport.chunks, c.arg))
    BY <1>14 DEF Outcomes
  <2> DEFINE chunks == Append(kImport.chunks, c.arg)
  <2>3. chunks[1] = first /\ chunks[2] = c.arg
    <3>1. c.arg \in Uploads
      BY <1>4, <1>14
    <3> QED
      BY <2>1, <3>1, AppendedTwo
  <2> HIDE DEF chunks
  <2>4. r = Imported(e, chunks)
    BY <2>2 DEF chunks
  <2> QED
    BY <1>1, <1>4, <1>14, <2>3, <2>4, ImportChanges
<1> QED
  BY <1>4, <1>5, <1>6, <1>7, <1>8, <1>9, <1>10, <1>11, <1>12, <1>13, <1>14

LEMMA ChangedLater ==
  ASSUME NEW e, NEW r, NEW now \in Nat, Changes(e, r, now)
  PROVE  EditorSound(r.editor, now + 1)
BY SoundLater DEF Changes

\* The editor that was edited before is sound.
LEMMA EditedBeforeIsSound == EditorSound(EditedBefore, 4)
<1> DEFINE d == [nodes |-> {1}, id |-> 0]  yes == TRUE  no == FALSE
           made == NewEditor  placing == [made EXCEPT !.tool = "place"]
           r1 == AddCurrentTool(placing, 1)  r2 == RemoveSelected(r1.editor, 2)
           r3 == AddCurrentTool(r2.editor, 3)  r4 == UndoEdit(r3.editor)
<1>1. d \in DocsUpTo(0)
  BY EditorNumbers DEF DocsUpTo
<1>2. /\ <<>> \in Seq(DocsUpTo(0)) /\ Len(<<>>) <= HistoryCap /\ Older(<<>>, d) /\ Newer(<<>>, d)
      /\ "select" \in KTools /\ "place" \in KTools /\ yes \in BOOLEAN /\ no \in BOOLEAN
      /\ 1 \in KNodes \cup {0} /\ 0 \in Nat
  BY EmptySeq, NothingElse, EditorNumbers DEF KTools
<1>3. made = EditorOf(d, yes, <<>>, <<>>, "select", 1, no)
  BY DEF NewEditor, EditorOf
<1>4. EditedBefore = r4.editor
  BY Zenon DEF EditedBefore
<1> HIDE DEF d, yes, no, made
<1>5. EditorSound(made, 0)
  BY <1>1, <1>2, <1>3, EditorMade
<1>6. EditorSound(placing, 0)
  BY <1>2, <1>5, SoundAnyway
<1> HIDE DEF placing
<1>7. EditorSound(r1.editor, 1)
  <2>1. 0 \in Nat /\ 0 + 1 = 1
    OBVIOUS
  <2>2. Changes(placing, AddCurrentTool(placing, 0 + 1), 0)
    BY <1>6, <2>1, AddChanges
  <2>3. Changes(placing, r1, 0)
    BY <2>1, <2>2
  <2> HIDE DEF r1
  <2> QED
    BY <2>1, <2>3, ChangedLater
<1> HIDE DEF r1
<1>8. EditorSound(r2.editor, 2)
  <2>1. 1 \in Nat /\ 1 + 1 = 2
    OBVIOUS
  <2>2. Changes(r1.editor, RemoveSelected(r1.editor, 1 + 1), 1)
    BY <1>7, <2>1, RemoveChanges
  <2>3. Changes(r1.editor, r2, 1)
    BY <2>1, <2>2
  <2> HIDE DEF r2
  <2> QED
    BY <2>1, <2>3, ChangedLater
<1> HIDE DEF r2
<1>9. EditorSound(r3.editor, 3)
  <2>1. 2 \in Nat /\ 2 + 1 = 3
    OBVIOUS
  <2>2. Changes(r2.editor, AddCurrentTool(r2.editor, 2 + 1), 2)
    BY <1>8, <2>1, AddChanges
  <2>3. Changes(r2.editor, r3, 2)
    BY <2>1, <2>2
  <2> HIDE DEF r3
  <2> QED
    BY <2>1, <2>3, ChangedLater
<1> HIDE DEF r3
<1>10. EditorSound(r4.editor, 4)
  <2>1. 3 \in Nat /\ 3 + 1 = 4
    OBVIOUS
  <2>2. Changes(r3.editor, r4, 3)
    BY <1>9, <2>1, UndoChanges
  <2> HIDE DEF r4
  <2> QED
    BY <2>1, <2>2, ChangedLater
<1> QED
  BY <1>4, <1>10

-----------------------------------------------------------------------------
(* What is on the way to a page. *)

LEMMA StateIs ==
  ASSUME NEW e, NEW now \in Nat, EditorSound(e, now), NEW version \in Nat
  PROVE  StateOf(e, version) \in States /\ StateOf(e, version).version = version
<1> DEFINE undoes == e.undo # <<>>  redoes == e.redo # <<>>  whole == TRUE
           told == [doc |-> e.doc, tool |-> e.tool, sel |-> e.sel, preview |-> e.preview]
<1>1. /\ e.doc \in [nodes : SUBSET KNodes, id : Nat] /\ e.tool \in KTools /\ e.sel \in KNodes \cup {0}
      /\ e.preview \in BOOLEAN
  <2>1. e.doc \in DocsUpTo(now)
    BY SoundIs
  <2>2. e.doc \in [nodes : SUBSET KNodes, id : Nat]
    BY <2>1 DEF DocsUpTo
  <2> QED
    BY <2>2, SoundIs
<1>2. told \in [doc : [nodes : SUBSET KNodes, id : Nat], tool : KTools, sel : KNodes \cup {0},
                preview : BOOLEAN]
  BY <1>1, Zenon
<1>3. undoes \in BOOLEAN /\ redoes \in BOOLEAN /\ whole \in {TRUE}
  OBVIOUS
<1>4. StateOf(e, version) = [version |-> version, whole |-> whole, canUndo |-> undoes,
                            canRedo |-> redoes, editor |-> told]
  BY Zenon DEF StateOf
<1> HIDE DEF undoes, redoes, whole, told
<1>5. StateOf(e, version) \in States
  BY <1>2, <1>3, <1>4 DEF States
<1>6. StateOf(e, version).version = version
  BY <1>4
<1> QED
  BY <1>5, <1>6

\* Every answer is one frame: a document of this version, when there is one to send.
LEMMA AnswerIs ==
  ASSUME NEW e, NEW now \in Nat, EditorSound(e, now), NEW version \in Nat, NEW seq \in Nat,
         NEW accepted \in BOOLEAN
  PROVE  \E m \in Answers :
           /\ Answer(seq, e, version, accepted) = <<m>>
           /\ accepted /\ e.valid => m.kind = "document"
           /\ m.kind = "document" => m.state.version = version
<1> DEFINE state == StateOf(e, version)
<1>1. state \in States /\ state.version = version
  BY StateIs
<1> HIDE DEF state
<1>2. CASE accepted /\ e.valid
  <2> DEFINE m == [seq |-> seq, kind |-> "document", state |-> state]
  <2>1. m \in Answers
    BY <1>1 DEF Answers
  <2>2. Answer(seq, e, version, accepted) = <<m>>
    BY <1>2 DEF Answer, state
  <2>3. m.kind = "document" /\ m.state = state
    OBVIOUS
  <2> HIDE DEF m
  <2> QED
    BY <1>1, <2>1, <2>2, <2>3
<1>3. CASE ~(accepted /\ e.valid)
  <2> DEFINE m == [seq |-> seq, kind |-> "rejected"]
  <2>1. m \in Answers
    BY DEF Answers
  <2>2. Answer(seq, e, version, accepted) = <<m>>
    BY <1>3 DEF Answer
  <2>3. m.kind # "document"
    OBVIOUS
  <2> HIDE DEF m
  <2> QED
    BY <1>3, <2>1, <2>2, <2>3
<1> QED
  BY <1>2, <1>3

\* A frame that is not behind what was accepted leaves a page where it will come to.
LEMMA StillComes ==
  ASSUME NEW accepted \in Nat, NEW shown, NEW d \in Seq(Answers), ComesTo(accepted, shown, d),
         NEW m \in Answers, m.kind = "document" => m.state.version >= accepted
  PROVE  ComesTo(accepted, shown, Append(d, m))
<1> DEFINE more == Append(d, m)
<1>1. /\ Len(d) \in Nat /\ Len(more) = Len(d) + 1 /\ more[Len(d) + 1] = m
      /\ \A j \in 1 .. Len(d) : more[j] = d[j]
  BY AppendProperties, LenProperties
<1>2. PICK k \in 0 .. Len(d) :
        /\ k = 0 => shown >= accepted
        /\ k > 0 => d[k].kind = "document"
        /\ \A j \in 1 .. Len(d) : j >= k /\ d[j].kind = "document" => d[j].state.version >= accepted
  BY DEF ComesTo
<1> HIDE DEF more
<1>3. k \in 0 .. Len(more) /\ (k > 0 => more[k].kind = "document")
  BY <1>1, <1>2
<1>4. ASSUME NEW j \in 1 .. Len(more), j >= k, more[j].kind = "document"
      PROVE  more[j].state.version >= accepted
  <2>1. CASE j = Len(d) + 1
    BY <1>1, <1>4, <2>1
  <2>2. CASE j # Len(d) + 1
    <3>1. j \in 1 .. Len(d) /\ more[j] = d[j]
      BY <1>1, <2>2
    <3> QED
      BY <1>2, <1>4, <3>1
  <2> QED
    BY <2>1, <2>2
<1>5. ComesTo(accepted, shown, more)
  BY <1>2, <1>3, <1>4 DEF ComesTo
<1> QED
  BY <1>5 DEF more

\* A document that is not behind what was accepted brings a page there.
LEMMA NowComes ==
  ASSUME NEW accepted \in Nat, NEW shown, NEW d \in Seq(Answers),
         NEW m \in Answers, m.kind = "document", m.state.version >= accepted
  PROVE  ComesTo(accepted, shown, Append(d, m))
<1> DEFINE more == Append(d, m)
<1>1. Len(d) \in Nat /\ Len(more) = Len(d) + 1 /\ more[Len(d) + 1] = m
  BY AppendProperties, LenProperties
<1> HIDE DEF more
<1> DEFINE k == Len(d) + 1
<1>2. /\ k \in 0 .. Len(more) /\ k # 0 /\ more[k].kind = "document"
      /\ \A j \in 1 .. Len(more) : j >= k => j = k
  BY <1>1
<1>3. ComesTo(accepted, shown, more)
  <2>1. \A j \in 1 .. Len(more) : j >= k /\ more[j].kind = "document" => more[j].state.version >= accepted
    BY <1>1, <1>2
  <2> HIDE DEF k
  <2> QED
    BY <1>2, <2>1 DEF ComesTo
<1> QED
  BY <1>3 DEF more

\* A page that reads its next frame comes as far as it would have.
LEMMA ReadComes ==
  ASSUME NEW accepted \in Nat, NEW shown, NEW d \in Seq(Answers), d # <<>>,
         ComesTo(accepted, shown, d)
  PROVE  /\ Head(d).kind = "document" => ComesTo(accepted, Head(d).state.version, Tail(d))
         /\ Head(d).kind # "document" => ComesTo(accepted, shown, Tail(d))
<1> DEFINE rest == Tail(d)  h == Head(d)
<1>1. /\ Len(d) \in Nat \ {0} /\ Len(rest) = Len(d) - 1 /\ h = d[1]
      /\ \A j \in 1 .. Len(rest) : rest[j] = d[j + 1]
  BY HeadTailProperties, EmptySeq, LenProperties
<1>2. PICK k \in 0 .. Len(d) :
        /\ k = 0 => shown >= accepted
        /\ k > 0 => d[k].kind = "document"
        /\ \A j \in 1 .. Len(d) : j >= k /\ d[j].kind = "document" => d[j].state.version >= accepted
  BY DEF ComesTo
<1> HIDE DEF rest, h
<1>3. ASSUME NEW i \in 0 .. Len(rest), k <= i + 1
      PROVE  \A j \in 1 .. Len(rest) : j >= i /\ rest[j].kind = "document" => rest[j].state.version >= accepted
  <2> TAKE j \in 1 .. Len(rest)
  <2>1. rest[j] = d[j + 1] /\ j + 1 \in 1 .. Len(d) /\ (j >= i => j + 1 >= k)
    BY <1>1, <1>3
  <2> QED
    BY <1>2, <2>1
<1>4. CASE k <= 1
  <2>1. /\ 0 \in 0 .. Len(rest) /\ k <= 0 + 1
        /\ h.kind = "document" => h.state.version >= accepted
        /\ h.kind # "document" => k = 0
    BY <1>1, <1>2, <1>4
  <2>2. \A j \in 1 .. Len(rest) : j >= 0 /\ rest[j].kind = "document" => rest[j].state.version >= accepted
    BY <1>3, <2>1
  <2>3. h.kind = "document" => ComesTo(accepted, h.state.version, rest)
    BY <2>1, <2>2 DEF ComesTo
  <2>4. h.kind # "document" => ComesTo(accepted, shown, rest)
    BY <1>2, <2>1, <2>2 DEF ComesTo
  <2> QED
    BY <2>3, <2>4 DEF rest, h
<1>5. CASE k > 1
  <2> DEFINE i == k - 1
  <2>1. i \in 1 .. Len(rest) /\ i \in 0 .. Len(rest) /\ i # 0 /\ k <= i + 1 /\ rest[i] = d[k]
    BY <1>1, <1>2, <1>5
  <2>2. rest[i].kind = "document"
    BY <1>2, <1>5, <2>1
  <2> HIDE DEF i
  <2>3. \A j \in 1 .. Len(rest) : j >= i /\ rest[j].kind = "document" => rest[j].state.version >= accepted
    BY <1>3, <2>1
  <2>4. \A s : ComesTo(accepted, s, rest)
    BY <2>1, <2>2, <2>3 DEF ComesTo
  <2> QED
    BY <2>4 DEF rest, h
<1> QED
  BY <1>4, <1>5

-----------------------------------------------------------------------------
(* The server handles a command. *)

\* What the pages of S show, and what is on the way to them, comes to what was accepted.
AllCome(valid, accepted, S, shows, down) ==
  valid => \A q \in S : ComesTo(accepted, shows[q], down[q])

LEMMA HandleAgrees ==
  ASSUME EditorAgrees, NEW p \in KPages, NEW seq \in Nat, NEW c \in Commands,
         NEW down \in [KPages -> Seq(Answers)], NEW shows, kServed \subseteq KPages,
         AllCome(kEditor.valid, kVersion.accepted, kServed, shows, down),
         p \in kServed \/ c.do = "get",
         Handle(p, seq, c, down)
  PROVE  /\ EditorAgrees' /\ kDown' \in [KPages -> Seq(Answers)] /\ kServed' = kServed \cup {p}
         /\ AllCome(kEditor'.valid, kVersion'.accepted, kServed', shows, kDown')
<1>1. /\ kVersion.now \in Nat /\ kVersion.accepted \in Nat /\ kVersion.accepted <= kVersion.now
      /\ EditorSound(kEditor, kVersion.now) /\ Len(kImport.chunks) < 2
      /\ kImport \in [owner : KPages \cup {Nobody}, chunks : Seq(Uploads)]
  BY DEF EditorAgrees
<1>2. kServed' = kServed \cup {p}
  BY DEF Handle
<1> DEFINE continues == kImport.owner = p /\ Len(kImport.chunks) = 1
<1>3. ASSUME NEW kind \in {"rejected", "pending"}, p \in kServed,
             kDown' = [down EXCEPT ![p] = Append(@, [seq |-> seq, kind |-> kind])],
             UNCHANGED <<kEditor, kVersion>>
      PROVE  /\ kDown' \in [KPages -> Seq(Answers)]
             /\ AllCome(kEditor'.valid, kVersion'.accepted, kServed', shows, kDown')
  <2> DEFINE m == [seq |-> seq, kind |-> kind]
  <2>1. m \in Answers /\ m.kind # "document"
    BY <1>3 DEF Answers
  <2>2. kDown' = [down EXCEPT ![p] = Append(down[p], m)]
    BY <1>3
  <2> HIDE DEF m
  <2>3. Append(down[p], m) \in Seq(Answers)
    BY <2>1, AppendProperties
  <2>4. kDown' \in [KPages -> Seq(Answers)] /\ \A q \in KPages \ {p} : kDown'[q] = down[q]
    BY <2>2, <2>3
  <2>5. kDown'[p] = Append(down[p], m)
    BY <2>2
  <2>6. ASSUME kEditor'.valid, NEW q \in kServed' PROVE ComesTo(kVersion'.accepted, shows[q], kDown'[q])
    <3>1. q \in kServed /\ q \in KPages /\ ComesTo(kVersion.accepted, shows[q], down[q]) /\ down[q] \in Seq(Answers)
      BY <1>2, <1>3, <2>6 DEF AllCome
    <3>2. CASE q = p
      BY <1>1, <1>3, <2>1, <2>5, <3>1, <3>2, StillComes
    <3>3. CASE q # p
      BY <1>3, <2>4, <3>1, <3>3
    <3> QED
      BY <3>2, <3>3
  <2> QED
    BY <2>4, <2>6 DEF AllCome
<1>4. CASE /\ c.do = "import" /\ c.chunk = 1
           /\ kDown' = [down EXCEPT ![p] = Append(@, [seq |-> seq, kind |-> "pending"])]
           /\ kImport' = [owner |-> p, chunks |-> <<c.arg>>]
           /\ UNCHANGED <<kEditor, kVersion>>
  <2>1. c.arg \in Uploads /\ p \in kServed
    BY <1>4, CommandForms
  <2>2. kImport' \in [owner : KPages \cup {Nobody}, chunks : Seq(Uploads)] /\ Len(kImport'.chunks) < 2
    BY <1>4, <2>1
  <2>3. EditorAgrees'
    BY <1>4, <2>2 DEF EditorAgrees
  <2>4. "pending" \in {"rejected", "pending"}
    OBVIOUS
  <2> QED
    BY <1>2, <1>3, <1>4, <2>1, <2>3, <2>4, Zenon
<1>5. CASE /\ c.do = "import" /\ c.chunk = 2 /\ ~continues
           /\ kDown' = [down EXCEPT ![p] = Append(@, [seq |-> seq, kind |-> "rejected"])]
           /\ UNCHANGED <<kEditor, kVersion, kImport>>
  <2>1. p \in kServed /\ UNCHANGED <<kEditor, kVersion>>
    BY <1>5
  <2>2. EditorAgrees'
    BY <1>5 DEF EditorAgrees
  <2>3. "rejected" \in {"rejected", "pending"}
    OBVIOUS
  <2> QED
    BY <1>2, <1>3, <1>5, <2>1, <2>2, <2>3, Zenon
<1>6. ASSUME c.do = "import" => c.chunk = 2 /\ continues,
             kImport' = IF c.do = "import" THEN NoImport ELSE kImport,
             NEW r \in Outcomes(c), NEW version,
             version = kVersion.now + (IF Compared(kEditor) # Compared(r.editor) THEN 1 ELSE 0),
             kEditor' = r.editor,
             kVersion' = [now |-> version, accepted |->
                IF Compared(kEditor) # Compared(r.editor) /\ r.accepted THEN version
                ELSE kVersion.accepted],
             kDown' = [q \in KPages |-> down[q] \o FramesTo(q, p, seq, r, version)]
      PROVE  /\ EditorAgrees' /\ kDown' \in [KPages -> Seq(Answers)]
             /\ AllCome(kEditor'.valid, kVersion'.accepted, kServed', shows, kDown')
  <2> DEFINE changed == Compared(kEditor) # Compared(r.editor)
  <2>1. c.do = "import" => \E first \in Uploads : kImport.chunks = <<first>>
    <3>1. ASSUME c.do = "import" PROVE \E first \in Uploads : kImport.chunks = <<first>>
      <4>1. kImport.chunks \in Seq(Uploads) /\ Len(kImport.chunks) = 1
        BY <1>1, <1>6, <3>1
      <4> DEFINE chunks == kImport.chunks
      <4>2. chunks[1] \in Uploads /\ chunks = <<chunks[1]>>
        BY <4>1
      <4> HIDE DEF chunks
      <4> QED
        BY <4>2 DEF chunks
    <3> QED
      BY <3>1
  <2>2. Changes(kEditor, r, kVersion.now) /\ (c.do = "get" => r.accepted = kEditor.valid)
    BY <1>1, <1>6, <2>1, OutcomesChange
  <2>3. kEditor.valid \in BOOLEAN /\ r.accepted \in BOOLEAN
    BY <1>1, <2>2, SoundIs DEF Changes
  <2>4. r.editor.valid \in BOOLEAN
    <3>1. EditorSound(r.editor, kVersion.now + 1) /\ kVersion.now + 1 \in Nat
      BY <1>1, <2>2, ChangedLater
    <3> QED
      BY <3>1, SoundIs
  <2>5. r.editor.valid # kEditor.valid => changed
    BY DEF Compared
  <2>6. r.editor.valid /\ kEditor.valid /\ r.editor.doc # kEditor.doc => changed
    BY DEF Compared
  <2> HIDE DEF changed
  <2>7. EditorSound(r.editor, version) /\ version \in Nat /\ kVersion.accepted <= version
    <3>1. CASE changed
      <4>1. version = kVersion.now + 1
        BY <1>6, <3>1 DEF changed
      <4> QED
        BY <1>1, <2>2, <4>1, ChangedLater
    <3>2. CASE ~changed
      <4>1. version = kVersion.now
        BY <1>1, <1>6, <3>2 DEF changed
      <4>2. EditorSound(r.editor, kVersion.now)
        BY <2>2, <2>3, <2>4, <2>5, <2>6, <3>2, Zenon DEF Changes
      <4> QED
        BY <1>1, <4>1, <4>2
    <3> QED
      BY <3>1, <3>2
  <2> DEFINE accepted == IF changed /\ r.accepted THEN version ELSE kVersion.accepted
  <2>8. accepted \in Nat /\ accepted <= version
    BY <1>1, <2>7
  <2>9. kVersion' = [now |-> version, accepted |-> accepted]
    BY <1>6 DEF changed
  <2>10. (changed /\ r.accepted) \/ accepted = kVersion.accepted
    OBVIOUS
  <2> HIDE DEF accepted
  <2>11. EditorAgrees'
    <3>1. kVersion' \in [now : Nat, accepted : Nat] /\ kVersion'.accepted <= kVersion'.now
      BY <2>7, <2>8, <2>9
    <3>2. EditorSound(kEditor', kVersion'.now)
      BY <1>6, <2>7, <2>9
    <3>3. kImport' \in [owner : KPages \cup {Nobody}, chunks : Seq(Uploads)] /\ Len(kImport'.chunks) < 2
      <4>1. NoImport \in [owner : KPages \cup {Nobody}, chunks : Seq(Uploads)] /\ Len(NoImport.chunks) < 2
        BY DEF NoImport
      <4> QED
        BY <1>1, <1>6, <4>1
    <3> QED
      BY <3>1, <3>2, <3>3 DEF EditorAgrees
  <2>12. ASSUME NEW q \in KPages
         PROVE  /\ kDown'[q] \in Seq(Answers)
                /\ r.editor.valid /\ q \in kServed' => ComesTo(accepted, shows[q], kDown'[q])
    <3> DEFINE d == down[q]  frames == FramesTo(q, p, seq, r, version)
    <3>1. kDown'[q] = d \o frames /\ d \in Seq(Answers)
      BY <1>6
    <3>2. ASSUME NEW m \in Answers, frames = <<m>>,
                 m.kind = "document" => m.state.version = version,
                 r.editor.valid /\ q \in kServed' /\ m.kind # "document" =>
                   ComesTo(accepted, shows[q], d)
          PROVE  /\ kDown'[q] \in Seq(Answers)
                 /\ r.editor.valid /\ q \in kServed' => ComesTo(accepted, shows[q], kDown'[q])
      <4> HIDE DEF d, frames
      <4>1. kDown'[q] = Append(d, m) /\ Append(d, m) \in Seq(Answers)
        BY <3>1, <3>2, AppendIsConcat, AppendProperties
      <4>2. m.kind = "document" => m.state.version >= accepted
        BY <2>7, <2>8, <3>2
      <4>3. m.kind = "document" => ComesTo(accepted, shows[q], Append(d, m))
        BY <2>8, <3>1, <4>2, NowComes
      <4>4. ComesTo(accepted, shows[q], d) => ComesTo(accepted, shows[q], Append(d, m))
        BY <2>8, <3>1, <4>2, StillComes
      <4> QED
        BY <3>2, <4>1, <4>3, <4>4
    <3>3. CASE q = p
      <4>1. frames = Answer(seq, r.editor, version, r.accepted)
        BY <3>3 DEF FramesTo
      <4>2. PICK m \in Answers : /\ Answer(seq, r.editor, version, r.accepted) = <<m>>
                                 /\ r.accepted /\ r.editor.valid => m.kind = "document"
                                 /\ m.kind = "document" => m.state.version = version
        BY <2>3, <2>7, AnswerIs
      <4>3. ASSUME r.editor.valid, m.kind # "document" PROVE ComesTo(accepted, shows[q], d)
        <5>1. ~r.accepted
          BY <4>2, <4>3
        <5>2. kEditor.valid /\ accepted = kVersion.accepted
          BY <2>2, <2>3, <2>4, <2>10, <4>3, <5>1 DEF Changes
        <5>3. p \in kServed
          BY <2>2, <5>1, <5>2
        <5> QED
          BY <3>3, <5>2, <5>3 DEF AllCome
      <4> HIDE DEF d, frames
      <4> QED
        BY <3>2, <4>1, <4>2, <4>3
    <3>4. CASE q # p /\ q \in kServed /\ IsBroadcast(r)
      <4> DEFINE yes == TRUE
      <4>1. frames = Answer(Broadcast, r.editor, version, yes)
        BY <3>4 DEF FramesTo
      <4>0. yes \in BOOLEAN
        OBVIOUS
      <4>2. Broadcast \in Nat
        BY DEF Broadcast
      <4> HIDE DEF yes
      <4>3. PICK m \in Answers : /\ Answer(Broadcast, r.editor, version, yes) = <<m>>
                                 /\ yes /\ r.editor.valid => m.kind = "document"
                                 /\ m.kind = "document" => m.state.version = version
        BY <2>7, <4>0, <4>2, AnswerIs
      <4>4. m.kind = "document" => m.state.version = version
        BY <4>3
      <4>5. r.editor.valid => m.kind = "document"
        BY <4>3 DEF yes
      <4> HIDE DEF d, frames
      <4> QED
        BY <3>2, <4>1, <4>3, <4>4, <4>5
    <3>5. CASE q # p /\ ~(q \in kServed /\ IsBroadcast(r))
      <4>1. frames = <<>>
        BY <3>5 DEF FramesTo
      <4>2. kDown'[q] = d
        <5> HIDE DEF d, frames
        <5> QED
          BY <3>1, <4>1, ConcatProperties
      <4>3. ASSUME r.editor.valid, q \in kServed' PROVE ComesTo(accepted, shows[q], d)
        <5>1. q \in kServed /\ ~(r.accepted /\ changed)
          BY <1>2, <3>5, <4>3 DEF IsBroadcast, changed
        <5>2. kEditor.valid
          BY <2>2, <2>3, <2>4, <2>5, <4>3, <5>1 DEF Changes
        <5>3. accepted = kVersion.accepted
          BY <2>10, <5>1
        <5> QED
          BY <5>1, <5>2, <5>3 DEF AllCome
      <4> QED
        BY <3>1, <4>2, <4>3
    <3> QED
      BY <3>3, <3>4, <3>5
  <2>13. kDown' \in [KPages -> Seq(Answers)]
    <3>1. kDown' = [q \in KPages |-> kDown'[q]]
      BY <1>6
    <3> QED
      BY <2>12, <3>1
  <2>14. AllCome(kEditor'.valid, kVersion'.accepted, kServed', shows, kDown')
    <3>1. kEditor'.valid = r.editor.valid /\ kVersion'.accepted = accepted /\ kServed' \subseteq KPages
      BY <1>2, <1>6, <2>9
    <3> QED
      BY <2>12, <3>1 DEF AllCome
  <2> QED
    BY <2>11, <2>13, <2>14
<1>7. CASE /\ c.do = "import" => c.chunk = 2 /\ continues
           /\ kImport' = IF c.do = "import" THEN NoImport ELSE kImport
           /\ \E r \in Outcomes(c) :
                LET changed == Compared(kEditor) # Compared(r.editor)
                    version == kVersion.now + (IF changed THEN 1 ELSE 0)
                IN /\ kEditor' = r.editor
                   /\ kVersion' = [now |-> version, accepted |->
                        IF changed /\ r.accepted THEN version ELSE kVersion.accepted]
                   /\ kDown' = [q \in KPages |-> down[q] \o FramesTo(q, p, seq, r, version)]
  <2>1. PICK r \in Outcomes(c) :
          /\ kEditor' = r.editor
          /\ kVersion' = [now |-> kVersion.now + (IF Compared(kEditor) # Compared(r.editor) THEN 1 ELSE 0),
               accepted |-> IF Compared(kEditor) # Compared(r.editor) /\ r.accepted
                            THEN kVersion.now + (IF Compared(kEditor) # Compared(r.editor) THEN 1 ELSE 0)
                            ELSE kVersion.accepted]
          /\ kDown' = [q \in KPages |-> down[q] \o FramesTo(q, p, seq, r,
               kVersion.now + (IF Compared(kEditor) # Compared(r.editor) THEN 1 ELSE 0))]
    BY <1>7, Zenon
  <2> DEFINE version == kVersion.now + (IF Compared(kEditor) # Compared(r.editor) THEN 1 ELSE 0)
  <2>2. /\ version = kVersion.now + (IF Compared(kEditor) # Compared(r.editor) THEN 1 ELSE 0)
        /\ kVersion' = [now |-> version, accepted |->
                IF Compared(kEditor) # Compared(r.editor) /\ r.accepted THEN version
                ELSE kVersion.accepted]
        /\ kDown' = [q \in KPages |-> down[q] \o FramesTo(q, p, seq, r, version)]
    BY <2>1, Zenon
  <2>3. c.do = "import" => c.chunk = 2 /\ continues
    BY <1>7, Zenon
  <2>4. kImport' = IF c.do = "import" THEN NoImport ELSE kImport
    BY <1>7, Zenon
  <2>5. r \in Outcomes(c) /\ kEditor' = r.editor
    BY <2>1, Zenon
  <2> HIDE DEF version, continues
  <2>6. /\ EditorAgrees' /\ kDown' \in [KPages -> Seq(Answers)]
        /\ AllCome(kEditor'.valid, kVersion'.accepted, kServed', shows, kDown')
    BY <1>6, <2>2, <2>3, <2>4, <2>5
  <2> QED
    BY <1>2, <2>6
<1> QED
  BY <1>4, <1>5, <1>7, Zenon DEF Handle

-----------------------------------------------------------------------------
(* A page. *)

PageFields == {"open", "queue", "seq", "waiting", "refreshing", "parts", "shown", "preview"}

\* A page that is about to send the head of its queue.
PageSends(pg) ==
  /\ DOMAIN pg = PageFields
  /\ pg.open \in BOOLEAN /\ pg.queue \in Seq(Tasks) /\ pg.seq \in Nat
  /\ ~pg.open => pg.queue = <<>>
  /\ DOMAIN pg.parts = {}
  /\ pg.shown \in States \cup {NoDocument}

LEMMA PageParts ==
  ASSUME NEW pg
  PROVE  /\ PageIsSound(pg) => PageSends(pg) /\ pg.waiting \in Nat /\ (pg.waiting # 0 <=> pg.queue # <<>>)
         /\ PageSends(pg) /\ pg.waiting \in Nat /\ (pg.waiting # 0 <=> pg.queue # <<>>) => PageIsSound(pg)
<1>1. DOMAIN NewPage = PageFields
  BY DEF NewPage, PageFields
<1> QED
  BY <1>1 DEF PageIsSound, PageSends

LEMMA SendsIs ==
  ASSUME NEW pg, PageSends(pg)
  PROVE  /\ PageIsSound(Sends(pg)) /\ Sends(pg).open = pg.open /\ Sends(pg).shown = pg.shown
         /\ Sends(pg).queue = pg.queue
         /\ pg.queue # <<>> => Sends(pg).waiting = pg.seq + 1
<1>1. CASE pg.queue = <<>>
  <2> DEFINE new == [pg EXCEPT !.waiting = 0]
  <2>1. Sends(pg) = new
    BY <1>1 DEF Sends
  <2>2. /\ DOMAIN new = PageFields /\ new.open = pg.open /\ new.queue = pg.queue /\ new.seq = pg.seq
        /\ new.waiting = 0 /\ new.parts = pg.parts /\ new.shown = pg.shown
    BY DEF PageSends, PageFields
  <2> HIDE DEF new
  <2>3. PageSends(new)
    BY <2>2 DEF PageSends
  <2>4. PageIsSound(new)
    BY <1>1, <2>2, <2>3, PageParts
  <2> QED
    BY <1>1, <2>1, <2>2, <2>4
<1>2. CASE pg.queue # <<>>
  <2> DEFINE new == [pg EXCEPT !.seq = @ + 1, !.waiting = pg.seq + 1]
  <2>1. Sends(pg) = new
    BY <1>2 DEF Sends
  <2>2. /\ DOMAIN new = PageFields /\ new.open = pg.open /\ new.queue = pg.queue /\ new.seq = pg.seq + 1
        /\ new.waiting = pg.seq + 1 /\ new.parts = pg.parts /\ new.shown = pg.shown
    BY DEF PageSends, PageFields
  <2> HIDE DEF new
  <2>3. pg.seq \in Nat /\ pg.seq + 1 \in Nat /\ pg.seq + 1 # 0
    BY DEF PageSends
  <2>4. PageSends(new)
    BY <2>2, <2>3 DEF PageSends
  <2>5. PageIsSound(new)
    BY <1>2, <2>2, <2>3, <2>4, PageParts
  <2> QED
    BY <2>1, <2>2, <2>5
<1> QED
  BY <1>1, <1>2

LEMMA QueuedIs ==
  ASSUME NEW pg, PageIsSound(pg), pg.open, NEW todo \in Seq(Commands) \ {<<>>}, NEW refresh \in BOOLEAN
  PROVE  /\ PageIsSound(Queued(pg, todo, refresh)) /\ Queued(pg, todo, refresh).open
         /\ Queued(pg, todo, refresh).shown = pg.shown
         /\ pg.waiting = 0 => /\ Queued(pg, todo, refresh).waiting # 0
                              /\ Head(Queued(pg, todo, refresh).queue).todo = todo
<1> DEFINE task == [todo |-> todo, refresh |-> refresh]
           pg2 == [pg EXCEPT !.queue = Append(@, task), !.refreshing = @ \/ refresh]
<1>1. Queued(pg, todo, refresh) = IF pg.queue = <<>> THEN Sends(pg2) ELSE pg2
  BY Zenon DEF Queued
<1>2. task \in Tasks /\ task.todo = todo
  BY Zenon DEF Tasks
<1>3. PageSends(pg) /\ pg.waiting \in Nat /\ (pg.waiting # 0 <=> pg.queue # <<>>)
  BY PageParts
<1> HIDE DEF task
<1>4. /\ Append(pg.queue, task) \in Seq(Tasks) /\ Append(pg.queue, task) # <<>>
  BY <1>2, <1>3, AppendProperties DEF PageSends
<1>5. /\ DOMAIN pg2 = PageFields /\ pg2.open = pg.open /\ pg2.queue = Append(pg.queue, task) /\ pg2.seq = pg.seq
      /\ pg2.waiting = pg.waiting /\ pg2.parts = pg.parts /\ pg2.shown = pg.shown
  BY <1>3 DEF PageSends, PageFields
<1> HIDE DEF pg2
<1>6. PageSends(pg2)
  BY <1>3, <1>4, <1>5 DEF PageSends
<1>7. CASE pg.queue = <<>>
  <2>1. Queued(pg, todo, refresh) = Sends(pg2)
    BY <1>1, <1>7
  <2>2. /\ PageIsSound(Sends(pg2)) /\ Sends(pg2).open = pg2.open /\ Sends(pg2).shown = pg2.shown
        /\ Sends(pg2).queue = pg2.queue /\ Sends(pg2).waiting = pg2.seq + 1
    BY <1>4, <1>5, <1>6, SendsIs
  <2>3. pg2.seq + 1 # 0
    BY <1>6 DEF PageSends
  <2>4. Head(Append(<<>>, task)) = task
    OBVIOUS
  <2> QED
    BY <1>2, <1>5, <1>7, <2>1, <2>2, <2>3, <2>4
<1>8. CASE pg.queue # <<>>
  <2>1. Queued(pg, todo, refresh) = pg2 /\ pg.waiting # 0
    BY <1>1, <1>3, <1>8
  <2>2. PageIsSound(pg2)
    BY <1>3, <1>4, <1>5, <1>6, <2>1, PageParts
  <2> QED
    BY <1>5, <2>1, <2>2
<1> QED
  BY <1>7, <1>8

LEMMA SettledIs ==
  ASSUME NEW pg, PageIsSound(pg), pg.open, pg.queue # <<>>, NEW ok \in BOOLEAN
  PROVE  /\ PageIsSound(Settled(pg, ok)) /\ Settled(pg, ok).open /\ Settled(pg, ok).shown = pg.shown
<1> DEFINE head == Head(pg.queue)
           rest == [head EXCEPT !.todo = Tail(@)]
           queue == Tail(pg.queue) \o (IF ok /\ rest.todo # <<>> THEN <<rest>> ELSE <<>>)
           pg2 == [pg EXCEPT !.queue = queue,
                             !.refreshing = @ /\ ~head.refresh,
                             !.preview = IF ok /\ Head(head.todo).do = "preview" THEN ~@ ELSE @]
<1>1. Settled(pg, ok) = Sends(pg2)
  BY Zenon DEF Settled
<1>2. PageSends(pg)
  BY PageParts
<1>3. queue \in Seq(Tasks)
  <2>1. head \in Tasks /\ Tail(pg.queue) \in Seq(Tasks)
    BY <1>2, HeadTailProperties DEF PageSends
  <2>2. head.todo \in Seq(Commands) /\ head.todo # <<>> /\ head.refresh \in BOOLEAN
        /\ head = [todo |-> head.todo, refresh |-> head.refresh]
    BY <2>1 DEF Tasks
  <2>3. Tail(head.todo) \in Seq(Commands)
    BY <2>2, HeadTailProperties
  <2> DEFINE after == Tail(head.todo)
  <2>4. rest.todo = after /\ rest = [todo |-> after, refresh |-> head.refresh]
    <3> DEFINE todo == head.todo  refresh == head.refresh  put == Tail(todo)
    <3>1. head = [todo |-> todo, refresh |-> refresh] /\ rest = [head EXCEPT !.todo = put] /\ put = after
      BY <2>2
    <3> HIDE DEF head, todo, refresh, put, rest, after
    <3>2. [head EXCEPT !.todo = put] = [todo |-> put, refresh |-> refresh]
      BY <3>1
    <3>3. rest = [todo |-> after, refresh |-> refresh] /\ rest.todo = after
      BY <3>1, <3>2
    <3> QED
      BY <3>3 DEF refresh
  <2> HIDE DEF head, rest, after
  <2>5. rest.todo # <<>> => rest \in Tasks
    BY <2>2, <2>3, <2>4, Zenon DEF after, Tasks
  <2>6. (IF ok /\ rest.todo # <<>> THEN <<rest>> ELSE <<>>) \in Seq(Tasks)
    BY <2>5
  <2> QED
    BY <2>1, <2>6, ConcatProperties
<1> HIDE DEF queue
<1>4. /\ DOMAIN pg2 = PageFields /\ pg2.open = pg.open /\ pg2.queue = queue /\ pg2.seq = pg.seq
      /\ pg2.parts = pg.parts /\ pg2.shown = pg.shown
  BY <1>2 DEF PageSends, PageFields
<1> HIDE DEF pg2
<1>5. PageSends(pg2)
  BY <1>2, <1>3, <1>4 DEF PageSends
<1> QED
  BY <1>1, <1>4, <1>5, SendsIs

\* The first chunk of a document is a part of its own.
LEMMA FirstChunkIs ==
  ASSUME NEW pg, PageIsSound(pg), NEW m
  PROVE  /\ FirstChunk(pg, m).parts[m.seq] = m.state
         /\ DOMAIN FirstChunk(pg, m) = PageFields /\ FirstChunk(pg, m).seq = pg.seq
         /\ FirstChunk(pg, m).shown = pg.shown
<1> DEFINE parts == [s \in DOMAIN pg.parts \cup {m.seq} |-> IF s = m.seq THEN m.state ELSE pg.parts[s]]
<1>1. DOMAIN pg = PageFields /\ DOMAIN pg.parts = {}
  BY PageParts DEF PageSends
<1>2. FirstChunk(pg, m) = [pg EXCEPT !.parts = parts]
  BY <1>1 DEF FirstChunk
<1>3. parts[m.seq] = m.state
  OBVIOUS
<1> HIDE DEF parts
<1> QED
  BY <1>1, <1>2, <1>3 DEF PageFields

LEMMA AnswerForms ==
  ASSUME NEW m \in Answers
  PROVE  /\ m.kind \in {"document", "rejected", "pending"}
         /\ m.kind = "document" => m.state \in States /\ m.state.version \in Nat
BY DEF Answers, States

LEMMA ReceivedIs ==
  ASSUME NEW pg, PageIsSound(pg), pg.open, NEW m \in Answers
  PROVE  /\ PageIsSound(Received(pg, m)) /\ Received(pg, m).open
         /\ m.kind = "document" => Received(pg, m).shown.version = m.state.version
         /\ m.kind # "document" => Received(pg, m).shown = pg.shown
<1> DEFINE answered(q, ok) == IF m.seq = q.waiting /\ q.waiting # 0 THEN Settled(q, ok) ELSE q
           first == FirstChunk(pg, m).parts[m.seq]
<1>1. ASSUME NEW q, PageIsSound(q), q.open, NEW ok \in BOOLEAN
      PROVE  PageIsSound(answered(q, ok)) /\ answered(q, ok).open /\ answered(q, ok).shown = q.shown
  <2>1. q.waiting # 0 => q.queue # <<>>
    BY <1>1, PageParts
  <2>2. CASE m.seq = q.waiting /\ q.waiting # 0
    BY <1>1, <2>1, <2>2, SettledIs
  <2>3. CASE ~(m.seq = q.waiting /\ q.waiting # 0)
    BY <1>1, <2>3
  <2> QED
    BY <2>2, <2>3
<1>2. CASE m.kind = "rejected"
  <2>1. Received(pg, m) = answered(pg, FALSE)
    BY <1>2 DEF Received
  <2> HIDE DEF answered
  <2> QED
    BY <1>1, <1>2, <2>1
<1>3. CASE m.kind = "pending"
  <2>1. Received(pg, m) = answered(pg, TRUE)
    BY <1>3 DEF Received
  <2> HIDE DEF answered
  <2> QED
    BY <1>1, <1>3, <2>1
<1>4. CASE m.kind = "document"
  <2> DEFINE state == [m.state EXCEPT !.whole = first = m.state]
             parts == [s \in DOMAIN pg.parts \ {m.seq} |-> pg.parts[s]]
             pg2 == [pg EXCEPT !.parts = [s \in DOMAIN @ \ {m.seq} |-> @[s]],
                               !.preview = m.state.editor.preview,
                               !.shown = [m.state EXCEPT !.whole = first = m.state]]
  <2>1. Received(pg, m) = answered(pg2, TRUE)
    BY <1>4 DEF Received
  <2>2. PageSends(pg) /\ pg.waiting \in Nat /\ (pg.waiting # 0 <=> pg.queue # <<>>)
    BY PageParts
  <2>3. m.state \in States
    BY <1>4, AnswerForms
  <2>4. first = m.state
    BY FirstChunkIs
  <2>5. state \in States /\ state.version = m.state.version
    <3> DEFINE whole == first = m.state
    <3>1. whole = TRUE
      BY <2>4
    <3>2. whole \in {TRUE}
      BY <3>1
    <3> HIDE DEF whole
    <3>3. [m.state EXCEPT !.whole = whole] \in States /\ [m.state EXCEPT !.whole = whole].version = m.state.version
      BY <2>3, <3>2 DEF States
    <3> QED
      BY <3>3 DEF whole
  <2>6. pg2 = [pg EXCEPT !.parts = parts, !.preview = m.state.editor.preview, !.shown = state]
    BY <2>2 DEF PageSends, PageFields
  <2>7. DOMAIN parts = {}
    BY <2>2 DEF PageSends
  <2> HIDE DEF parts, state, pg2, answered, first
  <2>8. /\ DOMAIN pg2 = PageFields /\ pg2.open = pg.open /\ pg2.queue = pg.queue /\ pg2.seq = pg.seq
        /\ pg2.waiting = pg.waiting /\ pg2.parts = parts /\ pg2.shown = state
    BY <2>2, <2>6 DEF PageSends, PageFields
  <2>9. PageIsSound(pg2) /\ pg2.open
    <3>1. PageSends(pg2)
      BY <2>2, <2>5, <2>7, <2>8 DEF PageSends
    <3> QED
      BY <2>2, <2>8, <3>1, PageParts
  <2> QED
    BY <1>1, <1>4, <2>1, <2>5, <2>8, <2>9
<1> QED
  BY <1>2, <1>3, <1>4, AnswerForms

LEMMA EmptiedIs ==
  ASSUME NEW pg, PageIsSound(pg), NEW m, NEW last \in {pg, FirstChunk(pg, m)}
  PROVE  PageIsSound(Emptied(last)) /\ ~Emptied(last).open
<1>1. PageSends(pg)
  BY PageParts
<1>2. DOMAIN last = PageFields /\ last.seq = pg.seq /\ last.shown = pg.shown
  BY <1>1, FirstChunkIs DEF PageSends
<1> DEFINE new == Emptied(last)
<1>3. /\ DOMAIN new = PageFields /\ ~new.open /\ new.open \in BOOLEAN /\ new.queue = <<>> /\ new.waiting = 0
      /\ new.seq = pg.seq /\ new.shown = pg.shown /\ new.parts = <<>>
  BY <1>2 DEF Emptied, PageFields
<1>4. <<>> \in Seq(Tasks) /\ DOMAIN <<>> = {} /\ 0 \in Nat
  OBVIOUS
<1> HIDE DEF new
<1>5. PageSends(new)
  BY <1>1, <1>3, <1>4 DEF PageSends
<1>6. PageIsSound(new)
  BY <1>3, <1>4, <1>5, PageParts
<1> QED
  BY <1>3, <1>6 DEF new

\* The command a page sends is one.
LEMMA CommandIs ==
  ASSUME NEW pg, PageIsSound(pg), pg.waiting # 0
  PROVE  Head(Head(pg.queue).todo) \in Commands
<1>1. pg.queue \in Seq(Tasks) /\ pg.queue # <<>>
  BY PageParts DEF PageSends
<1> DEFINE head == Head(pg.queue)
<1>2. head \in Tasks
  BY <1>1, HeadTailProperties
<1>3. head.todo \in Seq(Commands) /\ head.todo # <<>>
  BY <1>2 DEF Tasks
<1> HIDE DEF head
<1> QED
  BY <1>3, HeadTailProperties DEF head

LEMMA TasksAre ==
  ASSUME NEW shown \in States, NEW t \in TasksOf(shown)
  PROVE  t \in Seq(Commands) \ {<<>>}
<1>1. shown.editor.tool \in KTools /\ shown.editor.doc.nodes \subseteq KNodes
  BY DEF States
<1>2. /\ Cmd("get") \in Commands /\ Cmd("apply") \in Commands /\ Cmd("remove") \in Commands
      /\ Cmd("undo") \in Commands /\ Cmd("redo") \in Commands /\ Cmd("preview") \in Commands
  BY DEF Commands
<1>3. /\ \A tool \in KTools : CmdOn("tool", tool) \in Commands
      /\ \A n \in shown.editor.doc.nodes : CmdOn("select", n) \in Commands
      /\ \A b \in BOOLEAN : CmdOn("update", b) \in Commands
  BY <1>1 DEF Commands
<1>4. \A u \in Uploads, k \in {1, 2} : [do |-> "import", chunk |-> k, arg |-> u] \in Commands
  BY DEF Commands
<1>5. "place" \in KTools /\ "erase" \in KTools /\ TRUE \in BOOLEAN /\ FALSE \in BOOLEAN
  BY DEF KTools
<1>6. \A c \in Commands : <<c>> \in Seq(Commands) \ {<<>>}
  OBVIOUS
<1>7. \A c, d \in Commands : <<c, d>> \in Seq(Commands) \ {<<>>}
  OBVIOUS
<1>8. \A c, d, f \in Commands : <<c, d, f>> \in Seq(Commands) \ {<<>>}
  OBVIOUS
<1> DEFINE seen == shown.editor
<1>9. CASE t \in ToolTasks
  BY <1>3, <1>5, <1>6, <1>9 DEF ToolTasks
<1>10. CASE t \in HierarchyTasks(seen)
  BY <1>3, <1>6, <1>10 DEF HierarchyTasks
<1>11. CASE t \in InspectorTasks
  BY <1>3, <1>5, <1>6, <1>11 DEF InspectorTasks
<1>12. CASE t \in CanvasTasks(seen)
  <2>1. seen.tool = "select" => t \in {<<CmdOn("select", n)>> : n \in seen.doc.nodes}
    BY <1>12 DEF CanvasTasks
  <2>2. seen.tool = "erase" => t \in {<<CmdOn("select", n), Cmd("apply")>> : n \in seen.doc.nodes}
    BY <1>12 DEF CanvasTasks
  <2>3. seen.tool = "place" => t \in {<<Cmd("apply")>>}
    BY <1>12 DEF CanvasTasks
  <2>4. seen.tool \in {"select", "erase", "place"}
    BY <1>1 DEF KTools
  <2> QED
    <3>1. CASE seen.tool = "select"
      BY <1>3, <1>6, <2>1, <3>1
    <3>2. CASE seen.tool = "erase"
      BY <1>2, <1>3, <1>7, <2>2, <3>2
    <3>3. CASE seen.tool = "place"
      BY <1>2, <1>6, <2>3, <3>3
    <3> QED
      BY <2>4, <3>1, <3>2, <3>3
<1>13. CASE t \in {ImportTask(u) : u \in Uploads}
  BY <1>4, <1>7, <1>13 DEF ImportTask
<1>14. CASE t \in {<<Cmd("remove")>>, <<Cmd("preview")>>, <<Cmd("undo")>>, <<Cmd("redo")>>}
  BY <1>2, <1>6, <1>14
<1>15. CASE t = AddAssetTask
  BY <1>2, <1>3, <1>5, <1>8, <1>15 DEF AddAssetTask
<1> HIDE DEF seen
<1>16. \/ t \in ToolTasks \/ t \in HierarchyTasks(seen) \/ t \in InspectorTasks \/ t \in CanvasTasks(seen)
       \/ t \in {ImportTask(u) : u \in Uploads} \/ t = AddAssetTask
       \/ t \in {<<Cmd("remove")>>, <<Cmd("preview")>>, <<Cmd("undo")>>, <<Cmd("redo")>>}
  BY DEF TasksOf, seen
<1> QED
  BY <1>9, <1>10, <1>11, <1>12, <1>13, <1>14, <1>15, <1>16, Zenon

-----------------------------------------------------------------------------
(* The steps. *)

\* The versions the pages show, page p being "new".
Shows(p, new) == [q \in KPages |-> IF q = p THEN new.shown.version ELSE kPage[q].shown.version]

LEMMA BecomesAgrees ==
  ASSUME EditingAgrees, NEW p \in KPages, NEW new, PageIsSound(new), new.open,
         NEW down \in [KPages -> Seq(Answers)],
         AllCome(kEditor.valid, kVersion.accepted, kServed, Shows(p, new), down),
         \/ p \in kServed
         \/ new.waiting \notin {0, kPage[p].waiting} /\ Head(Head(new.queue).todo).do = "get",
         Becomes(p, new, down)
  PROVE  EditingAgrees'
<1>1. /\ EditorAgrees /\ DOMAIN kPage = KPages /\ \A q \in KPages : PageIsSound(kPage[q])
      /\ kDown \in [KPages -> Seq(Answers)] /\ kServed = {q \in KPages : kPage[q].open}
  BY DEF EditingAgrees, PagesAgree
<1>2. kPage' = [kPage EXCEPT ![p] = new]
  BY DEF Becomes
<1>3. /\ DOMAIN kPage' = KPages /\ kPage'[p] = new /\ \A q \in KPages \ {p} : kPage'[q] = kPage[q]
  BY <1>1, <1>2
<1>4. \A q \in KPages : PageIsSound(kPage'[q]) /\ kPage'[q].shown.version = Shows(p, new)[q]
  BY <1>1, <1>3 DEF Shows
<1>5. {q \in KPages : kPage'[q].open} = kServed \cup {p}
  BY <1>1, <1>3
<1>6. /\ EditorAgrees' /\ kDown' \in [KPages -> Seq(Answers)] /\ kServed' = kServed \cup {p}
      /\ AllCome(kEditor'.valid, kVersion'.accepted, kServed', Shows(p, new), kDown')
  <2>1. CASE new.waiting \notin {0, kPage[p].waiting}
    <3> DEFINE c == Head(Head(new.queue).todo)
    <3>1. c \in Commands /\ new.waiting \in Nat
      BY <2>1, CommandIs, PageParts
    <3>2. Handle(p, new.waiting, c, down)
      BY <2>1 DEF Becomes
    <3>3. p \in kServed \/ c.do = "get"
      OBVIOUS
    <3>4. kServed \subseteq KPages
      BY <1>1
    <3> HIDE DEF c
    <3> QED
      BY <1>1, <3>1, <3>2, <3>3, <3>4, HandleAgrees
  <2>2. CASE ~(new.waiting \notin {0, kPage[p].waiting})
    <3>1. kDown' = down /\ UNCHANGED <<kEditor, kVersion, kImport, kServed>> /\ p \in kServed
      BY <2>2, Zenon DEF Becomes
    <3>2. EditorAgrees'
      BY <1>1, <3>1 DEF EditorAgrees
    <3>3. AllCome(kEditor'.valid, kVersion'.accepted, kServed', Shows(p, new), kDown')
      BY <3>1
    <3> QED
      BY <3>1, <3>2, <3>3
  <2> QED
    BY <2>1, <2>2
<1>7. PagesAgree'
  BY <1>3, <1>4, <1>5, <1>6 DEF PagesAgree
<1>8. DocumentComes'
  <2>1. kServed' \subseteq KPages
    BY <1>1, <1>6
  <2> QED
    BY <1>4, <1>6, <2>1 DEF DocumentComes, AllCome
<1> QED
  BY <1>6, <1>7, <1>8 DEF EditingAgrees

\* A page that shows what it showed comes to what it would have.
LEMMA SameComes ==
  ASSUME EditingAgrees, NEW p \in KPages, NEW new, p \in kServed => new.shown = kPage[p].shown
  PROVE  AllCome(kEditor.valid, kVersion.accepted, kServed, Shows(p, new), kDown)
<1>1. kServed \subseteq KPages
  BY DEF EditingAgrees, PagesAgree
<1>2. \A q \in kServed : Shows(p, new)[q] = kPage[q].shown.version
  BY <1>1 DEF Shows
<1> QED
  BY <1>2 DEF AllCome, EditingAgrees, DocumentComes

LEMMA PageNow ==
  ASSUME EditingAgrees, NEW p \in KPages
  PROVE  /\ PageIsSound(kPage[p]) /\ (p \in kServed <=> kPage[p].open)
         /\ kDown \in [KPages -> Seq(Answers)]
BY DEF EditingAgrees, PagesAgree

LEMMA StartAgrees ==
  ASSUME EditingAgrees, NEW p \in KPages, KStart(p)
  PROVE  EditingAgrees'
<1> DEFINE pg == kPage[p]
<1>1. /\ PageIsSound(pg) /\ (p \in kServed <=> pg.open) /\ kDown \in [KPages -> Seq(Answers)]
  BY PageNow
<1>2. pg.open /\ pg.shown # NoDocument
  BY DEF KStart
<1> DEFINE no == FALSE
<1>3. PICK t \in TasksOf(pg.shown) : Becomes(p, Queued(pg, t, no), kDown)
  BY DEF KStart
<1>4. pg.shown \in States
  BY <1>1, <1>2, PageParts DEF PageSends
<1>5. t \in Seq(Commands) \ {<<>>} /\ no \in BOOLEAN
  BY <1>4, TasksAre
<1> HIDE DEF pg, no
<1> DEFINE new == Queued(pg, t, no)
<1>6. PageIsSound(new) /\ new.open /\ new.shown = pg.shown
  BY <1>1, <1>2, <1>5, QueuedIs
<1> HIDE DEF new
<1>7. AllCome(kEditor.valid, kVersion.accepted, kServed, Shows(p, new), kDown)
  BY <1>6, SameComes DEF pg
<1> QED
  BY <1>1, <1>2, <1>3, <1>6, <1>7, BecomesAgrees DEF new

LEMMA GetIsATask ==
  /\ <<Cmd("get")>> \in Seq(Commands) \ {<<>>} /\ Head(<<Cmd("get")>>).do = "get"
  /\ TRUE \in BOOLEAN
<1>1. Cmd("get") \in Commands /\ Cmd("get").do = "get"
  BY DEF Commands, Cmd
<1> QED
  BY <1>1

LEMMA RefreshAgrees ==
  ASSUME EditingAgrees, NEW p \in KPages, KRefresh(p)
  PROVE  EditingAgrees'
<1> DEFINE pg == kPage[p]  yes == TRUE  get == <<Cmd("get")>>
<1>1. /\ PageIsSound(pg) /\ (p \in kServed <=> pg.open) /\ kDown \in [KPages -> Seq(Answers)]
  BY PageNow
<1>2. pg.open
  BY DEF KRefresh
<1>3. Becomes(p, Queued(pg, get, yes), kDown)
  BY DEF KRefresh
<1>4. get \in Seq(Commands) \ {<<>>} /\ yes \in BOOLEAN
  BY GetIsATask
<1> HIDE DEF pg, yes, get
<1> DEFINE new == Queued(pg, get, yes)
<1>5. PageIsSound(new) /\ new.open /\ new.shown = pg.shown
  BY <1>1, <1>2, <1>4, QueuedIs
<1> HIDE DEF new
<1>6. AllCome(kEditor.valid, kVersion.accepted, kServed, Shows(p, new), kDown)
  BY <1>5, SameComes DEF pg
<1> QED
  BY <1>1, <1>2, <1>3, <1>5, <1>6, BecomesAgrees DEF new

LEMMA TimeoutAgrees ==
  ASSUME EditingAgrees, NEW p \in KPages, KTimeout(p)
  PROVE  EditingAgrees'
<1> DEFINE pg == kPage[p]  no == FALSE
<1>1. /\ PageIsSound(pg) /\ (p \in kServed <=> pg.open) /\ kDown \in [KPages -> Seq(Answers)]
  BY PageNow
<1>2. pg.waiting # 0 /\ Becomes(p, Settled(pg, no), kDown)
  BY DEF KTimeout
<1>3. no \in BOOLEAN
  OBVIOUS
<1>4. pg.queue # <<>> /\ pg.open
  BY <1>1, <1>2, PageParts DEF PageSends
<1> HIDE DEF pg, no
<1> DEFINE new == Settled(pg, no)
<1>5. PageIsSound(new) /\ new.open /\ new.shown = pg.shown
  BY <1>1, <1>3, <1>4, SettledIs
<1> HIDE DEF new
<1>6. AllCome(kEditor.valid, kVersion.accepted, kServed, Shows(p, new), kDown)
  BY <1>5, SameComes DEF pg
<1> QED
  BY <1>1, <1>2, <1>4, <1>5, <1>6, BecomesAgrees DEF new

LEMMA ReceiveAgrees ==
  ASSUME EditingAgrees, NEW p \in KPages, KReceive(p)
  PROVE  EditingAgrees'
<1> DEFINE pg == kPage[p]  m == Head(kDown[p])  down == [kDown EXCEPT ![p] = Tail(@)]
           new == Received(pg, m)
<1>1. /\ PageIsSound(pg) /\ (p \in kServed <=> pg.open) /\ kDown \in [KPages -> Seq(Answers)]
  BY PageNow
<1>2. pg.open /\ kDown[p] # <<>> /\ Becomes(p, new, down)
  BY DEF KReceive
<1>3. m \in Answers /\ Tail(kDown[p]) \in Seq(Answers) /\ kDown[p] \in Seq(Answers)
  BY <1>1, <1>2, HeadTailProperties
<1>4. down \in [KPages -> Seq(Answers)] /\ down[p] = Tail(kDown[p]) /\ \A q \in KPages \ {p} : down[q] = kDown[q]
  BY <1>1, <1>3
<1> HIDE DEF pg, down
<1>5. /\ PageIsSound(new) /\ new.open
      /\ m.kind = "document" => new.shown.version = m.state.version
      /\ m.kind # "document" => new.shown = pg.shown
  <2> HIDE DEF m
  <2> QED
    BY <1>1, <1>2, <1>3, ReceivedIs
<1> HIDE DEF new
<1>6. AllCome(kEditor.valid, kVersion.accepted, kServed, Shows(p, new), down)
  <2> SUFFICES ASSUME kEditor.valid, NEW q \in kServed
               PROVE  ComesTo(kVersion.accepted, Shows(p, new)[q], down[q])
    BY DEF AllCome
  <2>1. q \in KPages /\ kVersion.accepted \in Nat
    BY DEF EditingAgrees, PagesAgree, EditorAgrees
  <2>2. ComesTo(kVersion.accepted, kPage[q].shown.version, kDown[q])
    BY DEF EditingAgrees, DocumentComes
  <2>3. CASE q # p
    BY <1>4, <2>1, <2>2, <2>3 DEF Shows
  <2>4. CASE q = p
    <3>1. Shows(p, new)[q] = new.shown.version
      BY <2>4 DEF Shows
    <3>2. /\ m.kind = "document" => ComesTo(kVersion.accepted, m.state.version, Tail(kDown[p]))
          /\ m.kind # "document" => ComesTo(kVersion.accepted, pg.shown.version, Tail(kDown[p]))
      BY <1>2, <1>3, <2>1, <2>2, <2>4, ReadComes DEF pg
    <3> HIDE DEF m
    <3> QED
      BY <1>4, <1>5, <2>4, <3>1, <3>2
  <2> QED
    BY <2>3, <2>4
<1> QED
  BY <1>1, <1>2, <1>4, <1>5, <1>6, BecomesAgrees

LEMMA LoseAgrees ==
  ASSUME EditingAgrees, NEW p \in KPages, KLose(p)
  PROVE  EditingAgrees'
<1> DEFINE pg == kPage[p]  m == Head(kDown[p])
<1>1. /\ PageIsSound(pg) /\ (p \in kServed <=> pg.open) /\ kDown \in [KPages -> Seq(Answers)]
  BY PageNow
<1>2. PICK last \in {pg, FirstChunk(pg, m)} : kPage' = [kPage EXCEPT ![p] = Emptied(last)]
  BY DEF KLose
<1>3. /\ kServed' = kServed \ {p} /\ kDown' = [kDown EXCEPT ![p] = <<>>]
      /\ kImport' = (IF kImport.owner = p THEN NoImport ELSE kImport)
      /\ UNCHANGED <<kEditor, kVersion>>
  BY DEF KLose, Released
<1> DEFINE new == Emptied(last)
<1>4. PageIsSound(new) /\ ~new.open
  <2> HIDE DEF pg, m
  <2> QED
    BY <1>1, EmptiedIs
<1> HIDE DEF new
<1>5. /\ DOMAIN kPage = KPages /\ \A q \in KPages : PageIsSound(kPage[q])
      /\ kServed = {q \in KPages : kPage[q].open} /\ EditorAgrees
  BY DEF EditingAgrees, PagesAgree
<1>6. DOMAIN kPage' = KPages /\ kPage'[p] = new /\ \A q \in KPages \ {p} : kPage'[q] = kPage[q]
  BY <1>2, <1>5 DEF new
<1>7. <<>> \in Seq(Answers)
  OBVIOUS
<1>8. /\ kDown' \in [KPages -> Seq(Answers)] /\ \A q \in KPages \ {p} : kDown'[q] = kDown[q]
  BY <1>1, <1>3, <1>7
<1>9. PagesAgree'
  BY <1>3, <1>4, <1>5, <1>6, <1>8 DEF PagesAgree
<1>10. EditorAgrees'
  <2>1. NoImport \in [owner : KPages \cup {Nobody}, chunks : Seq(Uploads)] /\ Len(NoImport.chunks) < 2
    BY DEF NoImport
  <2> QED
    BY <1>3, <1>5, <2>1 DEF EditorAgrees
<1>11. DocumentComes'
  <2> SUFFICES ASSUME kEditor'.valid, NEW q \in kServed'
               PROVE  ComesTo(kVersion'.accepted, kPage'[q].shown.version, kDown'[q])
    BY DEF DocumentComes
  <2>1. q \in kServed /\ q \in KPages \ {p} /\ kEditor.valid
    BY <1>3, <1>5
  <2>2. ComesTo(kVersion.accepted, kPage[q].shown.version, kDown[q])
    BY <2>1 DEF EditingAgrees, DocumentComes
  <2> QED
    BY <1>3, <1>6, <1>8, <2>1, <2>2
<1> QED
  BY <1>9, <1>10, <1>11 DEF EditingAgrees

LEMMA ConnectAgrees ==
  ASSUME EditingAgrees, NEW p \in KPages, KConnect(p)
  PROVE  EditingAgrees'
<1> DEFINE old == kPage[p]  yes == TRUE  get == <<Cmd("get")>>  pg == [old EXCEPT !.open = TRUE]
<1>1. /\ PageIsSound(old) /\ (p \in kServed <=> old.open) /\ kDown \in [KPages -> Seq(Answers)]
  BY PageNow
<1>2. ~old.open /\ Becomes(p, Queued(pg, get, yes), kDown)
  BY DEF KConnect
<1>3. get \in Seq(Commands) \ {<<>>} /\ yes \in BOOLEAN /\ Head(get).do = "get"
  BY GetIsATask
<1>4. /\ PageSends(old) /\ old.queue = <<>> /\ old.waiting = 0
  BY <1>1, <1>2, PageParts DEF PageSends
<1>5. /\ DOMAIN pg = PageFields /\ pg.open /\ pg.open \in BOOLEAN /\ pg.queue = old.queue /\ pg.seq = old.seq
      /\ pg.waiting = old.waiting /\ pg.parts = old.parts /\ pg.shown = old.shown
  <2> HIDE DEF old
  <2> QED
    BY <1>4 DEF PageSends, PageFields
<1> HIDE DEF old, pg, yes, get
<1>6. PageIsSound(pg) /\ pg.waiting = 0
  <2>1. PageSends(pg) /\ pg.waiting \in Nat /\ (pg.waiting # 0 <=> pg.queue # <<>>)
    BY <1>4, <1>5 DEF PageSends
  <2> QED
    BY <1>4, <1>5, <2>1, PageParts
<1> DEFINE new == Queued(pg, get, yes)
<1>7. /\ PageIsSound(new) /\ new.open /\ new.shown = pg.shown /\ new.waiting # 0
      /\ Head(new.queue).todo = get
  BY <1>3, <1>5, <1>6, QueuedIs
<1> HIDE DEF new
<1>8. AllCome(kEditor.valid, kVersion.accepted, kServed, Shows(p, new), kDown)
  BY <1>1, <1>2, SameComes
<1>9. new.waiting \notin {0, kPage[p].waiting} /\ Head(Head(new.queue).todo).do = "get"
  BY <1>3, <1>4, <1>7 DEF old
<1> QED
  BY <1>1, <1>2, <1>7, <1>8, <1>9, BecomesAgrees DEF new

-----------------------------------------------------------------------------
(* The invariant. *)

LEMMA EditingBegins == KInit => EditingAgrees
<1> SUFFICES ASSUME KInit PROVE EditingAgrees
  OBVIOUS
<1>1. /\ kEditor = EditedBefore /\ kVersion = [now |-> 4, accepted |-> 4] /\ kImport = NoImport
      /\ kServed = {} /\ kDown = [p \in KPages |-> <<>>] /\ kPage = [p \in KPages |-> NewPage]
  BY DEF KInit
<1>2. EditorAgrees
  <2>1. kVersion \in [now : Nat, accepted : Nat] /\ kVersion.accepted <= kVersion.now /\ kVersion.now = 4
    BY <1>1
  <2>2. NoImport \in [owner : KPages \cup {Nobody}, chunks : Seq(Uploads)] /\ Len(NoImport.chunks) < 2
    BY DEF NoImport
  <2> QED
    BY <1>1, <2>1, <2>2, EditedBeforeIsSound DEF EditorAgrees
<1>3. PageIsSound(NewPage) /\ ~NewPage.open
  <2>1. /\ DOMAIN NewPage = PageFields /\ ~NewPage.open /\ NewPage.open \in BOOLEAN /\ NewPage.queue = <<>>
        /\ NewPage.seq = 1 /\ NewPage.waiting = 0 /\ NewPage.parts = <<>> /\ NewPage.shown = NoDocument
    BY DEF NewPage, PageFields
  <2>2. <<>> \in Seq(Tasks) /\ DOMAIN <<>> = {} /\ 0 \in Nat /\ 1 \in Nat
    OBVIOUS
  <2>3. PageSends(NewPage)
    BY <2>1, <2>2 DEF PageSends
  <2> QED
    BY <2>1, <2>2, <2>3, PageParts
<1>4. PagesAgree
  <2>1. <<>> \in Seq(Answers)
    OBVIOUS
  <2> QED
    BY <1>1, <1>3, <2>1 DEF PagesAgree
<1> QED
  BY <1>1, <1>2, <1>4 DEF EditingAgrees, DocumentComes

LEMMA EditingGoes == EditingAgrees /\ [KNext]_kVars => EditingAgrees'
<1> SUFFICES ASSUME EditingAgrees, [KNext]_kVars PROVE EditingAgrees'
  OBVIOUS
<1>1. CASE UNCHANGED kVars
  BY <1>1 DEF kVars, EditingAgrees, EditorAgrees, PagesAgree, DocumentComes
<1>2. CASE KNext
  <2>1. PICK p \in KPages :
          KStart(p) \/ KRefresh(p) \/ KTimeout(p) \/ KReceive(p) \/ KLose(p) \/ KConnect(p)
    BY <1>2 DEF KNext
  <2> QED
    BY <2>1, StartAgrees, RefreshAgrees, TimeoutAgrees, ReceiveAgrees, LoseAgrees, ConnectAgrees
<1> QED
  BY <1>1, <1>2

\* What can be undone, the document and what can be redone, in one list.
LEMMA TimelineIs ==
  ASSUME NEW e, NEW now \in Nat, EditorSound(e, now)
  PROVE  LET line == e.undo \o <<e.doc>> \o Reverse(e.redo)
         IN \A k \in 2 .. Len(line) : line[k - 1].id < line[k].id
<1> DEFINE S == DocsUpTo(now)  u == e.undo  h == e.redo  d == e.doc  back == Reverse(h)
           a == Len(u)  b == Len(h)  front == u \o <<d>>  line == front \o back
<1>1. /\ u \in Seq(S) /\ h \in Seq(S) /\ d \in S /\ Older(u, d) /\ Newer(h, d)
  BY SoundIs, EditorIs
<1>2. a \in Nat /\ b \in Nat
  BY <1>1, LenProperties
<1>3. /\ back \in Seq(S) /\ Len(back) = b /\ \A k \in 1 .. b : back[k] = h[b - k + 1]
  <2>1. back = [k \in 1 .. b |-> h[(b - k) + 1]]
    BY DEF Reverse
  <2>2. \A k \in 1 .. b : (b - k) + 1 \in 1 .. Len(h)
    BY <1>2
  <2>3. \A k \in 1 .. b : h[(b - k) + 1] \in S
    BY <1>1, <2>2, ElementOfSeq
  <2>4. back \in [1 .. b -> S]
    BY <2>1, <2>3
  <2>5. back \in Seq(S)
    BY <1>2, <2>4, SeqOfElements
  <2>6. Len(back) \in Nat /\ DOMAIN back = 1 .. Len(back) /\ DOMAIN back = 1 .. b
    BY <2>4, <2>5, LenProperties
  <2> QED
    BY <1>2, <2>1, <2>5, <2>6
<1> HIDE DEF back
<1>4. /\ front \in Seq(S) /\ Len(front) = a + 1
      /\ \A k \in 1 .. a + 1 : front[k] = IF k <= a THEN u[k] ELSE d
  <2>1. <<d>> \in Seq(S) /\ Len(<<d>>) = 1 /\ <<d>>[1] = d
    BY <1>1
  <2> DEFINE one == <<d>>
  <2> HIDE DEF one, u, d, S
  <2>2. one \in Seq(S) /\ Len(one) = 1 /\ one[1] = d
    BY <2>1 DEF one
  <2>3. /\ u \o one \in Seq(S) /\ Len(u \o one) = Len(u) + Len(one)
        /\ \A k \in 1 .. Len(u) + Len(one) : (u \o one)[k] = IF k <= Len(u) THEN u[k] ELSE one[k - Len(u)]
    BY <1>1, <2>2, ConcatProperties
  <2>4. \A k \in 1 .. a + 1 : k <= a \/ k - a = 1
    BY <1>2
  <2> QED
    BY <2>2, <2>3, <2>4 DEF one
<1> HIDE DEF front
<1>5. /\ Len(line) = a + 1 + b
      /\ \A k \in 1 .. a + 1 + b : line[k] = IF k <= a + 1 THEN front[k] ELSE back[k - (a + 1)]
  <2> HIDE DEF S, a, b
  <2>0. front \in Seq(S) /\ back \in Seq(S)
    BY <1>3, <1>4
  <2>1. /\ Len(front \o back) = Len(front) + Len(back)
        /\ \A k \in 1 .. Len(front) + Len(back) :
             (front \o back)[k] = IF k <= Len(front) THEN front[k] ELSE back[k - Len(front)]
    BY <2>0, ConcatProperties
  <2> QED
    BY <1>3, <1>4, <2>1
<1> HIDE DEF line, u, h, d
<1>6. ASSUME NEW k \in 2 .. Len(line) PROVE line[k - 1].id < line[k].id
  <2>0. k \in 2 .. a + 1 + b /\ a \in Nat /\ b \in Nat
    BY <1>2, <1>5, <1>6
  <2> HIDE DEF a, b
  <2>1. CASE k <= a
    <3>1. k - 1 \in 1 .. a /\ k \in 1 .. a /\ k - 1 < k
      BY <2>0, <2>1
    <3>2. line[k - 1] = u[k - 1] /\ line[k] = u[k]
      BY <1>4, <1>5, <2>0, <2>1, <3>1
    <3> QED
      BY <1>1, <3>1, <3>2 DEF Older, a
  <2>2. CASE k = a + 1
    <3>1. k - 1 \in 1 .. a /\ k \in 1 .. a + 1 + b /\ k \in 1 .. a + 1 /\ k - 1 \in 1 .. a + 1 /\ k - 1 \in 1 .. a + 1 + b
      BY <2>0, <2>2
    <3>2. line[k - 1] = u[k - 1] /\ line[k] = d
      BY <1>4, <1>5, <2>0, <2>2, <3>1
    <3> QED
      BY <1>1, <3>1, <3>2 DEF Older, a
  <2>3. CASE k = a + 2
    <3>1. /\ k - 1 = a + 1 /\ k - (a + 1) = 1 /\ 1 \in 1 .. b /\ b - 1 + 1 = b /\ b \in 1 .. b
          /\ k \in 1 .. a + 1 + b /\ k - 1 \in 1 .. a + 1 + b /\ k - 1 \in 1 .. a + 1
      BY <2>0, <2>3
    <3>2. line[k - 1] = d
      BY <1>4, <1>5, <2>0, <3>1
    <3>3. line[k] = back[1]
      BY <1>5, <2>0, <2>3, <3>1
    <3>4. back[1] = h[b]
      BY <1>3, <3>1
    <3> QED
      BY <1>1, <3>1, <3>2, <3>3, <3>4 DEF Newer, b
  <2>4. CASE k > a + 2
    <3> DEFINE i == k - (a + 1)
    <3>1. /\ i \in 2 .. b /\ (k - 1) - (a + 1) = i - 1 /\ i - 1 \in 1 .. b /\ i \in 1 .. b
          /\ k \in 1 .. a + 1 + b /\ k - 1 \in 1 .. a + 1 + b /\ ~(k <= a + 1) /\ ~(k - 1 <= a + 1)
          /\ b - i + 1 \in 1 .. b /\ b - (i - 1) + 1 \in 1 .. b /\ b - i + 1 < b - (i - 1) + 1
      BY <2>0, <2>4
    <3>2. line[k] = back[i] /\ line[k - 1] = back[i - 1]
      BY <1>5, <3>1
    <3> HIDE DEF i
    <3>3. back[i] = h[b - i + 1] /\ back[i - 1] = h[b - (i - 1) + 1]
      BY <1>3, <3>1
    <3> QED
      BY <1>1, <3>1, <3>2, <3>3 DEF Newer, b
  <2> QED
    BY <2>0, <2>1, <2>2, <2>3, <2>4
<1> QED
  BY <1>6 DEF line, front, back, u, h, d

LEMMA EditingIsSound == EditingAgrees => EditorInv
<1> SUFFICES ASSUME EditingAgrees PROVE EditorInv
  OBVIOUS
<1>1. /\ kVersion.now \in Nat /\ kVersion.accepted \in Nat /\ EditorSound(kEditor, kVersion.now)
      /\ kImport.owner \in KPages \cup {Nobody} /\ Len(kImport.chunks) < 2
  BY DEF EditingAgrees, EditorAgrees
<1>2. ASSUME NEW p \in KPages
      PROVE  /\ kPage[p].waiting # 0 <=> kPage[p].queue # <<>>
             /\ kPage[p].shown \in States \cup {NoDocument}
  BY PageNow, PageParts DEF PageSends
<1>3. KTypeOK
  <2>1. /\ kEditor.doc.nodes \subseteq KNodes /\ kEditor.sel \in KNodes \cup {0}
        /\ kEditor.tool \in KTools /\ kEditor.valid \in BOOLEAN
        /\ Len(kEditor.undo) <= HistoryCap /\ Len(kEditor.redo) <= HistoryCap
    BY <1>1, SoundIs
  <2> QED
    BY <1>1, <1>2, <2>1 DEF KTypeOK
<1>4. NoEditMissed
  <2> SUFFICES ASSUME kEditor.valid, NEW p \in KPages, Quiet(p)
               PROVE  kPage[p].shown.version >= kVersion.accepted
    BY DEF NoEditMissed
  <2>1. ComesTo(kVersion.accepted, kPage[p].shown.version, <<>>)
    BY DEF Quiet, EditingAgrees, DocumentComes
  <2> QED
    BY <2>1 DEF ComesTo
<1>5. ShownIsWhole
  <2> SUFFICES ASSUME NEW p \in KPages PROVE kPage[p].shown.whole = TRUE
    BY DEF ShownIsWhole
  <2>1. kPage[p].shown \in States \cup {NoDocument}
    BY <1>2
  <2> DEFINE shown == kPage[p].shown
  <2> HIDE DEF shown
  <2>2. CASE shown \in States
    <3>1. shown.whole \in {TRUE}
      BY <2>2 DEF States
    <3> QED
      BY <3>1, Zenon DEF shown
  <2>3. CASE shown = NoDocument
    <3>1. NoDocument.whole = TRUE
      BY DEF NoDocument
    <3> QED
      BY <2>3, <3>1, Zenon DEF shown
  <2> QED
    BY <2>1, <2>2, <2>3 DEF shown
<1>6. ImportIsOneUpload
  <2>1. kEditor.doc \in DocsUpTo(kVersion.now)
    BY <1>1, SoundIs
  <2> QED
    BY <2>1 DEF DocsUpTo, ImportIsOneUpload
<1>7. OneTimeline
  BY <1>1, TimelineIs DEF OneTimeline
<1> QED
  BY <1>3, <1>4, <1>5, <1>6, <1>7 DEF EditorInv

\* Whatever the pages queue, whoever undoes, redoes or uploads, and whenever a connection
\* is lost: no page with nothing on the way misses an accepted edit or shows parts of two
\* documents, a document nobody has edited came from one page, and undoing and redoing
\* stay one timeline (the invariant EditorInv).
THEOREM EditorsAgree == KSpec => []EditorInv
<1>1. EditingAgrees /\ [KNext]_kVars => EditingAgrees'
  BY EditingGoes
<1> QED
  BY <1>1, EditingBegins, EditingIsSound, PTL DEF KSpec

-----------------------------------------------------------------------------
(* The layout of snapshots.                                                  *)

\* What the fields of a snapshot are: the ripe slices have numbers that follow each other.
FieldsOf(f, a, b) ==
  /\ f.projectiles \in {0, 2} /\ f.throwables \in {0, 1} /\ f.impacts \in {0, 1}
  /\ f.pickup \in {0, 1} /\ f.at \in 4 .. 100 /\ f.charge \in {0, 30}
  /\ f.slices = a .. b /\ a \in 1 .. 5 /\ b \in 1 .. 5 /\ Cardinality(f.slices) \in 0 .. 4
  /\ f.map \in {1, 2} /\ f.votes \in 0 .. 8 /\ f.respawn \in {0, 360}

\* Items of eight words.
Eights(flat, seqs, n) ==
  /\ flat \in Seq(Int) /\ Len(flat) = 8 * n
  /\ \A k \in 1 .. n, j \in 1 .. 8 : flat[8 * (k - 1) + j] = seqs[k][j]

LEMMA FlattenEights ==
  ASSUME NEW n \in Nat, NEW seqs \in [1 .. n -> Seq(Int)], \A k \in 1 .. n : Len(seqs[k]) = 8
  PROVE  Eights(FlattenSeq(seqs), seqs, n)
<1> DEFINE flat == FlattenSeq(seqs)
<1>1. FlatOf(flat, seqs, n, 8, Int)
  BY FlattenReads
<1> HIDE DEF flat
<1>2. Eights(flat, seqs, n)
  <2>1. \A k \in 1 .. n, j \in 1 .. 8 : flat[(k - 1) * 8 + j] = seqs[k][j]
    BY <1>1 DEF FlatOf
  <2>2. ASSUME NEW k \in 1 .. n, NEW j \in 1 .. 8 PROVE flat[8 * (k - 1) + j] = seqs[k][j]
    <3>1. 8 * (k - 1) + j = (k - 1) * 8 + j
      OBVIOUS
    <3> QED
      BY <2>1, <3>1
  <2>3. flat \in Seq(Int) /\ Len(flat) = 8 * n
    BY <1>1 DEF FlatOf
  <2> QED
    BY <2>2, <2>3 DEF Eights
<1> QED
  BY <1>2 DEF flat

\* The words of the actors: eight each, with the state word of the first as the sixth.
LEMMA ActorPart ==
  ASSUME NEW f, NEW a, NEW b, FieldsOf(f, a, b), actors \in 0 .. 8, look \in Looks
  PROVE  /\ ActorWords(f) \in Seq(Int) /\ Len(ActorWords(f)) = 8 * actors
         /\ actors > 0 => ActorWords(f)[6] = Packed(look)
<1> DEFINE s(k) == IF k <= 4 THEN <<k, f.at, 0, f.at, 100, Packed(look), 1 + (k % 2), 90>>
                   ELSE <<4 - k, f.at, 0, f.at, 100, 0, 3, 0>>
           seqs == [k \in 1 .. actors |-> s(k)]
<1>1. Packed(look) \in Int /\ f.at \in Int
  <2>1. f.at \in 4 .. 100
    BY Zenon DEF FieldsOf
  <2>2. look.posture \in Int /\ look.power \in Int /\ look.animation \in Int
    BY DEF Looks
  <2> QED
    BY <2>1, <2>2 DEF Packed
<1>2. ASSUME NEW k \in 1 .. actors PROVE s(k) \in Seq(Int) /\ Len(s(k)) = 8
  <2>1. k \in Int /\ 1 + (k % 2) \in Int
    OBVIOUS
  <2> HIDE DEF Packed
  <2> QED
    BY <1>1, <2>1
<1>3. actors > 0 => s(1)[6] = Packed(look)
  OBVIOUS
<1> HIDE DEF s
<1>4. seqs \in [1 .. actors -> Seq(Int)] /\ \A k \in 1 .. actors : seqs[k] = s(k)
  BY <1>2
<1> HIDE DEF seqs
<1>5. Eights(FlattenSeq(seqs), seqs, actors)
  BY <1>2, <1>4, FlattenEights
<1>6. actors > 0 => FlattenSeq(seqs)[6] = s(1)[6]
  <2> SUFFICES ASSUME actors > 0 PROVE FlattenSeq(seqs)[6] = s(1)[6]
    OBVIOUS
  <2>1. 1 \in 1 .. actors /\ 6 \in 1 .. 8 /\ 8 * (1 - 1) + 6 = 6
    OBVIOUS
  <2>2. FlattenSeq(seqs)[8 * (1 - 1) + 6] = seqs[1][6]
    BY <1>5, <2>1, Zenon DEF Eights
  <2> QED
    BY <1>4, <2>1, <2>2
<1>7. ActorWords(f) = FlattenSeq(seqs)
  BY Zenon DEF ActorWords, seqs, s
<1> QED
  BY <1>3, <1>5, <1>6, <1>7 DEF Eights

\* The words of the lists.
LEMMA ListPart ==
  ASSUME NEW f, NEW a, NEW b, FieldsOf(f, a, b)
  PROVE  LET w == ListWords(f)
             p == f.projectiles
             t == f.throwables
             n == f.impacts
         IN /\ w \in Seq(Int) /\ Len(w) = 4 + 8 * p + 8 * t + 8 * n
            /\ w[2] = p /\ w[3] = t /\ w[4] = n
            /\ \A k \in 1 .. p : w[4 + (8 * (k - 1) + 1)] = k /\ w[4 + (8 * (k - 1) + 3)] = 2
            /\ \A k \in 1 .. t : w[4 + 8 * p + (8 * (k - 1) + 1)] = k
            /\ \A k \in 1 .. n : w[4 + 8 * p + 8 * t + (8 * (k - 1) + 1)] = k
<1> DEFINE P == f.projectiles
           T == f.throwables
           N == f.impacts
           s(k) == <<k, 1, 2, f.at, 0, f.at, 60, 1>>
           u(k) == <<k, 1, f.at, 0, f.at, 60, 6, 36>>
           v(k) == <<k, 8, 1, 2, f.at, 0, f.at, 15>>
           ss == [k \in 1 .. P |-> s(k)]
           us == [k \in 1 .. T |-> u(k)]
           vs == [k \in 1 .. N |-> v(k)]
           c == <<7, P, T, N>>
<1>1. P \in Nat /\ T \in Nat /\ N \in Nat /\ f.at \in Int
  <2>1. P \in {0, 2} /\ T \in {0, 1} /\ N \in {0, 1} /\ f.at \in 4 .. 100
    BY Zenon DEF FieldsOf
  <2> HIDE DEF P, T, N
  <2> QED
    BY <2>1
<1>2. \A k \in Int : /\ s(k) \in Seq(Int) /\ Len(s(k)) = 8 /\ s(k)[1] = k /\ s(k)[3] = 2
                      /\ u(k) \in Seq(Int) /\ Len(u(k)) = 8 /\ u(k)[1] = k
                      /\ v(k) \in Seq(Int) /\ Len(v(k)) = 8 /\ v(k)[1] = k
  BY <1>1
<1>3. c \in Seq(Int) /\ Len(c) = 4 /\ c[2] = P /\ c[3] = T /\ c[4] = N
  BY <1>1
<1> HIDE DEF s, u, v
<1>4. /\ ss \in [1 .. P -> Seq(Int)] /\ \A k \in 1 .. P : ss[k] = s(k) /\ Len(ss[k]) = 8
      /\ us \in [1 .. T -> Seq(Int)] /\ \A k \in 1 .. T : us[k] = u(k) /\ Len(us[k]) = 8
      /\ vs \in [1 .. N -> Seq(Int)] /\ \A k \in 1 .. N : vs[k] = v(k) /\ Len(vs[k]) = 8
  <2>1. \A k \in 1 .. P : k \in Int
    BY <1>1
  <2>2. \A k \in 1 .. T : k \in Int
    BY <1>1
  <2>3. \A k \in 1 .. N : k \in Int
    BY <1>1
  <2> HIDE DEF P, T, N
  <2> QED
    BY <1>2, <2>1, <2>2, <2>3 DEF Eights
<1>5. ListWords(f) = c \o FlattenSeq(ss) \o FlattenSeq(us) \o FlattenSeq(vs)
  BY Zenon DEF ListWords, ss, us, vs, s, u, v, c, P, T, N
<1> DEFINE w == ListWords(f)
           y == FlattenSeq(ss)
           z == FlattenSeq(us)
           x == FlattenSeq(vs)
<1> HIDE DEF P, T, N, c, ss, us, vs
<1>6. Eights(y, ss, P)
  BY <1>1, <1>4, FlattenEights
<1>7. Eights(z, us, T)
  BY <1>1, <1>4, FlattenEights
<1>8. Eights(x, vs, N)
  BY <1>1, <1>4, FlattenEights
<1> HIDE DEF w, x, y, z
<1>9. JoinedFour(w, c, y, z, x, Int)
  <2>1. y \in Seq(Int) /\ z \in Seq(Int) /\ x \in Seq(Int)
    BY <1>6, <1>7, <1>8 DEF Eights
  <2>2. JoinedFour(c \o y \o z \o x, c, y, z, x, Int)
    BY <1>3, <2>1, JoinsFour
  <2> QED
    BY <1>5, <2>2, Zenon DEF w, x, y, z
<1>10. w \in Seq(Int) /\ Len(w) = Len(c) + Len(y) + Len(z) + Len(x)
  BY <1>9 DEF JoinedFour
<1>11. \A i \in 1 .. Len(c) : w[i] = c[i]
  BY <1>9 DEF JoinedFour
<1>12. \A i \in 1 .. Len(y) : w[Len(c) + i] = y[i]
  BY <1>9 DEF JoinedFour
<1>13. \A i \in 1 .. Len(z) : w[Len(c) + Len(y) + i] = z[i]
  BY <1>9 DEF JoinedFour
<1>14. \A i \in 1 .. Len(x) : w[Len(c) + Len(y) + Len(z) + i] = x[i]
  BY <1>9 DEF JoinedFour
<1>15. w[2] = P /\ w[3] = T /\ w[4] = N
  BY <1>3, <1>11
<1>16. ASSUME NEW k \in 1 .. P
       PROVE  w[4 + (8 * (k - 1) + 1)] = k /\ w[4 + (8 * (k - 1) + 3)] = 2
  <2>1. k \in Int /\ 8 * (k - 1) + 1 \in 1 .. 8 * P /\ 8 * (k - 1) + 3 \in 1 .. 8 * P
    BY <1>1
  <2>2. y[8 * (k - 1) + 1] = ss[k][1] /\ y[8 * (k - 1) + 3] = ss[k][3]
    BY <1>6, <2>1 DEF Eights
  <2>3. ss[k][1] = k /\ ss[k][3] = 2
    BY <1>2, <1>4, <2>1
  <2> QED
    BY <1>3, <1>6, <1>12, <2>1, <2>2, <2>3, SMTT(30) DEF Eights
<1>17. ASSUME NEW k \in 1 .. T PROVE w[4 + 8 * P + (8 * (k - 1) + 1)] = k
  <2>1. k \in Int /\ 8 * (k - 1) + 1 \in 1 .. 8 * T
    BY <1>1
  <2>2. z[8 * (k - 1) + 1] = us[k][1]
    BY <1>7, <2>1 DEF Eights
  <2>3. us[k][1] = k
    BY <1>2, <1>4, <2>1
  <2>4. w[Len(c) + Len(y) + (8 * (k - 1) + 1)] = k
    <3> DEFINE i == 8 * (k - 1) + 1
    <3>1. i \in 1 .. Len(z) /\ z[i] = k
      BY <1>7, <2>1, <2>2, <2>3 DEF Eights
    <3> HIDE DEF i
    <3>2. w[Len(c) + Len(y) + i] = k
      BY <1>13, <3>1
    <3> QED
      BY <3>2 DEF i
  <2>5. Len(c) = 4 /\ Len(y) = 8 * P
    BY <1>3, <1>6 DEF Eights
  <2> QED
    BY <2>4, <2>5
<1>18. ASSUME NEW k \in 1 .. N PROVE w[4 + 8 * P + 8 * T + (8 * (k - 1) + 1)] = k
  <2>1. k \in Int /\ 8 * (k - 1) + 1 \in 1 .. 8 * N
    BY <1>1
  <2>2. x[8 * (k - 1) + 1] = vs[k][1]
    BY <1>8, <2>1 DEF Eights
  <2>3. vs[k][1] = k
    BY <1>2, <1>4, <2>1
  <2>4. w[Len(c) + Len(y) + Len(z) + (8 * (k - 1) + 1)] = k
    <3> DEFINE i == 8 * (k - 1) + 1
    <3>1. i \in 1 .. Len(x) /\ x[i] = k
      BY <1>8, <2>1, <2>2, <2>3 DEF Eights
    <3> HIDE DEF i
    <3>2. w[Len(c) + Len(y) + Len(z) + i] = k
      BY <1>14, <3>1
    <3> QED
      BY <3>2 DEF i
  <2>5. Len(c) = 4 /\ Len(y) = 8 * P /\ Len(z) = 8 * T
    BY <1>3, <1>6, <1>7 DEF Eights
  <2> QED
    BY <2>4, <2>5
<1> QED
  BY <1>3, <1>6, <1>7, <1>8, <1>10, <1>15, <1>16, <1>17, <1>18 DEF w, P, T, N, Eights

\* The k-th of numbers that follow each other.
LEMMA RipeIsThere ==
  ASSUME NEW a \in Int, NEW b \in Int, NEW k \in 1 .. Cardinality(a .. b)
  PROVE  Ripe(a .. b, k) = a + k - 1
<1> DEFINE S == a .. b
<1>1. a <= b /\ k \in 1 .. b - a + 1
  BY FS_Interval
<1>2. ASSUME NEW id \in S PROVE {i \in S : i <= id} = a .. id /\ Cardinality(a .. id) = id - a + 1
  <2>1. id \in Int /\ a <= id /\ id <= b
    OBVIOUS
  <2>2. \A i : i \in {j \in S : j <= id} <=> i \in a .. id
    BY <2>1
  <2> QED
    BY <2>1, <2>2, FS_Interval
<1>3. a + k - 1 \in S
  BY <1>1
<1>4. \A id \in S : Cardinality({i \in S : i <= id}) = k <=> id = a + k - 1
  <2> SUFFICES ASSUME NEW id \in S
               PROVE  Cardinality({i \in S : i <= id}) = k <=> id = a + k - 1
    OBVIOUS
  <2>1. Cardinality({i \in S : i <= id}) = id - a + 1
    BY <1>2
  <2> QED
    BY <2>1
<1> DEFINE r == Ripe(S, k)
<1>5. r = CHOOSE id \in S : Cardinality({i \in S : i <= id}) = k
  BY Zenon DEF Ripe
<1> HIDE DEF S, r
<1>6. r = a + k - 1
  BY <1>3, <1>4, <1>5, Zenon
<1> QED
  BY <1>6 DEF r, S

\* What the suffix is, with n ripe slices from number a on.
SuffixOf(w, f, a, n) ==
  /\ w \in Seq(Int) /\ Len(w) = 17 + 4 * n
  /\ w[1] = f.pickup /\ w[2] = f.at /\ w[4] = f.at /\ w[7] = f.charge /\ w[9] = 30 /\ w[10] = n
  /\ w[8] = IF f.charge > 0 THEN 6 ELSE 0
  /\ \A k \in 1 .. n : /\ w[10 + (4 * (k - 1) + 1)] = a + k - 1
                       /\ w[10 + (4 * (k - 1) + 2)] = f.at
                       /\ w[10 + (4 * (k - 1) + 3)] = 0
                       /\ w[10 + (4 * (k - 1) + 4)] = f.at
  /\ w[10 + 4 * n + 1] = f.map /\ w[10 + 4 * n + 3] = 7200
  /\ w[10 + 4 * n + 4] = f.votes /\ w[10 + 4 * n + 7] = f.respawn

LEMMA SuffixPart ==
  ASSUME NEW f, NEW a, NEW b, FieldsOf(f, a, b)
  PROVE  SuffixOf(SuffixWords(f), f, a, Cardinality(f.slices))
<1> DEFINE n == Cardinality(f.slices)
           c == <<f.pickup, f.at, 0, f.at, IF f.pickup = 1 THEN 6 ELSE 0,
                  IF f.charge > 0 THEN 1 ELSE 0, f.charge, IF f.charge > 0 THEN 6 ELSE 0, 30, n>>
           s(k) == <<Ripe(f.slices, k), f.at, 0, f.at>>
           ss == [k \in 1 .. n |-> s(k)]
           y == FlattenSeq(ss)
           d == <<f.map, 0, 7200, f.votes, 0, f.votes, f.respawn>>
           w == SuffixWords(f)
<1>0. f.slices = a .. b
  BY Zenon DEF FieldsOf
<1>1. /\ f.pickup \in {0, 1} /\ f.at \in 4 .. 100 /\ f.charge \in {0, 30} /\ n \in 0 .. 4
      /\ f.map \in {1, 2} /\ f.votes \in 0 .. 8 /\ f.respawn \in {0, 360}
      /\ a \in 1 .. 5 /\ b \in 1 .. 5
  BY Zenon DEF FieldsOf
<1>2. w = c \o y \o d
  BY Zenon DEF SuffixWords
<1> HIDE DEF w, y, n
<1>3. /\ c \in Seq(Int) /\ Len(c) = 10
      /\ c[1] = f.pickup /\ c[2] = f.at /\ c[4] = f.at /\ c[7] = f.charge /\ c[9] = 30 /\ c[10] = n
      /\ c[8] = IF f.charge > 0 THEN 6 ELSE 0
  <2> DEFINE c5 == IF f.pickup = 1 THEN 6 ELSE 0
             c6 == IF f.charge > 0 THEN 1 ELSE 0
             c8 == IF f.charge > 0 THEN 6 ELSE 0
  <2>1. /\ f.pickup \in Int /\ f.at \in Int /\ f.charge \in Int /\ n \in Int
        /\ c5 \in Int /\ c6 \in Int /\ c8 \in Int
    <3>1. f.pickup \in Int /\ f.at \in Int /\ f.charge \in Int /\ n \in Int
      BY <1>1
    <3>2. c5 \in {0, 6} /\ c6 \in {0, 1} /\ c8 \in {0, 6}
      BY Zenon
    <3> HIDE DEF c5, c6, c8
    <3> QED
      BY <3>1, <3>2
  <2>2. c = <<f.pickup, f.at, 0, f.at, c5, c6, f.charge, c8, 30, n>>
    OBVIOUS
  <2>3. c[8] = c8
    OBVIOUS
  <2> HIDE DEF c5, c6, c8, c
  <2>4. c \in Seq(Int) /\ Len(c) = 10
    BY <2>1, <2>2
  <2>5. c[1] = f.pickup /\ c[2] = f.at /\ c[4] = f.at /\ c[7] = f.charge /\ c[9] = 30 /\ c[10] = n
    BY <2>2
  <2> QED
    BY <2>3, <2>4, <2>5 DEF c8
<1>4. /\ d \in Seq(Int) /\ Len(d) = 7
      /\ d[1] = f.map /\ d[3] = 7200 /\ d[4] = f.votes /\ d[7] = f.respawn
  <2>1. f.map \in Int /\ f.votes \in Int /\ f.respawn \in Int
    BY <1>1
  <2> QED
    BY <2>1
<1> HIDE DEF c, d
<1>5. ASSUME NEW k \in 1 .. n
      PROVE  /\ s(k) \in Seq(Int) /\ Len(s(k)) = 4 /\ s(k)[1] = a + k - 1 /\ s(k)[2] = f.at
             /\ s(k)[3] = 0 /\ s(k)[4] = f.at
  <2>1. n = Cardinality(a .. b)
    BY <1>0, Zenon DEF n
  <2>2. Ripe(f.slices, k) = a + k - 1
    <3>1. a \in Int /\ b \in Int
      BY <1>1
    <3>2. k \in 1 .. Cardinality(a .. b)
      BY <2>1, Zenon
    <3>3. Ripe(a .. b, k) = a + k - 1
      BY <3>1, <3>2, RipeIsThere
    <3> QED
      BY <1>0, <3>3, Zenon
  <2>3. a + k - 1 \in Int /\ f.at \in Int
    BY <1>1
  <2> QED
    BY <2>2, <2>3
<1> HIDE DEF s
<1>6. ss \in [1 .. n -> Seq(Int)] /\ \A k \in 1 .. n : ss[k] = s(k) /\ Len(ss[k]) = 4
  BY <1>5
<1> HIDE DEF ss
<1>7. FlatOf(y, ss, n, 4, Int)
  <2>1. n \in Nat /\ 4 \in Nat
    BY <1>1
  <2> QED
    BY <1>6, <2>1, FlattenReads DEF y
<1>8. JoinedThree(w, c, y, d, Int)
  <2>1. y \in Seq(Int)
    BY <1>7 DEF FlatOf
  <2>2. JoinedThree(c \o y \o d, c, y, d, Int)
    BY <1>3, <1>4, <2>1, JoinsThree
  <2> QED
    BY <1>2, <2>2, Zenon
<1>9. Len(y) = 4 * n
  <2>1. Len(y) = n * 4
    BY <1>7 DEF FlatOf
  <2> QED
    BY <1>1, <2>1
<1>10. \A i \in 1 .. 10 : w[i] = c[i]
  BY <1>3, <1>8 DEF JoinedThree
<1>11. \A i \in 1 .. Len(y) : w[10 + i] = y[i]
  BY <1>3, <1>8 DEF JoinedThree
<1>12. \A i \in 1 .. 7 : w[10 + 4 * n + i] = d[i]
  <2>1. \A i \in 1 .. Len(d) : w[Len(c) + Len(y) + i] = d[i]
    BY <1>8 DEF JoinedThree
  <2>2. Len(c) = 10 /\ Len(y) = 4 * n /\ Len(d) = 7
    BY <1>3, <1>4, <1>9
  <2> QED
    BY <2>1, <2>2, Zenon
<1>13. w \in Seq(Int) /\ Len(w) = 17 + 4 * n
  BY <1>1, <1>3, <1>4, <1>8, <1>9 DEF JoinedThree
<1>14. ASSUME NEW k \in 1 .. n, NEW j \in 1 .. 4 PROVE w[10 + (4 * (k - 1) + j)] = s(k)[j]
  <2> DEFINE i == 4 * (k - 1) + j
  <2>1. i \in 1 .. Len(y) /\ i = (k - 1) * 4 + j
    BY <1>1, <1>9
  <2>2. y[(k - 1) * 4 + j] = ss[k][j]
    BY <1>7 DEF FlatOf
  <2>3. y[i] = s(k)[j]
    BY <1>6, <2>1, <2>2
  <2> HIDE DEF i
  <2>4. w[10 + i] = s(k)[j]
    BY <1>11, <2>1, <2>3
  <2> QED
    BY <2>4 DEF i
<1>15. ASSUME NEW k \in 1 .. n
       PROVE  /\ w[10 + (4 * (k - 1) + 1)] = a + k - 1 /\ w[10 + (4 * (k - 1) + 2)] = f.at
              /\ w[10 + (4 * (k - 1) + 3)] = 0 /\ w[10 + (4 * (k - 1) + 4)] = f.at
  BY <1>5, <1>14
<1>16. /\ w[1] = f.pickup /\ w[2] = f.at /\ w[4] = f.at /\ w[7] = f.charge /\ w[9] = 30 /\ w[10] = n
       /\ w[8] = IF f.charge > 0 THEN 6 ELSE 0
  BY <1>3, <1>10
<1>17. /\ w[10 + 4 * n + 1] = f.map /\ w[10 + 4 * n + 3] = 7200
       /\ w[10 + 4 * n + 4] = f.votes /\ w[10 + 4 * n + 7] = f.respawn
  BY <1>4, <1>12
<1>18. SuffixOf(w, f, a, n)
  BY <1>13, <1>15, <1>16, <1>17 DEF SuffixOf
<1> QED
  BY <1>18 DEF w, n

\* What a frame has at its places: the lists start behind the actors, the suffix at o.
FrameOf(o, P, T, N, n) ==
  /\ frame \in Seq(Int) /\ Len(frame) = o + 17 + 4 * n
  /\ o = 8 * actors + 4 + 8 * P + 8 * T + 8 * N
  /\ actors \in 0 .. 8 /\ P \in 0 .. 2 /\ T \in 0 .. 1 /\ N \in 0 .. 1 /\ n \in 0 .. 4
  /\ actors > 0 => frame[6] = Packed(look)
  /\ frame[8 * actors + 2] = P /\ frame[8 * actors + 3] = T /\ frame[8 * actors + 4] = N
  /\ \A k \in 1 .. P : /\ frame[8 * actors + (4 + (8 * (k - 1) + 1))] = k
                       /\ frame[8 * actors + (4 + (8 * (k - 1) + 3))] = 2
  /\ \A k \in 1 .. T : frame[8 * actors + (4 + 8 * P + (8 * (k - 1) + 1))] = k
  /\ \A k \in 1 .. N : frame[8 * actors + (4 + 8 * P + 8 * T + (8 * (k - 1) + 1))] = k
  /\ \A i \in 1 .. 17 + 4 * n : frame[o + i] = SuffixWords(written)[i]

\* The three parts of a frame are where the lengths before them say.
LEMMA FrameIsWritten ==
  ASSUME NEW a, NEW b, FieldsOf(written, a, b), actors \in 0 .. 8, look \in Looks,
         frame = ActorWords(written) \o ListWords(written) \o SuffixWords(written)
  PROVE  FrameOf(8 * actors + 4 + 8 * written.projectiles + 8 * written.throwables
                 + 8 * written.impacts,
                 written.projectiles, written.throwables, written.impacts,
                 Cardinality(written.slices))
<1> DEFINE x == ActorWords(written)
           y == ListWords(written)
           z == SuffixWords(written)
           P == written.projectiles
           T == written.throwables
           N == written.impacts
           n == Cardinality(written.slices)
           o == 8 * actors + 4 + 8 * P + 8 * T + 8 * N
<1>1. x \in Seq(Int) /\ Len(x) = 8 * actors /\ (actors > 0 => x[6] = Packed(look))
  BY ActorPart
<1>2. /\ y \in Seq(Int) /\ Len(y) = 4 + 8 * P + 8 * T + 8 * N
      /\ y[2] = P /\ y[3] = T /\ y[4] = N
      /\ \A k \in 1 .. P : y[4 + (8 * (k - 1) + 1)] = k /\ y[4 + (8 * (k - 1) + 3)] = 2
      /\ \A k \in 1 .. T : y[4 + 8 * P + (8 * (k - 1) + 1)] = k
      /\ \A k \in 1 .. N : y[4 + 8 * P + 8 * T + (8 * (k - 1) + 1)] = k
  BY ListPart
<1>3. z \in Seq(Int) /\ Len(z) = 17 + 4 * n
  BY SuffixPart DEF SuffixOf
<1>4. P \in 0 .. 2 /\ T \in 0 .. 1 /\ N \in 0 .. 1 /\ n \in 0 .. 4
  <2>1. P \in {0, 2} /\ T \in {0, 1} /\ N \in {0, 1} /\ n \in 0 .. 4
    BY Zenon DEF FieldsOf
  <2> HIDE DEF P, T, N, n
  <2> QED
    BY <2>1
<1> HIDE DEF x, y, z, P, T, N, n
<1>5. JoinedThree(frame, x, y, z, Int)
  <2>1. JoinedThree(x \o y \o z, x, y, z, Int)
    BY <1>1, <1>2, <1>3, JoinsThree
  <2> QED
    BY <2>1, Zenon DEF x, y, z
<1> DEFINE A == 8 * actors
<1>6. A \in Nat /\ A = 8 * actors
  OBVIOUS
<1>7. actors > 0 => frame[6] = Packed(look)
  <2>1. actors > 0 => 6 \in 1 .. Len(x)
    BY <1>1
  <2> QED
    BY <1>1, <1>5, <2>1 DEF JoinedThree
<1> HIDE DEF A
<1>8. \A i \in 1 .. 4 + 8 * P + 8 * T + 8 * N : frame[A + i] = y[i]
  <2>1. \A i \in 1 .. Len(y) : frame[Len(x) + i] = y[i]
    BY <1>5 DEF JoinedThree
  <2> QED
    BY <1>1, <1>2, <1>6, <2>1, Zenon
<1>9. \A i \in 1 .. 17 + 4 * n : frame[o + i] = z[i]
  <2>1. \A i \in 1 .. Len(z) : frame[Len(x) + Len(y) + i] = z[i]
    BY <1>5 DEF JoinedThree
  <2>2. Len(x) + Len(y) = o
    BY <1>1, <1>2, <1>4
  <2> QED
    BY <1>3, <2>1, <2>2, Zenon
<1>10. Len(frame) = o + 17 + 4 * n /\ frame \in Seq(Int)
  BY <1>1, <1>2, <1>3, <1>4, <1>5 DEF JoinedThree
<1> HIDE DEF o
<1>11. frame[A + 2] = P /\ frame[A + 3] = T /\ frame[A + 4] = N
  <2>1. \A i \in 2 .. 4 : i \in 1 .. 4 + 8 * P + 8 * T + 8 * N
    BY <1>4
  <2>2. 2 \in 2 .. 4 /\ 3 \in 2 .. 4 /\ 4 \in 2 .. 4
    OBVIOUS
  <2> QED
    BY <1>2, <1>8, <2>1, <2>2, Zenon
<1>12. ASSUME NEW k \in 1 .. P
       PROVE  /\ frame[A + (4 + (8 * (k - 1) + 1))] = k
              /\ frame[A + (4 + (8 * (k - 1) + 3))] = 2
  <2>1. /\ 4 + (8 * (k - 1) + 1) \in 1 .. 4 + 8 * P + 8 * T + 8 * N
        /\ 4 + (8 * (k - 1) + 3) \in 1 .. 4 + 8 * P + 8 * T + 8 * N
    BY <1>4
  <2> DEFINE e == 4 + (8 * (k - 1) + 1)
             g == 4 + (8 * (k - 1) + 3)
  <2>2. y[e] = k /\ y[g] = 2
    BY <1>2, Zenon
  <2>3. frame[A + e] = y[e] /\ frame[A + g] = y[g]
    BY <1>8, <2>1, Zenon
  <2> QED
    BY <2>2, <2>3, Zenon
<1>13. ASSUME NEW k \in 1 .. T PROVE frame[A + (4 + 8 * P + (8 * (k - 1) + 1))] = k
  <2>1. 4 + 8 * P + (8 * (k - 1) + 1) \in 1 .. 4 + 8 * P + 8 * T + 8 * N
    BY <1>4
  <2> QED
    BY <1>2, <1>8, <2>1
<1>14. ASSUME NEW k \in 1 .. N PROVE frame[A + (4 + 8 * P + 8 * T + (8 * (k - 1) + 1))] = k
  <2>1. 4 + 8 * P + 8 * T + (8 * (k - 1) + 1) \in 1 .. 4 + 8 * P + 8 * T + 8 * N
    BY <1>4
  <2> QED
    BY <1>2, <1>8, <2>1
<1>15. o = 8 * actors + 4 + 8 * P + 8 * T + 8 * N
  BY DEF o
<1>16. FrameOf(o, P, T, N, n)
  BY <1>4, <1>7, <1>9, <1>10, <1>11, <1>12, <1>13, <1>14, <1>15 DEF FrameOf, z, A
<1> QED
  BY <1>16 DEF o, P, T, N, n

\* The readers find each list and the suffix.
LEMMA FrameReads ==
  ASSUME NEW o, NEW P, NEW T, NEW N, NEW n, FrameOf(o, P, T, N, n)
  PROVE  /\ o \in Nat /\ Trailer = 8 * actors
         /\ At(Trailer + 1) = P /\ At(Trailer + 2) = T /\ At(Trailer + 3) = N
         /\ ThrowablesAt = 8 * actors + 4 + 8 * P /\ ImpactsAt = 8 * actors + 4 + 8 * P + 8 * T
         /\ TailAt = o /\ TailLength = 17 + 4 * n /\ Len(frame) = o + 17 + 4 * n
         /\ \A i \in 0 .. 16 + 4 * n : At(o + i) = SuffixWords(written)[i + 1]
         /\ actors > 0 => At(5) = Packed(look)
         /\ \A k \in 1 .. P : ItemAt(Trailer + 4, k - 1)[1] = k /\ ItemAt(Trailer + 4, k - 1)[3] = 2
         /\ \A k \in 1 .. T : ItemAt(ThrowablesAt, k - 1)[1] = k
         /\ \A k \in 1 .. N : ItemAt(ImpactsAt, k - 1)[1] = k
<1> DEFINE A == 8 * actors
           L == Len(frame)
<1>1. /\ frame \in Seq(Int) /\ L = o + 17 + 4 * n /\ o = A + 4 + 8 * P + 8 * T + 8 * N
      /\ actors \in 0 .. 8 /\ P \in 0 .. 2 /\ T \in 0 .. 1 /\ N \in 0 .. 1 /\ n \in 0 .. 4
  BY DEF FrameOf
<1>2. /\ actors > 0 => frame[6] = Packed(look)
      /\ frame[A + 2] = P /\ frame[A + 3] = T /\ frame[A + 4] = N
  BY DEF FrameOf
<1>3. /\ \A k \in 1 .. P : frame[A + (4 + (8 * (k - 1) + 1))] = k /\ frame[A + (4 + (8 * (k - 1) + 3))] = 2
      /\ \A k \in 1 .. T : frame[A + (4 + 8 * P + (8 * (k - 1) + 1))] = k
      /\ \A k \in 1 .. N : frame[A + (4 + 8 * P + 8 * T + (8 * (k - 1) + 1))] = k
      /\ \A i \in 1 .. 17 + 4 * n : frame[o + i] = SuffixWords(written)[i]
  BY DEF FrameOf
<1>4. A \in Nat /\ (actors > 0 => A >= 8) /\ Trailer = A
  BY <1>1 DEF Trailer
<1> HIDE DEF A, L
<1>5. DOMAIN frame = 1 .. L /\ L \in Nat /\ \A i \in 1 .. L : frame[i] \in Int
  BY <1>1, LenProperties, ElementOfSeq DEF L
<1>6. ASSUME NEW i \in Int, i + 1 \in 1 .. L PROVE At(i) = frame[i + 1]
  BY <1>5, <1>6, Zenon DEF At
<1>7. At(A + 1) = P /\ At(A + 2) = T /\ At(A + 3) = N
  <2>1. /\ A + 1 \in Int /\ A + 2 \in Int /\ A + 3 \in Int
        /\ (A + 1) + 1 = A + 2 /\ (A + 2) + 1 = A + 3 /\ (A + 3) + 1 = A + 4
        /\ A + 2 \in 1 .. L /\ A + 3 \in 1 .. L /\ A + 4 \in 1 .. L
    BY <1>1, <1>4
  <2> QED
    BY <1>2, <1>6, <2>1
<1>8. ThrowablesAt = A + 4 + 8 * P /\ ImpactsAt = A + 4 + 8 * P + 8 * T /\ TailAt = o
  <2>1. ThrowablesAt = A + 4 + 8 * P
    BY <1>4, <1>7 DEF ThrowablesAt
  <2>2. ImpactsAt = A + 4 + 8 * P + 8 * T
    BY <1>4, <1>7, <2>1 DEF ImpactsAt
  <2> QED
    BY <1>1, <1>4, <1>7, <2>1, <2>2 DEF TailAt
<1>9. o \in Nat /\ TailLength = 17 + 4 * n
  BY <1>1, <1>4, <1>8 DEF TailLength, L
<1>10. ASSUME NEW i \in 0 .. 16 + 4 * n PROVE At(o + i) = SuffixWords(written)[i + 1]
  <2>1. o + i \in Int /\ (o + i) + 1 \in 1 .. L /\ i + 1 \in 1 .. 17 + 4 * n /\ (o + i) + 1 = o + (i + 1)
    <3>1. n \in Nat /\ o \in Nat
      BY <1>1, <1>9
    <3>2. i \in Nat /\ i <= 16 + 4 * n
      BY <3>1
    <3>3. i + 1 \in 1 .. 17 + 4 * n
      BY <3>1, <3>2
    <3>4. L = o + (17 + 4 * n)
      BY <1>1, <3>1, SMTT(30)
    <3>5. (o + i) + 1 = o + (i + 1) /\ o + i \in Int
      BY <3>1, <3>2
    <3>6. o + (i + 1) \in 1 .. L
      BY <3>1, <3>3, <3>4
    <3> QED
      BY <3>3, <3>5, <3>6
  <2> QED
    BY <1>3, <1>6, <2>1
<1>11. actors > 0 => At(5) = Packed(look)
  <2>1. actors > 0 => 5 + 1 \in 1 .. L
    BY <1>1, <1>4
  <2> QED
    BY <1>2, <1>6, <2>1
<1>12. ASSUME NEW from \in Nat, NEW k \in Nat, from + 8 * k + 8 <= L, NEW j \in 1 .. 8
       PROVE  ItemAt(from, k)[j] = frame[from + 8 * k + j]
  <2> DEFINE i == from + 8 * k + 1
             h == from + 8 * k + 8
  <2>1. i \in Int /\ h \in Int /\ h - i + 1 = 8 /\ i + j - 1 = from + 8 * k + j
        /\ \A g \in i .. h : g \in 1 .. L
    BY <1>5, <1>12
  <2> HIDE DEF i, h
  <2>2. \A g \in i .. h : frame[g] \in Int
    BY <1>5, <2>1
  <2>3. \A g \in 1 .. h - i + 1 : SubSeq(frame, i, h)[g] = frame[i + g - 1]
    BY <2>1, <2>2, SubSeqProperties
  <2>4. ItemAt(from, k) = SubSeq(frame, i, h)
    BY DEF ItemAt, i, h
  <2> QED
    BY <2>1, <2>3, <2>4
<1>13. ASSUME NEW k \in 1 .. P
       PROVE  ItemAt(Trailer + 4, k - 1)[1] = k /\ ItemAt(Trailer + 4, k - 1)[3] = 2
  <2>1. /\ A + 4 \in Nat /\ k - 1 \in Nat /\ (A + 4) + 8 * (k - 1) + 8 <= L
        /\ (A + 4) + 8 * (k - 1) + 1 = A + (4 + (8 * (k - 1) + 1))
        /\ (A + 4) + 8 * (k - 1) + 3 = A + (4 + (8 * (k - 1) + 3))
    BY <1>1, <1>4
  <2>2. 1 \in 1 .. 8 /\ 3 \in 1 .. 8
    OBVIOUS
  <2>3. /\ ItemAt(A + 4, k - 1)[1] = frame[(A + 4) + 8 * (k - 1) + 1]
        /\ ItemAt(A + 4, k - 1)[3] = frame[(A + 4) + 8 * (k - 1) + 3]
    BY <1>12, <2>1, <2>2
  <2> QED
    BY <1>3, <1>4, <2>1, <2>3
<1>14. ASSUME NEW k \in 1 .. T PROVE ItemAt(ThrowablesAt, k - 1)[1] = k
  <2> DEFINE from == A + 4 + 8 * P
  <2>1. /\ from \in Nat /\ k - 1 \in Nat /\ from + 8 * (k - 1) + 8 <= L
        /\ from + 8 * (k - 1) + 1 = A + (4 + 8 * P + (8 * (k - 1) + 1)) /\ 1 \in 1 .. 8
    BY <1>1, <1>4
  <2> HIDE DEF from
  <2>2. ItemAt(from, k - 1)[1] = frame[from + 8 * (k - 1) + 1]
    BY <1>12, <2>1
  <2> QED
    BY <1>3, <1>8, <2>1, <2>2 DEF from
<1>15. ASSUME NEW k \in 1 .. N PROVE ItemAt(ImpactsAt, k - 1)[1] = k
  <2> DEFINE from == A + 4 + 8 * P + 8 * T
  <2>1. /\ from \in Nat /\ k - 1 \in Nat /\ from + 8 * (k - 1) + 8 <= L
        /\ from + 8 * (k - 1) + 1 = A + (4 + 8 * P + 8 * T + (8 * (k - 1) + 1)) /\ 1 \in 1 .. 8
    BY <1>1, <1>4
  <2> HIDE DEF from
  <2>2. ItemAt(from, k - 1)[1] = frame[from + 8 * (k - 1) + 1]
    BY <1>12, <2>1
  <2> QED
    BY <1>3, <1>8, <2>1, <2>2 DEF from
<1> QED
  BY <1>1, <1>4, <1>7, <1>8, <1>9, <1>10, <1>11, <1>13, <1>14, <1>15 DEF A, L

\* The words of the suffix as they are read, with n ripe slices from number a on.
ReadOf(o, a, n) ==
  /\ At(o) = written.pickup /\ At(o + 1) = written.at /\ At(o + 3) = written.at
  /\ At(o + 6) = written.charge /\ At(o + 7) = (IF written.charge > 0 THEN 6 ELSE 0)
  /\ At(o + 8) = 30 /\ At(o + 9) = n
  /\ \A k \in 0 .. n - 1 : /\ At(o + 10 + 4 * k) = a + k /\ At(o + 11 + 4 * k) = written.at
                          /\ At(o + 12 + 4 * k) = 0 /\ At(o + 13 + 4 * k) = written.at
  /\ At(o + 10 + 4 * n) = written.map /\ At(o + 12 + 4 * n) = 7200
  /\ At(o + 13 + 4 * n) = written.votes /\ At(o + 16 + 4 * n) = written.respawn

\* They find no oxygen values, and every field of the suffix.
LEMMA SuffixReads ==
  ASSUME NEW a, NEW b, FieldsOf(written, a, b), NEW o, NEW P, NEW T, NEW N,
         FrameOf(o, P, T, N, Cardinality(written.slices))
  PROVE  ReadOf(o, a, Cardinality(written.slices)) /\ SuffixAt = o
<1> DEFINE n == Cardinality(written.slices)
           w == SuffixWords(written)
<1> HIDE DEF n, w
<1>1. o \in Nat /\ TailAt = o /\ TailLength = 17 + 4 * n
  BY FrameReads DEF n
<1>2. \A i \in 0 .. 16 + 4 * n : At(o + i) = w[i + 1]
  BY FrameReads DEF n, w
<1>3. n \in 0 .. 4 /\ a \in 1 .. 5
  BY Zenon DEF FieldsOf, n
<1>4. SuffixOf(w, written, a, n)
  BY SuffixPart, Zenon DEF n, w
<1>5. /\ w[1] = written.pickup /\ w[2] = written.at /\ w[4] = written.at /\ w[7] = written.charge
      /\ w[9] = 30 /\ w[10] = n /\ w[8] = (IF written.charge > 0 THEN 6 ELSE 0)
  BY <1>4, Zenon DEF SuffixOf
<1>6. \A k \in 1 .. n : /\ w[10 + (4 * (k - 1) + 1)] = a + k - 1
                        /\ w[10 + (4 * (k - 1) + 2)] = written.at
                        /\ w[10 + (4 * (k - 1) + 3)] = 0
                        /\ w[10 + (4 * (k - 1) + 4)] = written.at
  BY <1>4, Zenon DEF SuffixOf
<1>7. /\ w[10 + 4 * n + 1] = written.map /\ w[10 + 4 * n + 3] = 7200
      /\ w[10 + 4 * n + 4] = written.votes /\ w[10 + 4 * n + 7] = written.respawn
  BY <1>4 DEF SuffixOf
<1>8. /\ At(o) = w[1] /\ At(o + 1) = w[2] /\ At(o + 3) = w[4] /\ At(o + 6) = w[7]
      /\ At(o + 7) = w[8] /\ At(o + 8) = w[9] /\ At(o + 9) = w[10]
  <2>1. 0 \in 0 .. 16 + 4 * n /\ o + 0 = o
    BY <1>1, <1>3
  <2>2. \A i \in 1 .. 9 : i \in 0 .. 16 + 4 * n
    BY <1>3
  <2> QED
    BY <1>2, <2>1, <2>2
<1>9. ASSUME NEW k \in 0 .. n - 1
      PROVE  /\ At(o + 10 + 4 * k) = a + k /\ At(o + 11 + 4 * k) = written.at
             /\ At(o + 12 + 4 * k) = 0 /\ At(o + 13 + 4 * k) = written.at
  <2> DEFINE i == 10 + 4 * k
  <2>1. /\ k + 1 \in 1 .. n /\ (k + 1) - 1 = k /\ a + (k + 1) - 1 = a + k
        /\ i \in 0 .. 16 + 4 * n /\ i + 1 \in 0 .. 16 + 4 * n /\ i + 2 \in 0 .. 16 + 4 * n
        /\ i + 3 \in 0 .. 16 + 4 * n
        /\ o + i = o + 10 + 4 * k /\ o + (i + 1) = o + 11 + 4 * k
        /\ o + (i + 2) = o + 12 + 4 * k /\ o + (i + 3) = o + 13 + 4 * k
        /\ i + 1 = 10 + (4 * k + 1) /\ (i + 1) + 1 = 10 + (4 * k + 2)
        /\ (i + 2) + 1 = 10 + (4 * k + 3) /\ (i + 3) + 1 = 10 + (4 * k + 4)
    BY <1>1, <1>3
  <2> HIDE DEF i
  <2>2. /\ At(o + i) = w[i + 1] /\ At(o + (i + 1)) = w[(i + 1) + 1]
        /\ At(o + (i + 2)) = w[(i + 2) + 1] /\ At(o + (i + 3)) = w[(i + 3) + 1]
    BY <1>2, <2>1
  <2>3. /\ w[10 + (4 * k + 1)] = a + k /\ w[10 + (4 * k + 2)] = written.at
        /\ w[10 + (4 * k + 3)] = 0 /\ w[10 + (4 * k + 4)] = written.at
    BY <1>6, <2>1
  <2> QED
    BY <2>1, <2>2, <2>3
<1>10. /\ At(o + 10 + 4 * n) = written.map /\ At(o + 12 + 4 * n) = 7200
       /\ At(o + 13 + 4 * n) = written.votes /\ At(o + 16 + 4 * n) = written.respawn
  <2> DEFINE i == 10 + 4 * n
  <2>1. /\ i \in 0 .. 16 + 4 * n /\ i + 2 \in 0 .. 16 + 4 * n /\ i + 3 \in 0 .. 16 + 4 * n
        /\ i + 6 \in 0 .. 16 + 4 * n
        /\ o + i = o + 10 + 4 * n /\ o + (i + 2) = o + 12 + 4 * n
        /\ o + (i + 3) = o + 13 + 4 * n /\ o + (i + 6) = o + 16 + 4 * n
        /\ (i + 2) + 1 = i + 3 /\ (i + 3) + 1 = i + 4 /\ (i + 6) + 1 = i + 7
    BY <1>1, <1>3
  <2> HIDE DEF i
  <2>2. /\ At(o + i) = w[i + 1] /\ At(o + (i + 2)) = w[i + 3]
        /\ At(o + (i + 3)) = w[i + 4] /\ At(o + (i + 6)) = w[i + 7]
    BY <1>2, <2>1
  <2> QED
    BY <1>7, <2>1, <2>2 DEF i
<1>11. ReadOf(o, a, n)
  BY <1>5, <1>8, <1>9, <1>10 DEF ReadOf
<1>12. SuffixAt = o
  <2>1. At(TailAt + 9) = n
    BY <1>1, <1>5, <1>8
  <2>2. HasNewSuffix(TailLength)
    BY <1>1, <1>3, <2>1 DEF HasNewSuffix
  <2> QED
    BY <1>1, <2>2 DEF SuffixAt, HasOxygen
<1> QED
  BY <1>11, <1>12 DEF n

\* So the scene of the page and that of a bot are what was written.
LEMMA SceneIsRead ==
  ASSUME NEW a, NEW b, FieldsOf(written, a, b), NEW o,
         FrameOf(o, written.projectiles, written.throwables, written.impacts, Cardinality(written.slices))
  PROVE  SceneReadsBack
<1> DEFINE P == written.projectiles
           T == written.throwables
           N == written.impacts
           n == Cardinality(written.slices)
           scene == ParsedScene
<1>0. written.slices = a .. b
  BY Zenon DEF FieldsOf
<1>1. /\ a \in 1 .. 5 /\ b \in 1 .. 5 /\ n \in 0 .. 4
      /\ P \in {0, 2} /\ T \in {0, 1} /\ N \in {0, 1}
  BY Zenon DEF FieldsOf
<1>2. ReadOf(o, a, n) /\ SuffixAt = o
  BY SuffixReads
<1>3. /\ o \in Nat /\ Trailer = 8 * actors
      /\ At(Trailer + 1) = P /\ At(Trailer + 2) = T /\ At(Trailer + 3) = N
      /\ Len(frame) = o + 17 + 4 * n
  BY FrameReads
<1>4. /\ \A k \in 1 .. P : ItemAt(Trailer + 4, k - 1)[1] = k /\ ItemAt(Trailer + 4, k - 1)[3] = 2
      /\ \A k \in 1 .. T : ItemAt(ThrowablesAt, k - 1)[1] = k
      /\ \A k \in 1 .. N : ItemAt(ImpactsAt, k - 1)[1] = k
  BY FrameReads
<1>5. actors \in 0 .. 8
  BY DEF FrameOf
<1> HIDE DEF n, P, T, N
<1>6. MetadataAt(o) = o + 10 + 4 * n
  BY <1>2 DEF MetadataAt, ReadOf
<1>7. SlicesAt(o) = written.slices
  <2>1. n = IF a > b THEN 0 ELSE b - a + 1
    <3>1. Cardinality(a .. b) = IF a > b THEN 0 ELSE b - a + 1
      <4>1. a \in Int /\ b \in Int
        BY <1>1
      <4> QED
        BY <4>1, FS_Interval
    <3>2. n = Cardinality(a .. b)
      BY <1>0, Zenon DEF n
    <3> QED
      BY <3>1, <3>2
  <2>2. SlicesAt(o) = {At(o + 10 + 4 * k) : k \in 0 .. n - 1}
    <3>1. At(o + 9) = n
      BY <1>2, Zenon DEF ReadOf
    <3> QED
      BY <3>1 DEF SlicesAt
  <2>3. \A k \in 0 .. n - 1 : At(o + 10 + 4 * k) = a + k
    BY <1>2 DEF ReadOf
  <2>4. SlicesAt(o) = {a + k : k \in 0 .. n - 1}
    BY <2>2, <2>3
  <2>5. {a + k : k \in 0 .. n - 1} = a .. b
    <3>1. ASSUME NEW i \in a .. b PROVE \E k \in 0 .. n - 1 : i = a + k
      <4>1. i - a \in 0 .. n - 1 /\ i = a + (i - a)
        BY <1>1, <2>1
      <4> QED
        BY <4>1
    <3>2. ASSUME NEW k \in 0 .. n - 1 PROVE a + k \in a .. b
      BY <1>1, <2>1
    <3> QED
      BY <3>1, <3>2
  <2> QED
    BY <1>0, <2>4, <2>5
<1>8. Len(scene.actors) = actors
  <2>1. scene.actors = [k \in 1 .. actors |-> At(8 * (k - 1))]
    BY Zenon DEF ParsedScene
  <2> QED
    BY <1>5, <2>1
<1>9. /\ scene.projectiles = Items(Trailer + 4, P) /\ scene.throwables = Items(ThrowablesAt, T)
      /\ scene.impacts = Items(ImpactsAt, N)
  BY <1>3, Zenon DEF ParsedScene
<1>10. ASSUME NEW c \in Nat, NEW from
       PROVE  Len(Items(from, c)) = c /\ \A k \in 1 .. c : Items(from, c)[k] = ItemAt(from, k - 1)
  BY <1>10 DEF Items
<1>11. P \in Nat /\ T \in Nat /\ N \in Nat
  BY <1>1
<1>12. /\ Len(scene.projectiles) = P /\ \A k \in 1 .. P : scene.projectiles[k][1] = k
       /\ Len(scene.throwables) = T /\ \A k \in 1 .. T : scene.throwables[k][1] = k
       /\ Len(scene.impacts) = N /\ \A k \in 1 .. N : scene.impacts[k][1] = k
  BY <1>4, <1>9, <1>10, <1>11
<1>13. /\ scene.pickup = written.pickup /\ scene.at = written.at /\ scene.charge = written.charge
       /\ scene.slices = written.slices /\ scene.map = written.map /\ scene.votes = written.votes
       /\ scene.respawn = written.respawn
  <2>1. /\ scene.pickup = At(o) /\ scene.at = At(o + 1) /\ scene.charge = At(o + 6)
        /\ scene.slices = SlicesAt(o) /\ scene.map = At(MetadataAt(o))
        /\ scene.votes = At(MetadataAt(o) + 3)
        /\ scene.respawn = IF Len(frame) - o = 17 + 4 * At(o + 9) THEN At(MetadataAt(o) + 6) ELSE 0
    BY <1>2 DEF ParsedScene
  <2>2. Len(frame) - o = 17 + 4 * At(o + 9)
    <3>1. At(o + 9) = n
      BY <1>2, Zenon DEF ReadOf
    <3> QED
      BY <1>1, <1>3, <3>1, SMTT(30)
  <2>3. MetadataAt(o) + 3 = o + 13 + 4 * n /\ MetadataAt(o) + 6 = o + 16 + 4 * n
    BY <1>1, <1>3, <1>6
  <2> HIDE DEF scene
  <2> QED
    BY <1>2, <1>6, <1>7, <2>1, <2>2, <2>3 DEF ReadOf
<1>14. BotScene = [projectiles |-> [k \in 1 .. P |-> 2], pickup |-> written.pickup,
                   at |-> written.at, charge |-> written.charge, seeds |-> 30]
  <2>1. BotScene = [projectiles |-> [k \in 1 .. P |-> ItemAt(Trailer + 4, k - 1)[3]],
                    pickup |-> At(o), at |-> At(o + 1), charge |-> At(o + 6), seeds |-> At(o + 8)]
    BY <1>2, <1>3, Zenon DEF BotScene
  <2>2. [k \in 1 .. P |-> ItemAt(Trailer + 4, k - 1)[3]] = [k \in 1 .. P |-> 2]
    BY <1>4
  <2>3. At(o) = written.pickup /\ At(o + 1) = written.at /\ At(o + 6) = written.charge /\ At(o + 8) = 30
    BY <1>2 DEF ReadOf
  <2> QED
    BY <2>1, <2>2, <2>3, Zenon
<1> HIDE DEF scene
<1> QED
  BY <1>8, <1>12, <1>13, <1>14 DEF SceneReadsBack, scene, P, T, N

\* The state word is taken apart into what was put into it.
LEMMA ActorIsRead ==
  ASSUME NEW o, NEW P, NEW T, NEW N, NEW n, FrameOf(o, P, T, N, n), look \in Looks
  PROVE  ActorReadsBack
<1> SUFFICES ASSUME actors > 0, ~RollsBack(look)
             PROVE  ParsedLook(At(5)) = [f \in {"posture", "power", "animation", "dizzy"} |-> look[f]]
  BY DEF ActorReadsBack
<1>1. At(5) = Packed(look)
  BY FrameReads
<1> DEFINE p == look.posture
           w == look.power
           m == look.animation
           d == IF look.dizzy THEN 2048 ELSE 0
           s == p + w * 8 + m * 128 + d
<1>2. p \in 0 .. 7 /\ w \in 0 .. 8 /\ m \in 0 .. 14 /\ look.dizzy \in BOOLEAN
  BY DEF Looks
<1>3. Packed(look) = s
  <2>1. Packed(look) = p + w * 8 + 0 + m * 128 + d
    BY Zenon DEF Packed
  <2>2. d \in Int
    OBVIOUS
  <2> HIDE DEF d
  <2> QED
    BY <1>2, <2>1, <2>2
<1>4. d \in {0, 2048} /\ (d = 2048 <=> look.dizzy = TRUE) /\ (look.dizzy = FALSE => d = 0)
  BY <1>2
<1> HIDE DEF d, p, w, m
<1>5. /\ s % 8 = p /\ (s \div 8) % 16 = w /\ (s \div 128) % 16 = m
      /\ ((s \div 2048) % 2 = 1 <=> d = 2048)
  BY <1>2, <1>4
<1> HIDE DEF s
<1> DEFINE bit == (s \div 2048) % 2
           dizzy == bit = 1
           posture == s % 8
           power == (s \div 8) % 16
           animation == (s \div 128) % 16
<1>6. dizzy = look.dizzy
  <2> HIDE DEF bit
  <2>1. CASE look.dizzy = TRUE
    <3>1. bit = 1
      BY <1>4, <1>5, <2>1 DEF bit
    <3>2. dizzy = TRUE
      BY <3>1
    <3> QED
      BY <2>1, <3>2, Zenon
  <2>2. CASE look.dizzy = FALSE
    <3>1. d # 2048
      BY <1>4, <2>2
    <3>2. bit # 1
      BY <1>5, <3>1 DEF bit
    <3>3. dizzy = FALSE
      BY <3>2
    <3> QED
      BY <2>2, <3>3, Zenon
  <2> QED
    BY <1>2, <2>1, <2>2, Zenon
<1>7. ParsedLook(s) = [posture |-> p, power |-> w, animation |-> m, dizzy |-> look.dizzy]
  <2>1. ParsedLook(s) = [posture |-> posture, power |-> power, animation |-> animation, dizzy |-> dizzy]
    BY Zenon DEF ParsedLook
  <2>2. posture = p /\ power = w /\ animation = m
    BY <1>5
  <2> HIDE DEF posture, power, animation, dizzy
  <2> QED
    BY <1>6, <2>1, <2>2, Zenon
<1>8. [posture |-> p, power |-> w, animation |-> m, dizzy |-> look.dizzy]
      = [f \in {"posture", "power", "animation", "dizzy"} |-> look[f]]
  BY DEF p, w, m
<1> QED
  BY <1>1, <1>3, <1>7, <1>8, Zenon

\* A check that starts behind oxygen values that are not there looks at words that
\* cannot be what it takes them for.
LEMMA CheckedIsRead ==
  ASSUME NEW a, NEW b, FieldsOf(written, a, b), NEW o,
         FrameOf(o, written.projectiles, written.throwables, written.impacts, Cardinality(written.slices))
  PROVE  CheckedAsRead
<1> DEFINE n == Cardinality(written.slices)
<1> SUFFICES ASSUME Accepts, ValidatorAt # o PROVE FALSE
  BY SuffixReads DEF CheckedAsRead
<1>1. ReadOf(o, a, n) /\ o \in Nat /\ TailAt = o /\ TailLength = 17 + 4 * n
      /\ Len(frame) = o + 17 + 4 * n
  BY FrameReads, SuffixReads
<1>2. /\ n \in 0 .. 4 /\ a \in 1 .. 5 /\ b \in 1 .. 5 /\ written.at \in 4 .. 100
      /\ written.map \in {1, 2}
  BY Zenon DEF FieldsOf
<1>3. actors \in 0 .. 8
  BY DEF FrameOf
<1>4. n = IF a > b THEN 0 ELSE b - a + 1
  <2>1. Cardinality(a .. b) = IF a > b THEN 0 ELSE b - a + 1
    BY <1>2, FS_Interval
  <2>2. n = Cardinality(a .. b)
    BY Zenon DEF n, FieldsOf
  <2> QED
    BY <2>1, <2>2
<1> HIDE DEF n
<1>5. /\ At(o + 1) = written.at /\ At(o + 3) = written.at /\ At(o + 9) = n
      /\ At(o + 10 + 4 * n) = written.map /\ At(o + 12 + 4 * n) = 7200
      /\ \A k \in 0 .. n - 1 : At(o + 10 + 4 * k) = a + k /\ At(o + 12 + 4 * k) = 0
  BY <1>1 DEF ReadOf
<1> DEFINE length == 17 + 4 * n
           oxygen == \/ length \in {actors, actors + 6}
                     \/ /\ length \in actors + 10 .. actors + 32
                        /\ \/ (length - actors - 10) % 4 = 0
                           \/ (length - actors - 16) % 4 = 0
<1>6. ValidatorAt = o + actors /\ oxygen
  <2> DEFINE unknown(size, slices) == ~(size \in 10 .. 32 /\ slices \in 0 .. 4 /\ size - 4 * slices \in {10, 16})
             values(size) == \/ size \in {actors, actors + 6}
                             \/ /\ size \in actors + 10 .. actors + 32
                                /\ \/ (size - actors - 10) % 4 = 0
                                   \/ (size - actors - 16) % 4 = 0
  <2>1. ValidatorAt = TailAt + (IF unknown(TailLength, At(TailAt + 9)) /\ values(TailLength)
                                THEN actors ELSE 0)
    BY Zenon DEF ValidatorAt
  <2>2. values(length) <=> oxygen
    OBVIOUS
  <2>3. TailAt = o /\ TailLength = length
    BY <1>1
  <2> HIDE DEF unknown, values, oxygen, length
  <2>4. ValidatorAt = o + (IF unknown(length, At(o + 9)) /\ values(length) THEN actors ELSE 0)
    BY <2>1, <2>3, Zenon
  <2> QED
    BY <1>1, <1>3, <2>2, <2>4
<1>7. length = 17 + 4 * n
  OBVIOUS
<1>8. actors \in {1, 3, 5, 7}
  <2>1. n \in {0, 1, 2, 3, 4} /\ actors \in {0, 1, 2, 3, 4, 5, 6, 7, 8}
    BY <1>2, <1>3
  <2>2. actors # 0
    BY <1>1, <1>6
  <2> QED
    BY <1>6, <2>1, <2>2
<1> DEFINE v == o + actors
           words == length - actors
<1>9. ValidSuffix(v, words)
  <2>1. Len(frame) - ValidatorAt = words
    BY <1>1, <1>2, <1>3, <1>6
  <2> QED
    BY <1>6, <2>1, Zenon DEF Accepts
<1>10. /\ At(v) \in {0, 1} /\ At(v + 3) \in World /\ At(v + 7) \in 0 .. 6
       /\ At(v + 9) \in 0 .. 4 /\ words - 4 * At(v + 9) \in {10, 16, 17}
       /\ \A k \in 0 .. At(v + 9) - 1 : At(v + 11 + 4 * k) \in World
  <2> HIDE DEF v, words
  <2>1. At(v) \in {0, 1} /\ At(v + 3) \in World /\ At(v + 7) \in 0 .. 6
    BY <1>9 DEF ValidSuffix
  <2>2. At(v + 9) \in 0 .. 4 /\ words - 4 * At(v + 9) \in {10, 16, 17}
    BY <1>9 DEF ValidSuffix
  <2>3. \A k \in 0 .. At(v + 9) - 1 : At(v + 11 + 4 * k) \in World
    BY <1>9 DEF ValidSuffix
  <2> QED
    BY <2>1, <2>2, <2>3
<1>11. CASE actors = 1
  BY <1>2, <1>5, <1>10, <1>11
<1>12. CASE actors = 3
  BY <1>2, <1>5, <1>10, <1>12
<1>13. CASE actors = 5
  <2>1. /\ v + 7 = o + 12 /\ v + 9 = o + 14 /\ v + 11 + 4 * 0 = o + 16 /\ words = 12 + 4 * n
    BY <1>1, <1>2, <1>13
  <2>2. CASE n = 0
    <3>1. At(v + 7) = 7200
      BY <1>1, <1>5, <2>1, <2>2
    <3> QED
      BY <1>10, <3>1
  <2>3. CASE n = 1
    <3>1. At(v + 9) = written.map
      BY <1>1, <1>5, <2>1, <2>3
    <3> QED
      BY <1>2, <1>10, <2>1, <2>3, <3>1
  <2>4. CASE n > 1
    <3>1. /\ 1 \in 0 .. n - 1 /\ o + 10 + 4 * 1 = o + 14 /\ o + 12 + 4 * 1 = o + 16
      BY <1>1, <1>2, <2>4
    <3>2. At(v + 9) = a + 1 /\ At(v + 11 + 4 * 0) = 0
      BY <1>5, <2>1, <3>1
    <3>3. 0 \in 0 .. At(v + 9) - 1
      BY <1>2, <3>2
    <3>4. 0 \in World
      BY <1>10, <3>2, <3>3
    <3> QED
      BY <3>4 DEF World
  <2> QED
    BY <1>2, <2>2, <2>3, <2>4
<1>14. CASE actors = 7
  <2>1. v + 3 = o + 10 /\ v + 9 = o + 16 /\ words = 10 + 4 * n
    BY <1>1, <1>2, <1>14
  <2>2. n # 0
    <3> SUFFICES ASSUME n = 0 PROVE FALSE
      OBVIOUS
    <3>1. At(v + 3) = written.map
      BY <1>1, <1>5, <2>1
    <3> QED
      BY <1>2, <1>10, <3>1, SMTT(30) DEF World
  <2>3. a >= 4
    <3>1. 0 \in 0 .. n - 1 /\ o + 10 + 4 * 0 = o + 10
      BY <1>1, <1>2, <2>2
    <3>2. At(v + 3) = a + 0
      BY <1>5, <2>1, <3>1
    <3> QED
      BY <1>2, <1>10, <3>2, SMTT(30) DEF World
  <2>4. n = 1 \/ n = 2
    BY <1>2, <1>4, <2>2, <2>3
  <2>5. CASE n = 1
    <3>1. At(v + 9) = 7200
      BY <1>1, <1>5, <2>1, <2>5
    <3> QED
      BY <1>10, <3>1
  <2>6. CASE n = 2
    <3>1. 1 \in 0 .. n - 1 /\ o + 12 + 4 * 1 = o + 16
      BY <1>1, <2>6
    <3>2. At(v + 9) = 0
      BY <1>5, <2>1, <3>1
    <3> QED
      BY <1>10, <2>1, <2>6, <3>2
  <2> QED
    BY <2>4, <2>5, <2>6
<1> QED
  BY <1>8, <1>11, <1>12, <1>13, <1>14

-----------------------------------------------------------------------------

\* The snapshot of a state: fields of a match, and no words yet or those of these fields.
LayoutShape ==
  /\ \E a, b : FieldsOf(written, a, b)
  /\ actors \in 0 .. 8 /\ look \in Looks
  /\ frame \in {<<>>, ActorWords(written) \o ListWords(written) \o SuffixWords(written)}

\* It holds at first, and says all that the properties need.
LEMMA ShapeAtFirst == LayoutInit => LayoutShape
<1> SUFFICES ASSUME LayoutInit PROVE LayoutShape
  OBVIOUS
<1>1. MaxActors \in 1 .. 8 /\ MaxSlices \in 0 .. 4 /\ Places \subseteq 4 .. 100 /\ Places # {}
  BY LayoutAssumption
<1>2. frame = <<>>
  BY DEF LayoutInit
<1>3. CASE /\ written \in Fields /\ Cardinality(written.slices) <= MaxSlices
           /\ actors \in 0 .. MaxActors /\ look = Standing
  <2>1. PICK a \in Id, b \in Id : written.slices = a .. b
    BY <1>3 DEF Fields
  <2>2. a \in 1 .. 5 /\ b \in 1 .. 5
    BY <1>1, <2>1 DEF Id
  <2>3. Cardinality(written.slices) \in 0 .. 4
    <3>1. Cardinality(a .. b) \in Nat
      <4>1. a \in Int /\ b \in Int
        BY <2>2
      <4>2. Cardinality(a .. b) = IF a > b THEN 0 ELSE b - a + 1
        BY <4>1, FS_Interval
      <4> QED
        BY <4>1, <4>2
    <3>2. Cardinality(written.slices) \in Nat
      BY <2>1, <3>1, Zenon
    <3> QED
      BY <1>1, <1>3, <3>2
  <2>4. /\ written.projectiles \in {0, 2} /\ written.throwables \in {0, 1}
        /\ written.impacts \in {0, 1} /\ written.pickup \in {0, 1} /\ written.at \in Places
        /\ written.charge \in {0, 30} /\ written.map \in {1, 2}
        /\ written.votes \in {0, 1, MaxActors} /\ written.respawn \in {0, 360}
    BY <1>3 DEF Fields
  <2>5. written.at \in 4 .. 100 /\ written.votes \in 0 .. 8 /\ actors \in 0 .. 8
    <3>1. written.at \in 4 .. 100
      <4>1. Places \subseteq 4 .. 100
        BY <1>1
      <4>2. written.at \in Places
        BY <2>4, Zenon
      <4> QED
        BY <4>1, <4>2, Zenon
    <3>2. written.votes \in 0 .. 8 /\ actors \in 0 .. 8
      BY <1>1, <1>3, <2>4
    <3> QED
      BY <3>1, <3>2
  <2>6. FieldsOf(written, a, b)
    BY <2>1, <2>2, <2>3, <2>4, <2>5, Zenon DEF FieldsOf
  <2>7. look \in Looks
    BY <1>3 DEF Looks, Standing
  <2> QED
    BY <1>2, <2>5, <2>6, <2>7, Zenon DEF LayoutShape
<1>4. CASE written = QuietFields /\ actors = 2 /\ look \in Looks
  <2>1. Min(Places) \in 4 .. 100
    <3>1. Places \in SUBSET Nat
      BY <1>1
    <3>2. PICK x \in Places : \A y \in Places : x <= y
      BY <1>1, <3>1, LeastIsThere
    <3>3. Min(Places) \in Places
      BY <3>2 DEF Min
    <3> QED
      BY <1>1, <3>3
  <2>2. {} = 2 .. 1 /\ Cardinality({}) = 0
    BY FS_EmptySet
  <2>3. /\ written.projectiles = 0 /\ written.throwables = 0 /\ written.impacts = 0
        /\ written.pickup = 0 /\ written.at = Min(Places) /\ written.charge = 0
        /\ written.slices = {} /\ written.map = 1 /\ written.votes = 0 /\ written.respawn = 0
    BY <1>4 DEF QuietFields
  <2>4. FieldsOf(written, 2, 1)
    BY <2>1, <2>2, <2>3 DEF FieldsOf
  <2>5. actors \in 0 .. 8
    BY <1>4
  <2> QED
    BY <1>2, <1>4, <2>4, <2>5, Zenon DEF LayoutShape
<1> QED
  BY <1>3, <1>4 DEF LayoutInit

LEMMA ShapeGivesLayout == LayoutShape => LayoutInv
<1> SUFFICES ASSUME LayoutShape PROVE LayoutInv
  OBVIOUS
<1>1. PICK a, b : FieldsOf(written, a, b)
  BY DEF LayoutShape
<1>2. CASE frame = <<>>
  BY <1>2 DEF LayoutInv, SceneReadsBack, ActorReadsBack, CheckedAsRead
<1>3. CASE frame # <<>>
  <2> DEFINE o == 8 * actors + 4 + 8 * written.projectiles + 8 * written.throwables
                  + 8 * written.impacts
  <2>1. /\ actors \in 0 .. 8 /\ look \in Looks
        /\ frame = ActorWords(written) \o ListWords(written) \o SuffixWords(written)
    BY <1>3, Zenon DEF LayoutShape
  <2>2. FrameOf(o, written.projectiles, written.throwables, written.impacts,
                Cardinality(written.slices))
    BY <1>1, <2>1, FrameIsWritten, Zenon
  <2> HIDE DEF o
  <2>3. SceneReadsBack
    BY <1>1, <2>2, SceneIsRead, Zenon
  <2>4. ActorReadsBack
    BY <2>1, <2>2, ActorIsRead, Zenon
  <2>5. CheckedAsRead
    BY <1>1, <2>2, CheckedIsRead, Zenon
  <2> QED
    BY <2>3, <2>4, <2>5, Zenon DEF LayoutInv
<1> QED
  BY <1>2, <1>3

\* Whatever a match holds, the page and its bots read what the server wrote, and a
\* snapshot that is accepted is read from where it was checked.
THEOREM SnapshotsReadBack == LayoutSpec => []LayoutInv
<1>1. LayoutInit => LayoutShape
  BY ShapeAtFirst
<1>2. LayoutShape /\ [LayoutNext]_layoutVars => LayoutShape'
  <2> SUFFICES ASSUME LayoutShape, [LayoutNext]_layoutVars PROVE LayoutShape'
    OBVIOUS
  <2>1. /\ written' = written /\ look' = look /\ actors' = actors
        /\ \/ frame' = frame
           \/ frame' = ActorWords(written) \o ListWords(written) \o SuffixWords(written)
    BY Zenon DEF LayoutNext, layoutVars
  <2>2. ActorWords(written)' = ActorWords(written)
    <3>1. Packed(look)' = Packed(look)
      BY <2>1 DEF Packed, RollsBack
    <3> QED
      BY <2>1, <3>1 DEF ActorWords
  <2>3. ListWords(written)' = ListWords(written)
    BY <2>1 DEF ListWords
  <2>4. SuffixWords(written)' = SuffixWords(written)
    BY <2>1 DEF SuffixWords
  <2>5. (\E a, b : FieldsOf(written, a, b))'
    <3>1. PICK a, b : FieldsOf(written, a, b)
      BY DEF LayoutShape
    <3>2. FieldsOf(written, a, b)'
      BY <2>1, <3>1 DEF FieldsOf
    <3> QED
      BY <3>2
  <2> QED
    BY <2>1, <2>2, <2>3, <2>4, <2>5, Zenon DEF LayoutShape
<1>3. LayoutShape => LayoutInv
  BY ShapeGivesLayout
<1> QED
  BY <1>1, <1>2, <1>3, PTL DEF LayoutSpec
=============================================================================
