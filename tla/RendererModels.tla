---------------------------- MODULE RendererModels ----------------------------
(***************************************************************************)
(* The models that a renderer of the Kutter page loads                      *)
(* (apps/web_alpha/webgl_renderer.js, kutter_editor.js).  The main renderer *)
(* shows the document, frame after frame; the preview shows the asset that  *)
(* is picked in the library.  Loads end in any order, also after the model  *)
(* is no longer wanted or the renderer is gone.                             *)
(*                                                                         *)
(* A load is a slot.  A scene is the set of assets of its props.  What a    *)
(* load uploads before it fails is left out: the code never frees it.       *)
(* prepareKutterModels skips a scene it has just seen, whose preparation    *)
(* would change nothing.                                                    *)
(***************************************************************************)
EXTENDS Integers, FiniteSets

CONSTANTS Assets,    \* tokens of the catalog that have a model
          LoadSlots  \* bound: loads that run or whose model is kept

ASSUME RendererAssumption ==
  /\ Assets \subseteq Nat \ {0} /\ LoadSlots \subseteq Nat \ {0}
  /\ IsFiniteSet(Assets) /\ IsFiniteSet(LoadSlots)

VARIABLES mRole,     \* which renderer: "main" or "preview"
          mCatalog,  \* the catalog is loaded
          mDocument, \* assets of the document's props
          mCache,    \* kutterModels, the loads, and what is on the GPU
          mPicked,   \* previewedAssetToken
          mShown,    \* the last picture of the preview: its asset, and if with its model
          mGone      \* rendererDestroyed

mVars == <<mRole, mCatalog, mDocument, mCache, mPicked, mShown, mGone>>

NoLoad == [state |-> "none", asset |-> 0]
NoModels == [models |-> [a \in Assets |-> 0], loads |-> [s \in LoadSlots |-> NoLoad], gpu |-> {}]
NoPicture == [asset |-> 0, model |-> FALSE]

RendererInit ==
  /\ mRole \in {"main", "preview"}
  /\ mCatalog = FALSE /\ mDocument = {} /\ mCache = NoModels
  /\ mPicked = 0 /\ mShown = NoPicture /\ mGone = FALSE

-----------------------------------------------------------------------------
(* The cache. *)

Wanted(cache, s) == \E a \in Assets : cache.models[a] = s
Unused(cache) == {s \in LoadSlots : cache.loads[s] = NoLoad}
IsReady(cache, a) == cache.models[a] # 0 /\ cache.loads[cache.models[a]].state = "ready"

\* disposeKutterModel, and the load is forgotten if it has ended
Dropped(cache, gone) ==
  LET slots == {cache.models[a] : a \in gone} \ {0}
  IN [models |-> [a \in Assets |-> IF a \in gone THEN 0 ELSE cache.models[a]],
      loads |-> [s \in LoadSlots |-> IF s \in slots /\ cache.loads[s].state # "loading" THEN NoLoad ELSE cache.loads[s]],
      gpu |-> cache.gpu \ slots]

\* prepareKutterModels: what the scene lacks is dropped, what is new is loaded.
News(cache, scene) == {a \in scene : cache.models[a] = 0}

Prepared(cache, scene) ==
  LET left == Dropped(cache, Assets \ scene)
      new == News(left, scene)
      slots == CHOOSE f \in [new -> Unused(left)] : \A a, b \in new : a # b => f[a] # f[b]
  IN [models |-> [a \in Assets |-> IF a \in new THEN slots[a] ELSE left.models[a]],
      loads |-> [s \in LoadSlots |->
        IF \E a \in new : slots[a] = s THEN [state |-> "loading", asset |-> CHOOSE a \in new : slots[a] = s]
        ELSE left.loads[s]],
      gpu |-> left.gpu]

Fits(cache, scene) ==
  LET left == Dropped(cache, Assets \ scene)
  IN Cardinality(News(left, scene)) <= Cardinality(Unused(left))

\* Mutant: whatever has been loaded is kept.
KeptAlways(cache, s) == TRUE

\* The load ends and its entry is still there.
Kept(cache, s) == ~mGone /\ Wanted(cache, s)

LoadedModel(cache, s, ok) ==
  IF ok /\ Kept(cache, s)
  THEN [cache EXCEPT !.loads[s].state = "ready", !.gpu = @ \cup {s}]
  ELSE [cache EXCEPT !.loads[s] = IF ~ok /\ Wanted(cache, s) THEN [@ EXCEPT !.state = "failed"] ELSE NoLoad]

-----------------------------------------------------------------------------
(* The main renderer. *)

CatalogLoads == ~mCatalog /\ mCatalog' = TRUE /\ UNCHANGED <<mRole, mDocument, mCache, mPicked, mShown, mGone>>

DocumentShown ==
  /\ mRole = "main" /\ ~mGone
  /\ \E props \in SUBSET Assets : mDocument' = props
  /\ UNCHANGED <<mRole, mCatalog, mCache, mPicked, mShown, mGone>>

\* frame
MainFrame ==
  LET scene == IF mCatalog THEN mDocument ELSE {}
  IN /\ mRole = "main" /\ ~mGone /\ Fits(mCache, scene)
     /\ mCache' = Prepared(mCache, scene)
     /\ UNCHANGED <<mRole, mCatalog, mDocument, mPicked, mShown, mGone>>

-----------------------------------------------------------------------------
(* The preview. *)

Picture(cache, a) == [asset |-> a, model |-> IsReady(cache, a)]

\* renderAssetPreview; 0 is no asset or one without a model
RenderAssetPreview(a) ==
  /\ mPicked' = a
  /\ IF a = mPicked THEN UNCHANGED <<mCache, mShown>>
     ELSE LET scene == {a} \ {0}
          IN /\ Fits(mCache, scene)
             /\ mCache' = Prepared(mCache, scene)
             /\ mShown' = IF a = 0 THEN NoPicture ELSE Picture(mCache', a)

\* renderAssetCatalog: by a filter, a choice, or the selected prop
RenderAssetCatalog ==
  /\ mRole = "preview" /\ mCatalog /\ ~mGone
  /\ \E a \in Assets \cup {0} : RenderAssetPreview(a)
  /\ UNCHANGED <<mRole, mCatalog, mDocument, mGone>>

\* Mutant: the picture is drawn whatever is picked by now.
StillPickedAlways(a) == TRUE

StillPicked(a) == mPicked = a

-----------------------------------------------------------------------------
(* Loads, and the end. *)

\* A load ends; preloadKutterPreview's promise follows before anything else.
LoadEnds(s, ok) ==
  LET a == mCache.loads[s].asset
      ended == LoadedModel(mCache, s, ok)
      draws == mRole = "preview" /\ ~mGone /\ StillPicked(a)
  IN /\ mCache.loads[s].state = "loading"
     /\ draws => Fits(ended, {a})
     /\ mCache' = IF draws THEN Prepared(ended, {a}) ELSE ended
     /\ mShown' = IF draws THEN Picture(mCache', a) ELSE mShown
     /\ UNCHANGED <<mRole, mCatalog, mDocument, mPicked, mGone>>

\* pagehide: destroy
PageHides ==
  /\ ~mGone /\ mGone' = TRUE
  /\ mCache' = [mCache EXCEPT !.gpu = @ \ {mCache.models[a] : a \in Assets}]
  /\ UNCHANGED <<mRole, mCatalog, mDocument, mPicked, mShown>>

RendererNext ==
  \/ CatalogLoads \/ DocumentShown \/ MainFrame \/ RenderAssetCatalog \/ PageHides
  \/ \E s \in LoadSlots, ok \in BOOLEAN : LoadEnds(s, ok)

RendererSpec == RendererInit /\ [][RendererNext]_mVars

-----------------------------------------------------------------------------
(* Properties. *)

\* What is on the GPU is what the renderer would draw, and nothing once it is gone: a model
\* that arrives too late is disposed of, one that is drawn is not.
ModelsAreHeld ==
  mCache.gpu = IF mGone THEN {} ELSE {mCache.models[a] : a \in {b \in Assets : IsReady(mCache, b)}}

\* The preview shows the asset that is picked, with its model as soon as that is there,
\* whichever load ends first.
PreviewIsPicked ==
  mRole = "preview" /\ ~mGone =>
    mShown = (IF mPicked = 0 THEN NoPicture ELSE Picture(mCache, mPicked))

\* Late loads neither leak nor show what is no longer wanted.
ModelsInv == ModelsAreHeld /\ PreviewIsPicked
=============================================================================
