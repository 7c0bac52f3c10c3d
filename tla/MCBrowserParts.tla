--------------------------- MODULE MCBrowserParts ---------------------------
(* What the browser pages do on their own, and the editor of two pages that *)
(* share a document.  The parts share no state: a behaviour is one of a     *)
(* single part, chosen at the beginning, while the others stay as they      *)
(* were.                                                                    *)
EXTENDS SnapshotLayout, BrowserInput, HitEffects, Spectator, TouchLayout, BotDecision,
        KutterEditor, KutterDocument, ProjectLibrary, RendererModels

MCPlaces == {10}
MCCoordinates == {-7, 0}
\* the programs of the editor's cards, and one imported whose ids follow no order of the tree
MCPrograms ==
  {Program(cards, 8) : cards \in {<<>>, <<1>>, <<2>>, <<1, 2>>}}
  \cup {Compose(3, 4, <<<<5, 9>>, <<7, 6>>, <<9, 5>>, <<12, 3>>, <<40, 2>>, <<60, 1>>>>,
                <<<<40, 7, 3>>, <<40, 9, 1>>, <<40, 12, 2>>, <<60, 5, 2>>, <<60, 40, 1>>>>,
                <<<<7, 5, 6>>, <<5, 0, 9>>>>)}
MCUploads == {{1, 2}, {2, 3}}

VARIABLE part

Parts == {"layout", "input", "hits", "spectator", "touch", "bot", "editor", "document", "library",
          "renderer"}

\* A part that does not move is in one initial state; there is no document then.
Still(p) == part # p

PartsInit ==
  /\ part \in Parts
  /\ SpectatorInit /\ KInit
  /\ InputInit /\ (Still("input") => ~iTraining)
  /\ HitInit /\ (Still("hits") => hSeen.of = "numbers")
  /\ TouchInit /\ (Still("touch") => yWindow = WideMargin)
  /\ DecisionInit
  /\ LibraryInit /\ (Still("library") => pBackup = pStored /\ pStored[1] = CHOOSE p \in Projects : p.id = 1)
  /\ RendererInit /\ (Still("renderer") => mRole = "main")
  /\ IF Still("document") THEN dDoc = <<>> /\ dVersion = 4 /\ dWords = <<>> ELSE DocumentInit
  /\ IF Still("layout") THEN written = QuietFields /\ look = Standing /\ actors = 0 /\ frame = <<>>
     ELSE LayoutInit

\* Bound: the second match of the hits is shorter than the first.
ShortSecond == hServer'.match = MaxMatches => hServer'.next < MaxHits + 1

PartsNext ==
  /\ part' = part
  /\ \/ part = "layout" /\ LayoutNext
        /\ UNCHANGED <<iVars, hVars, vVars, yVars, tVars, dVars, pVars, mVars, kVars>>
     \/ part = "input" /\ InputNext
        /\ UNCHANGED <<layoutVars, hVars, vVars, yVars, tVars, dVars, pVars, mVars, kVars>>
     \/ part = "hits" /\ HitNext /\ ShortSecond
        /\ UNCHANGED <<layoutVars, iVars, vVars, yVars, tVars, dVars, pVars, mVars, kVars>>
     \/ part = "spectator" /\ SpectatorNext
        /\ UNCHANGED <<layoutVars, iVars, hVars, yVars, tVars, dVars, pVars, mVars, kVars>>
     \/ part = "touch" /\ TouchNext
        /\ UNCHANGED <<layoutVars, iVars, hVars, vVars, tVars, dVars, pVars, mVars, kVars>>
     \/ part = "bot" /\ DecisionNext
        /\ UNCHANGED <<layoutVars, iVars, hVars, vVars, yVars, dVars, pVars, mVars, kVars>>
     \/ part = "editor" /\ KNext
        /\ UNCHANGED <<layoutVars, iVars, hVars, vVars, yVars, tVars, dVars, pVars, mVars>>
     \/ part = "document" /\ DocumentNext
        /\ UNCHANGED <<layoutVars, iVars, hVars, vVars, yVars, tVars, pVars, mVars, kVars>>
     \/ part = "library" /\ LibraryNext
        /\ UNCHANGED <<layoutVars, iVars, hVars, vVars, yVars, tVars, dVars, mVars, kVars>>
     \/ part = "renderer" /\ RendererNext
        /\ UNCHANGED <<layoutVars, iVars, hVars, vVars, yVars, tVars, dVars, pVars, kVars>>

others == <<layoutVars, iVars, hVars, vVars, yVars, tVars, dVars, pVars, mVars>>

\* The timers of a page of the editor fire.
PartsFairness == \A p \in KPages : WF_kVars(part = "editor" /\ KTimeout(p))

PartsSpec == PartsInit /\ [][PartsNext]_<<part, others, kVars>> /\ PartsFairness

-----------------------------------------------------------------------------
\* The task queue of an editor drains whatever a task meets, and an import of the library
\* loses none of the projects that were there.
EditingGoesOn == QueueDrains /\ ImportPreserves
=============================================================================
