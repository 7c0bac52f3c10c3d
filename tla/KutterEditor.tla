----------------------------- MODULE KutterEditor -----------------------------
(***************************************************************************)
(* The shared Kutter level editor: the one live document a web server keeps *)
(* (BoundedKutterLevelEditor, driven by webHandleKutter) and the pages of   *)
(* apps/web_alpha/kutter_editor.js that edit it.  A page has one queue of   *)
(* commands and one request on the wire; handlers that need several         *)
(* commands queue the next one when the last has been answered, so commands *)
(* of two handlers, and of two pages, interleave.  The server answers with  *)
(* the whole document, in chunks, and broadcasts it to the other editors.   *)
(*                                                                         *)
(* A document is its node ids and a number that stands for everything else  *)
(* its checksum covers: 0 as it was made or imported, the version of the    *)
(* edit otherwise.  The tool stands for the tool, the cursor and the grid,  *)
(* a document travels in two chunks, and two different documents have       *)
(* different checksums.                                                     *)
(***************************************************************************)
EXTENDS Integers, Sequences, SequencesExt, FiniteSetsExt

CONSTANTS KPages,      \* editor pages
          Uploads,     \* node sets of the valid documents a page may import
          NodeCap,     \* nodes of a document (64 in the code)
          HistoryCap,  \* undo and redo snapshots (16 in the code)
          MaxTasks,    \* bound: tasks started by all pages
          MaxLosses    \* bound: connections lost

ASSUME KutterAssumption ==
  /\ NodeCap \in Nat \ {0} /\ HistoryCap \in Nat \ {0}
  /\ MaxTasks \in Nat /\ MaxLosses \in Nat
  /\ Uploads \subseteq (SUBSET (1 .. NodeCap)) \ {{}}

VARIABLES
  kEditor,   \* the server's editor: document, history, selection, tool, preview
  kImport,   \* kutterImportOwner and the chunks received from it
  kVersion,  \* history: changes of the editor, and the last one accepted
  kServed,   \* pages whose connection has sent a command (connectionKutter)
  kDown,     \* answers and broadcasts on the way to each page
  kPage,     \* the variables of each page
  kWork      \* tasks started, connections lost

kVars == <<kEditor, kImport, kVersion, kServed, kDown, kPage, kWork>>

Nobody == "nobody"
KTools == {"select", "place", "erase"}
KNodes == 1 .. NodeCap

\* the constructor of BoundedKutterLevelEditor
NewEditor == [doc |-> [nodes |-> {1}, id |-> 0], valid |-> TRUE, undo |-> <<>>,
              redo |-> <<>>, tool |-> "select", sel |-> 1, preview |-> FALSE]

\* A page before start(); shown is its documentState.
NoDocument == [version |-> -1, whole |-> TRUE]
NewPage == [open |-> FALSE, queue |-> <<>>, seq |-> 1, waiting |-> 0,
            refreshing |-> FALSE, parts |-> <<>>, shown |-> NoDocument, preview |-> FALSE]
NoImport == [owner |-> Nobody, chunks |-> <<>>]

-----------------------------------------------------------------------------
(* The editor of the server. *)

KRefused(e) == [editor |-> e, accepted |-> FALSE]
KAccepted(e) == [editor |-> e, accepted |-> TRUE]

\* Mutant: a full history grows.
PushedBeyond(history, doc) == Append(history, doc)

\* recordSnapshot at the end of a history that drops its oldest entry when full
Pushed(history, doc) ==
  Append(IF Len(history) >= HistoryCap THEN Tail(history) ELSE history, doc)

\* Mutant: an edit keeps what could be redone.
BegunKeepingRedo(e, id) == [e EXCEPT !.undo = Pushed(@, e.doc), !.doc.id = id]

\* beginMutation: pushUndoSnapshot, beginEdit
Begun(e, id) == [e EXCEPT !.undo = Pushed(@, e.doc), !.redo = <<>>, !.doc.id = id]

\* beginMutation, the change, finishMutation: an edit that is refused keeps what
\* it had already changed, and a document without nodes is not sealed again.
Mutated(e, nodes, ok, id) ==
  LET edited == [Begun(e, id) EXCEPT !.doc.nodes = nodes]
  IN IF ~e.valid THEN KRefused(e)
     ELSE IF ok /\ nodes # {}
     THEN KAccepted([edited EXCEPT !.sel = IF @ \in nodes THEN @ ELSE 0])
     ELSE KRefused([edited EXCEPT !.undo = Front(@), !.valid = nodes # {}])

SelectNode(e, n) ==
  IF n \in e.doc.nodes THEN KAccepted([e EXCEPT !.sel = n]) ELSE KRefused(e)

RemoveSelected(e, id) ==
  IF e.sel = 0 THEN KRefused(e)
  ELSE LET r == Mutated(e, e.doc.nodes \ {e.sel}, TRUE, id)
       IN IF r.accepted THEN KAccepted([r.editor EXCEPT !.sel = 0]) ELSE r

\* updateSelectedNode: a value the document refuses is found when others have
\* been written.
UpdateSelected(e, ok, id) ==
  IF e.sel = 0 THEN KRefused(e) ELSE Mutated(e, e.doc.nodes, ok, id)

\* addCurrentTool; node ids grow
AddCurrentTool(e, id) ==
  LET n == 1 + Max(e.doc.nodes \cup {0})
      r == Mutated(e, e.doc.nodes \cup {n}, TRUE, id)
  IN IF n > NodeCap THEN Mutated(e, e.doc.nodes, FALSE, id)
     ELSE IF r.accepted THEN KAccepted([r.editor EXCEPT !.sel = n]) ELSE r

\* applyTool; "under" is the node at the cursor, 0 for none
ApplyTool(e, under, id) ==
  CASE e.tool = "select" -> SelectNode(e, under)
    [] e.tool = "erase" ->
         IF e.sel # 0 THEN RemoveSelected(e, id)
         ELSE IF under \in e.doc.nodes THEN RemoveSelected([e EXCEPT !.sel = under], id)
         ELSE KRefused(e)
    [] e.tool = "place" -> AddCurrentTool(e, id)

UndoEdit(e) ==
  IF e.undo = <<>> \/ ~e.valid THEN KRefused(e)
  ELSE KAccepted([e EXCEPT !.redo = Pushed(@, e.doc), !.doc = Last(e.undo),
                           !.undo = Front(@), !.sel = 0])

\* redo: pushUndoSnapshotPreservingRedo
RedoEdit(e) ==
  IF e.redo = <<>> \/ ~e.valid THEN KRefused(e)
  ELSE KAccepted([e EXCEPT !.undo = Pushed(@, e.doc), !.doc = Last(e.redo),
                           !.redo = Front(@), !.sel = 0])

\* The editor with the document whose chunks were uploaded.
Loaded(e, chunks) ==
  LET nodes == chunks[1] \cup chunks[2]
  IN KAccepted([e EXCEPT !.doc = [nodes |-> nodes, id |-> 0], !.valid = TRUE,
                         !.undo = <<>>, !.redo = <<>>, !.tool = "select", !.sel = Min(nodes)])

\* Mutant: the checksum of the words is not compared.
ImportedUnchecked(e, chunks) == Loaded(e, chunks)

\* importDocument: refused when the checksum does not fit all its words
Imported(e, chunks) ==
  IF chunks[1] = chunks[2] THEN Loaded(e, chunks) ELSE KRefused(e)

\* An editor with a node, edits to undo and one to redo: a node was placed, removed,
\* placed again, and that was undone.
EditedBefore ==
  LET placed == AddCurrentTool([NewEditor EXCEPT !.tool = "place"], 1).editor
      removed == RemoveSelected(placed, 2).editor
  IN UndoEdit(AddCurrentTool(removed, 3).editor).editor

KInit ==
  /\ kEditor = EditedBefore /\ kVersion = [now |-> 4, accepted |-> 4]
  /\ kImport = NoImport
  /\ kServed = {} /\ kDown = [p \in KPages |-> <<>>]
  /\ kPage = [p \in KPages |-> NewPage]
  /\ kWork = [tasks |-> 0, losses |-> 0]

-----------------------------------------------------------------------------
(* Commands, and the tasks of the page's buttons. *)

Cmd(do) == [do |-> do]
CmdOn(do, arg) == [do |-> do, arg |-> arg]

\* importWords: a chunk after the other
ImportTask(u) == <<[do |-> "import", chunk |-> 1, arg |-> u],
                   [do |-> "import", chunk |-> 2, arg |-> u]>>

\* A click on the canvas, by the tool the page shows.
CanvasTasks(seen) ==
  LET on(n) == CmdOn("select", n) IN
  CASE seen.tool = "select" -> {<<on(n)>> : n \in seen.doc.nodes}
    [] seen.tool = "erase" -> {<<on(n), Cmd("apply")>> : n \in seen.doc.nodes}
    [] seen.tool = "place" -> {<<Cmd("apply")>>}

\* The tool buttons, the rows of the hierarchy, and the inspector, whose "update"
\* stands for every command that changes the selected node or the cards: with
\* values the document takes or refuses.
ToolTasks == {<<CmdOn("tool", t)>> : t \in {"place", "erase"}}
HierarchyTasks(seen) == {<<CmdOn("select", n)>> : n \in seen.doc.nodes}
InspectorTasks == {<<CmdOn("update", TRUE)>>, <<CmdOn("update", FALSE)>>}
AddAssetTask == <<CmdOn("tool", "place"), Cmd("apply"), CmdOn("update", TRUE)>>

\* What the handlers of the buttons queue.
TasksOf(shown) ==
  ToolTasks \cup HierarchyTasks(shown.editor) \cup InspectorTasks
  \cup CanvasTasks(shown.editor) \cup {ImportTask(u) : u \in Uploads}
  \cup {<<Cmd("remove")>>, <<Cmd("preview")>>, AddAssetTask}
  \cup (IF shown.canUndo THEN {<<Cmd("undo")>>} ELSE {})
  \cup (IF shown.canRedo THEN {<<Cmd("redo")>>} ELSE {})

\* What webHandleKutter makes of a command; "apply" differs by the cursor.
Outcomes(c) ==
  LET e == kEditor
      id == kVersion.now + 1
  IN CASE c.do = "get" -> {[editor |-> e, accepted |-> e.valid]}
       [] c.do = "tool" -> {KAccepted([e EXCEPT !.tool = c.arg])}
       [] c.do = "select" -> {SelectNode(e, c.arg)}
       [] c.do = "apply" -> {ApplyTool(e, under, id) : under \in e.doc.nodes \cup {0}}
       [] c.do = "remove" -> {RemoveSelected(e, id)}
       [] c.do = "update" -> {UpdateSelected(e, c.arg, id)}
       [] c.do = "undo" -> {UndoEdit(e)}
       [] c.do = "redo" -> {RedoEdit(e)}
       [] c.do = "preview" -> {KAccepted([e EXCEPT !.preview = ~@])}
       [] c.do = "import" -> {Imported(e, Append(kImport.chunks, c.arg))}

-----------------------------------------------------------------------------
(* The server: webHandleKutter. *)

Broadcast == 0    \* the sequence of broadcasts, 1000000 in the code

\* What webKutterResponse tells of the editor.
StateOf(e, version) ==
  [version |-> version, whole |-> TRUE, canUndo |-> e.undo # <<>>, canRedo |-> e.redo # <<>>,
   editor |-> [doc |-> e.doc, tool |-> e.tool, sel |-> e.sel, preview |-> e.preview]]

\* webSendKutterState: the document, in two chunks, or a rejection
Answer(seq, e, version, accepted) ==
  IF accepted /\ e.valid
  THEN <<[seq |-> seq, kind |-> "document", state |-> StateOf(e, version)]>>
  ELSE <<[seq |-> seq, kind |-> "rejected"]>>

\* The fields whose change is broadcast; a document that does not validate has no
\* checksum.
Compared(e) == <<e.valid, IF e.valid THEN e.doc ELSE NewEditor.doc, e.preview, e.sel, e.tool>>

\* Mutant: only changes of the document are broadcast.
IsBroadcastForDocument(r) == r.accepted /\ kEditor.doc # r.editor.doc

IsBroadcast(r) == r.accepted /\ Compared(kEditor) # Compared(r.editor)

\* The frames an outcome sends: the answer, then webBroadcastKutterState.
FramesTo(q, p, seq, r, version) ==
  IF q = p THEN Answer(seq, r.editor, version, r.accepted)
  ELSE IF q \in kServed /\ IsBroadcast(r) THEN Answer(Broadcast, r.editor, version, TRUE)
  ELSE <<>>

\* Handling command c of page p, with "down" on the way to the pages.  A chunk
\* that is not the last of its document is taken when it begins an upload; the
\* last is when it goes on with the upload of this connection.
Handle(p, seq, c, down) ==
  LET reply(kind) == kDown' = [down EXCEPT ![p] = Append(@, [seq |-> seq, kind |-> kind])]
      continues == kImport.owner = p /\ Len(kImport.chunks) = 1
  IN /\ kServed' = kServed \cup {p}
     /\ \/ /\ c.do = "import" /\ c.chunk = 1 /\ reply("pending")
           /\ kImport' = [owner |-> p, chunks |-> <<c.arg>>]
           /\ UNCHANGED <<kEditor, kVersion>>
        \/ /\ c.do = "import" /\ c.chunk = 2 /\ ~continues /\ reply("rejected")
           /\ UNCHANGED <<kEditor, kVersion, kImport>>
        \/ /\ c.do = "import" => c.chunk = 2 /\ continues
           /\ kImport' = IF c.do = "import" THEN NoImport ELSE kImport
           /\ \E r \in Outcomes(c) :
                LET changed == Compared(kEditor) # Compared(r.editor)
                    version == kVersion.now + (IF changed THEN 1 ELSE 0)
                IN /\ kEditor' = r.editor
                   /\ kVersion' = [now |-> version, accepted |->
                        IF changed /\ r.accepted THEN version ELSE kVersion.accepted]
                   /\ kDown' = [q \in KPages |-> down[q] \o FramesTo(q, p, seq, r, version)]

-----------------------------------------------------------------------------
(* A page: its queue of commands. *)

\* request(): the head of the queue goes on the wire.
Sends(pg) == IF pg.queue = <<>> THEN [pg EXCEPT !.waiting = 0]
             ELSE [pg EXCEPT !.seq = @ + 1, !.waiting = pg.seq + 1]

\* operate() of a handler's first command
Queued(pg, todo, refresh) ==
  LET task == [todo |-> todo, refresh |-> refresh]
      pg2 == [pg EXCEPT !.queue = Append(@, task), !.refreshing = @ \/ refresh]
  IN IF pg.queue = <<>> THEN Sends(pg2) ELSE pg2

\* Mutant: a failed command leaves the queue rejected, nothing is sent after it.
SettledOnly(pg, ok) ==
  IF ok THEN Sends([pg EXCEPT !.queue = Tail(@)])
  ELSE [pg EXCEPT !.queue = Tail(@), !.waiting = 0]

\* settle(): the handler of the head goes on with its next command, at the end of
\* the queue, or stops; the preview button flips what receiveState has just set.
Settled(pg, ok) ==
  LET head == Head(pg.queue)
      rest == [head EXCEPT !.todo = Tail(@)]
  IN Sends([pg EXCEPT
       !.queue = Tail(@) \o (IF ok /\ rest.todo # <<>> THEN <<rest>> ELSE <<>>),
       !.refreshing = @ /\ ~head.refresh,
       !.preview = IF ok /\ Head(head.todo).do = "preview" THEN ~@ ELSE @])

\* The page becomes "new"; a request it has sent is handled at once, the delay of
\* the network being that of the answers.
Becomes(p, new, down) ==
  /\ kPage' = [kPage EXCEPT ![p] = new]
  /\ IF new.waiting \notin {0, kPage[p].waiting}
     THEN Handle(p, new.waiting, Head(Head(new.queue).todo), down)
     ELSE kDown' = down /\ UNCHANGED <<kEditor, kVersion, kImport, kServed>>

\* A button of a page that is connected and has a document.
KStart(p) ==
  LET pg == kPage[p] IN
  /\ pg.open /\ pg.shown # NoDocument /\ pg.shown.whole
  /\ kWork.tasks < MaxTasks /\ kWork' = [kWork EXCEPT !.tasks = @ + 1]
  /\ \E t \in TasksOf(pg.shown) : Becomes(p, Queued(pg, t, FALSE), kDown)

\* refreshDocument, every five seconds
KRefresh(p) ==
  /\ kPage[p].open /\ ~kPage[p].refreshing /\ kPage[p].shown # NoDocument
  /\ kWork.tasks < MaxTasks /\ kWork' = [kWork EXCEPT !.tasks = @ + 1]
  /\ Becomes(p, Queued(kPage[p], <<Cmd("get")>>, TRUE), kDown)

\* The ten seconds of a request have passed; its answer may still come.
KTimeout(p) ==
  /\ kPage[p].waiting # 0
  /\ Becomes(p, Settled(kPage[p], FALSE), kDown)
  /\ UNCHANGED kWork

\* The page has the first chunk of m; of the documents it has a chunk of, parts
\* keeps the first.
FirstChunk(pg, m) ==
  IF m.seq \in DOMAIN pg.parts THEN pg
  ELSE [pg EXCEPT !.parts = [s \in DOMAIN @ \cup {m.seq} |-> IF s = m.seq THEN m.state ELSE @[s]]]

\* receiveState; what is put together begins with the chunk that came first
Received(pg, m) ==
  LET answered(q, ok) == IF m.seq = q.waiting /\ q.waiting # 0 THEN Settled(q, ok) ELSE q
      first == FirstChunk(pg, m).parts[m.seq]
  IN CASE m.kind = "rejected" -> answered(pg, FALSE)
       [] m.kind = "pending" -> answered(pg, TRUE)
       [] m.kind = "document" ->
            answered([pg EXCEPT !.parts = [s \in DOMAIN @ \ {m.seq} |-> @[s]],
                                !.preview = m.state.editor.preview,
                                !.shown = [m.state EXCEPT !.whole = first = m.state]], TRUE)

KReceive(p) ==
  /\ kPage[p].open /\ kDown[p] # <<>>
  /\ Becomes(p, Received(kPage[p], Head(kDown[p])), [kDown EXCEPT ![p] = Tail(@)])
  /\ UNCHANGED kWork

-----------------------------------------------------------------------------
(* Connections. *)

\* Mutant: the chunks of unfinished documents stay.
EmptiedButParts(pg) ==
  [pg EXCEPT !.queue = <<>>, !.waiting = 0, !.refreshing = FALSE, !.open = FALSE]

\* rejectPendingRequests of a lost connection: every queued command fails in turn
Emptied(pg) ==
  [pg EXCEPT !.queue = <<>>, !.waiting = 0, !.refreshing = FALSE, !.open = FALSE,
             !.parts = <<>>]

\* release() of the server, and the frames of the connection
Released(p) ==
  /\ kServed' = kServed \ {p} /\ kDown' = [kDown EXCEPT ![p] = <<>>]
  /\ kImport' = IF kImport.owner = p THEN NoImport ELSE kImport
  /\ kWork.losses < MaxLosses /\ kWork' = [kWork EXCEPT !.losses = @ + 1]

\* The connection is lost, perhaps between two chunks of a document.
KLose(p) ==
  LET pg == kPage[p]
      half == IF kDown[p] # <<>> /\ Head(kDown[p]).kind = "document"
              THEN {pg, FirstChunk(pg, Head(kDown[p]))} ELSE {pg}
  IN /\ pg.open /\ \E last \in half : kPage' = [kPage EXCEPT ![p] = Emptied(last)]
     /\ Released(p) /\ UNCHANGED <<kEditor, kVersion>>

\* connect(), at the end of start() and two seconds after every loss, and the
\* acknowledgement of its hello, which starts the refreshing
KConnect(p) ==
  /\ ~kPage[p].open
  /\ Becomes(p, Queued([kPage[p] EXCEPT !.open = TRUE], <<Cmd("get")>>, TRUE), kDown)
  /\ UNCHANGED kWork

KNext == \E p \in KPages :
  KStart(p) \/ KRefresh(p) \/ KTimeout(p) \/ KReceive(p) \/ KLose(p) \/ KConnect(p)

KSpec == KInit /\ [][KNext]_kVars

\* The timers of a page fire; the server may be silent for ever.
KFairness == \A p \in KPages : WF_kVars(KTimeout(p))

-----------------------------------------------------------------------------
(* Properties. *)

KTypeOK ==
  /\ kEditor.doc.nodes \subseteq KNodes /\ kEditor.sel \in KNodes \cup {0}
  /\ kEditor.tool \in KTools /\ kEditor.valid \in BOOLEAN
  /\ Len(kEditor.undo) <= HistoryCap /\ Len(kEditor.redo) <= HistoryCap
  /\ kImport.owner \in KPages \cup {Nobody} /\ Len(kImport.chunks) < 2
  /\ \A p \in KPages : kPage[p].waiting # 0 <=> kPage[p].queue # <<>>

\* Nothing is on the way between a page and the server.
Quiet(p) == p \in kServed /\ kDown[p] = <<>>

\* A page with nothing on the way shows every edit that was accepted from any
\* page, as long as the document can be sent: an answer or a broadcast brought it.
NoEditMissed == kEditor.valid => \A p \in KPages :
  Quiet(p) => kPage[p].shown.version >= kVersion.accepted

\* What a page shows is one document of the server, never the beginning of one
\* and the end of another, though broadcasts share a sequence over connections.
ShownIsWhole == \A p \in KPages : kPage[p].shown.whole

\* A document nobody has edited since its import is the document of one page, not
\* chunks of two imports that ran at the same time.
ImportIsOneUpload == kEditor.doc.id = 0 => kEditor.doc.nodes \in Uploads \cup {{1}}

\* What can be undone, the document and what can be redone are one timeline of
\* edits, whoever made, undid and redid them, and whichever were refused.
OneTimeline ==
  LET line == kEditor.undo \o <<kEditor.doc>> \o Reverse(kEditor.redo)
  IN \A k \in 2 .. Len(line) : line[k - 1].id < line[k].id

\* Two pages edit one document.
EditorInv == KTypeOK /\ NoEditMissed /\ ShownIsWhole /\ ImportIsOneUpload /\ OneTimeline

\* Every queue of commands empties again, answered or not.
QueueDrains == \A p \in KPages : []<>(kPage[p].queue = <<>>)
=============================================================================
