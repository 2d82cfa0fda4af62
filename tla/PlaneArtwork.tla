----------------------------- MODULE PlaneArtwork -----------------------------
(***************************************************************************)
(* The PWR plane artwork preview of the main window (gui/main_window.py):  *)
(* a checkbox for each layer, a load through the worker slot for a layer   *)
(* shown for the first time, and a renderer that draws the cells of one    *)
(* layer in chunks, yielding to the event loop after each.                 *)
(*                                                                         *)
(* The slot is shared with everything else the window does; of the other   *)
(* operations only opening a document touches the preview.  A chunk whose  *)
(* token was superseded returns at once and is left out: the chunk that    *)
(* counts is on its way as long as cells are left.                         *)
(***************************************************************************)
EXTENDS WorkerLifecycle, FiniteSetsExt

CONSTANTS
  LayerCount,    \* physical PWR layers of a document, in stack order
  CellCount,     \* cells of each layer's artwork
  PathElements,  \* path elements of each layer's artwork
  CacheLimit,    \* _MAX_CACHED_PHYSICAL_PWR_PATH_ELEMENTS
  MaxNexts       \* bound on pending timers of _load_next_missing_plane_layer

Layers == 1..LayerCount

NoLayer == 0

\* One layer never exceeds the cache: _MAX_PHYSICAL_PWR_PATH_ELEMENTS_PER_LAYER.
ASSUME PlaneArtworkAssumption ==
  /\ LayerCount \in Nat \ {0}
  /\ CellCount \in [Layers -> Nat]
  /\ CacheLimit \in Nat
  /\ PathElements \in [Layers -> 0..CacheLimit]
  /\ \A l \in Layers : CellCount[l] = 0 => PathElements[l] = 0
  /\ MaxNexts \in Nat \ {0}

VARIABLES
  open,          \* _scenario is not None
  closing,       \* _closing
  job,           \* what each worker runs, and for which layer
  checked,       \* layers whose checkbox is checked
  hidden,        \* _hidden_plane_layer_keys
  loaded,        \* _plane_loaded_layer_keys
  cached,        \* _plane_cached_path_elements
  active,        \* _active_plane_layer_key
  allRequested,  \* _load_all_plane_layers_requested
  target,        \* layer of the cells in _plane_render_cells
  left,          \* how many of them are not drawn
  items,         \* cells of each layer on the board: _plane_items_by_layer
  shown,         \* layers whose items are visible
  nexts          \* pending zero timers of _load_next_missing_plane_layer

checkVars == <<checked, hidden, allRequested>>
cacheVars == <<loaded, cached>>
renderVars == <<target, left, items, shown, nexts>>
artworkVars ==
  <<open, closing, job, active, checkVars, cacheVars, renderVars>>

vars == <<lifecycleVars, artworkVars>>

Job(k, l) == [kind |-> k, layer |-> l]

Init ==
  /\ LifecycleInit
  /\ open = FALSE
  /\ closing = FALSE
  /\ job = [w \in Workers |-> Job("none", NoLayer)]
  /\ checked = {}
  /\ hidden = {}
  /\ loaded = {}
  /\ cached = 0
  /\ active = NoLayer
  /\ allRequested = FALSE
  /\ target = NoLayer
  /\ left = 0
  /\ items = [l \in Layers |-> 0]
  /\ shown = {}
  /\ nexts = 0

-----------------------------------------------------------------------------
(* Shared parts of the handlers.                                           *)

\* _run_worker with a slot that is free.
StartJob(j, c) ==
  \E w \in Workers : RunWorker(w, c) /\ job' = [job EXCEPT ![w] = j]

Quiescent == UNCHANGED <<lifecycleVars, job, active>>

\* QTimer.singleShot(0, self._load_next_missing_plane_layer).
OneMore == IF nexts < MaxNexts THEN nexts + 1 ELSE MaxNexts

\* Mutant: a load may start while another layer is drawn.
MayLoadWhileDrawing == ~closing /\ open /\ worker = NoWorker

\* The tests _start_plane_layer_load and _load_next_missing_plane_layer share.
MayLoad == ~closing /\ open /\ worker = NoWorker /\ left = 0

\* _start_plane_layer_load.
StartLoad(l) ==
  \/ MayLoad /\ l \notin loaded /\ active' = l /\ StartJob(Job("plane", l), TRUE)
  \/ ~(MayLoad /\ l \notin loaded) /\ Quiescent

\* _load_next_missing_plane_layer with the layers in "wanted" checked and the
\* request for all of them "all": the first missing one is loaded.
LoadNext(wanted, all) ==
  LET missing == wanted \ loaded IN
  \/ ~MayLoad /\ Quiescent /\ allRequested' = all
  \/ /\ MayLoad /\ missing # {}
     /\ \E l \in missing : (\A k \in missing : l <= k) /\ StartLoad(l)
     /\ allRequested' = all
  \/ MayLoad /\ missing = {} /\ Quiescent /\ allRequested' = FALSE

\* Mutant: the items of a chunk stay visible whatever the checkboxes say.
AfterChunkAllVisible(drawn, h) == {l \in Layers : drawn[l] > 0}

\* _apply_plane_layer_visibility.
AfterChunk(drawn, h) == {l \in Layers : drawn[l] > 0} \ h

\* _render_plane_chunk: with n cells of layer l to draw over the items in
\* "base", some of them are drawn; the last chunk asks for the next layer.
RenderChunk(l, n, base, h) ==
  \E k \in 1..n :
    /\ items' = [base EXCEPT ![l] = @ + k]
    /\ shown' = AfterChunk(items', h)
    /\ left' = n - k
    /\ target' = IF k = n THEN NoLayer ELSE l
    /\ nexts' = IF k = n THEN OneMore ELSE nexts

-----------------------------------------------------------------------------
(* The user.                                                               *)

\* plane_layer_bar is enabled.
Usable == open /\ ~closing /\ worker = NoWorker

\* _plane_layer_toggled by a checkbox.
Check(l) ==
  /\ Usable
  /\ l \notin checked
  /\ checked' = checked \cup {l}
  /\ hidden' = hidden \ {l}
  /\ shown' = IF items[l] > 0 THEN shown \cup {l} ELSE shown
  /\ StartLoad(l)
  /\ UNCHANGED <<open, closing, allRequested, cacheVars, target, left, items, nexts>>

Uncheck(l) ==
  /\ Usable
  /\ l \in checked
  /\ checked' = checked \ {l}
  /\ hidden' = hidden \cup {l}
  /\ shown' = shown \ {l}
  /\ Quiescent
  /\ UNCHANGED <<open, closing, allRequested, cacheVars, target, left, items, nexts>>

\* _set_all_plane_layers_visible by the All and None buttons.
CheckAll ==
  /\ Usable
  /\ checked' = Layers
  /\ hidden' = {}
  /\ shown' = AfterChunk(items, {})
  /\ LoadNext(Layers, TRUE)
  /\ UNCHANGED <<open, closing, cacheVars, target, left, items, nexts>>

CheckNone ==
  /\ Usable
  /\ checked' = {}
  /\ hidden' = Layers
  /\ shown' = {}
  /\ allRequested' = FALSE
  /\ Quiescent
  /\ UNCHANGED <<open, closing, cacheVars, target, left, items, nexts>>

\* Anything else that takes the slot: opening a document, or a save, an
\* evaluation, a plan.  Timers start some of them.
StartOther(k) ==
  /\ ~closing
  /\ k = "other" => open
  /\ \E c \in BOOLEAN : StartJob(Job(k, NoLayer), c)
  /\ UNCHANGED <<open, closing, active, checkVars, cacheVars, renderVars>>

Cancel ==
  /\ ~closing
  /\ CancelWorker
  /\ UNCHANGED artworkVars

\* closeEvent.  The window tests the slot before its question (MainWindow), so
\* a worker may be in it by the time it closes.
Close ==
  /\ ~closing
  /\ closing' = TRUE
  /\ allRequested' = FALSE
  /\ target' = NoLayer
  /\ left' = 0
  /\ UNCHANGED <<lifecycleVars, open, job, active, checked, hidden, cacheVars,
                 items, shown, nexts>>

-----------------------------------------------------------------------------
(* The event loop: timers and worker signals.                              *)

FireChunk ==
  /\ ~closing
  /\ left > 0
  /\ RenderChunk(target, left, items, hidden)
  /\ Quiescent
  /\ UNCHANGED <<open, closing, checkVars, cacheVars>>

FireNext ==
  /\ ~closing
  /\ nexts > 0
  /\ nexts' = nexts - 1
  /\ LoadNext(checked, allRequested)
  /\ UNCHANGED <<open, closing, checked, hidden, cacheVars, target, left, items, shown>>

\* _plane_layer_load_failed: the layer, and with a request for all of them every
\* missing layer, is unchecked.
LoadFailed(l) ==
  LET failed == {l} \cup IF allRequested THEN Layers \ loaded ELSE {} IN
  /\ checked' = checked \ failed
  /\ hidden' = hidden \cup failed
  /\ allRequested' = FALSE
  /\ UNCHANGED <<cacheVars, renderVars>>

\* Mutant: the limit is tested before the new layer is counted.
FitsBefore(l) == cached <= CacheLimit

Fits(l) == cached + PathElements[l] <= CacheLimit

\* _accept_plane_layer_cells.
AcceptCells(l) ==
  \/ ~Fits(l) /\ LoadFailed(l)
  \/ /\ Fits(l)
     /\ cached' = cached + PathElements[l]
     /\ loaded' = loaded \cup {l}
     /\ \/ CellCount[l] = 0 /\ UNCHANGED renderVars
        \/ CellCount[l] > 0 /\ RenderChunk(l, CellCount[l], items, hidden)
     /\ UNCHANGED checkVars

\* _reset_document_view_state.
ResetRequests == active' = NoLayer /\ allRequested' = FALSE

\* _rebuild_plane_layer_controls for a new document: the first layer is checked.
RebuildControls == checked' = {1} /\ hidden' = Layers \ {1}

\* _refresh_plane_preview: the job brought the artwork of the first layer.
AcceptDocument ==
  LET nothing == [l \in Layers |-> 0]
      others == Layers \ {1}
  IN
  /\ open' = TRUE
  /\ ResetRequests
  /\ RebuildControls
  /\ cached' = PathElements[1]
  /\ \/ /\ CellCount[1] > 0
        /\ loaded' = {1}
        /\ RenderChunk(1, CellCount[1], nothing, others)
     \/ /\ CellCount[1] = 0
        /\ loaded' = {}
        /\ items' = nothing
        /\ shown' = {}
        /\ target' = NoLayer
        /\ left' = 0
        /\ UNCHANGED nexts

ArtworkResult ==
  /\ ~closing
  /\ DeliverResult
  /\ \/ /\ ~AcceptsResult \/ job[worker].kind = "other"
        /\ UNCHANGED <<open, active, checkVars, cacheVars, renderVars>>
     \/ /\ AcceptsResult
        /\ job[worker].kind = "document"
        /\ AcceptDocument
     \/ /\ AcceptsResult
        /\ job[worker].kind = "plane"
        /\ AcceptCells(job[worker].layer)
        /\ UNCHANGED <<open, active>>
  /\ UNCHANGED <<closing, job>>

ArtworkError ==
  /\ ~closing
  /\ DeliverError
  /\ \/ /\ cancelRequested \/ job[worker].kind # "plane"
        /\ UNCHANGED <<checkVars, cacheVars, renderVars>>
     \/ /\ ~cancelRequested
        /\ job[worker].kind = "plane"
        /\ LoadFailed(job[worker].layer)
  /\ UNCHANGED <<open, closing, job, active>>

\* The layers _worker_finished unchecks after a cancellation.
CancelledLayers ==
  IF active = NoLayer THEN {}
  ELSE ({active} \cup IF allRequested THEN Layers ELSE {}) \ loaded

\* Mutant: the end of an operation does not resume a load of all layers.
ResumeNever == UNCHANGED nexts

\* The last lines of _worker_finished.
Resume ==
  nexts' = IF allRequested' /\ worker' = NoWorker /\ open THEN OneMore ELSE nexts

\* _worker_finished; a preflight may chain its evaluation.
ArtworkFinished ==
  /\ ~closing
  /\ NextSignal("finished")
  /\ \/ DeliverFinished /\ UNCHANGED job
     \/ /\ job[worker].kind = "other"
        /\ \E w \in Workers, c \in BOOLEAN :
             /\ DeliverFinishedAndRun(w, c)
             /\ job' = [job EXCEPT ![w] = Job("other", NoLayer)]
  /\ \/ /\ cancelRequested
        /\ checked' = checked \ CancelledLayers
        /\ hidden' = hidden \cup CancelledLayers
        /\ allRequested' = FALSE
     \/ ~cancelRequested /\ UNCHANGED checkVars
  /\ active' = NoLayer
  /\ Resume
  /\ UNCHANGED <<open, closing, cacheVars, target, left, items, shown>>

ArtworkDeliver == ArtworkResult \/ ArtworkError \/ ArtworkFinished

ArtworkPool(w) == Pool(w) /\ UNCHANGED artworkVars

-----------------------------------------------------------------------------

Next ==
  \/ \E l \in Layers : Check(l)
  \/ \E l \in Layers : Uncheck(l)
  \/ CheckAll
  \/ CheckNone
  \/ \E k \in {"document", "other"} : StartOther(k)
  \/ Cancel
  \/ Close
  \/ FireChunk
  \/ FireNext
  \/ ArtworkDeliver
  \/ \E w \in Workers : ArtworkPool(w)

\* The event loop keeps delivering signals and timers, and pool threads run.
Fairness ==
  /\ \A w \in Workers : WF_vars(ArtworkPool(w))
  /\ WF_vars(ArtworkDeliver)
  /\ WF_vars(FireChunk)
  /\ WF_vars(FireNext)

Spec == Init /\ [][Next]_vars /\ Fairness

-----------------------------------------------------------------------------
(* Correctness.                                                            *)

TypeOK ==
  /\ open \in BOOLEAN
  /\ closing \in BOOLEAN
  /\ job \in [Workers -> [kind : {"none", "plane", "document", "other"},
                        layer : Layers \cup {NoLayer}]]
  /\ checked \subseteq Layers
  /\ hidden \subseteq Layers
  /\ loaded \subseteq Layers
  /\ cached \in Nat
  /\ active \in Layers \cup {NoLayer}
  /\ allRequested \in BOOLEAN
  /\ target \in Layers \cup {NoLayer}
  /\ left \in Nat
  /\ items \in [Layers -> Nat]
  /\ shown \subseteq Layers
  /\ nexts \in 0..MaxNexts

\* The checkboxes, the set of hidden layers and the items on the board agree,
\* whichever handler touched them last: a button, a cancellation, a failure or
\* a chunk of a layer unchecked meanwhile.
BoardShowsChecked ==
  open =>
    /\ hidden = Layers \ checked
    /\ shown = {l \in checked : items[l] > 0}

\* Every cell of a loaded layer is drawn once, or is among those still to be
\* drawn; a layer that is not loaded has none.
EveryCellOnce ==
  open /\ ~closing =>
    \A l \in Layers :
      items[l] + (IF l = target THEN left ELSE 0) =
        IF l \in loaded THEN CellCount[l] ELSE 0

\* The cache holds the path elements of the loaded layers, within its limit.
CacheIsAccounted ==
  /\ cached = MapThenSumSet(LAMBDA l : PathElements[l], loaded)
  /\ cached <= CacheLimit

\* The preview keeps the worker protocol.
KeepsLifecycle == LifecycleInit /\ [][LifecycleNext]_lifecycleVars

\* Another operation has the slot.
SlotIsTaken == worker # NoWorker /\ job[worker].kind # "plane"

\* Every operation frees the slot in the end, unless the window is closed: no
\* drawing, no cancellation and no failure of the function leaves the window busy
\* for ever with one worker (worker.py:101, main_window.py:5847-5909).
EveryOperationEnds ==
  []<>(worker = NoWorker \/ closing) \/ []<><<worker' # worker>>_worker

\* A load of all layers comes to its end, by itself or by a failure or a
\* cancellation, unless other operations keep taking the slot.
LoadOfAllEnds == []<>SlotIsTaken \/ (allRequested ~> ~allRequested)

\* Nothing is under way and no timer is pending.
Idle == open /\ ~closing /\ worker = NoWorker /\ left = 0 /\ nexts = 0

\* A layer the user checked is on the board: "T, P1, P2... checkboxes show PWR
\* plane layers alone or several on top of each other" (README.md:487).
CheckedLayersAreDrawn ==
  Idle => \A l \in checked : items[l] = CellCount[l]
=============================================================================
