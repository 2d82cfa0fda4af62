# A verification development for SPD Decap PI Evaluator

This directory holds TLA+ modules that model the stateful core of the SPD Decap
PI Evaluator, configurations that check them with TLC on small instances, and
proofs that TLAPS checks for all values of the constants. `PROJECT.json` lists
the components, the runs, the mutants that show each property can fail, the
source lines of each definition, the hazards and the theorems.

Paths below are relative to `src/src/` unless they start with `src/`.

## 1. The system

The program is a desktop application (PySide6) that imports a PowerSI `.spd`
board file, lets the user move, enable and replace decoupling capacitors, and
evaluates the impedance of the power rails. One process, one GUI thread, and
one background operation at a time on Qt's global thread pool. Beside it, the
command line `python -m spd_pi_engine` solves the rails of a board port by port
in several processes over one cache directory.

| component | source | state | operations | what is hard |
|---|---|---|---|---|
| worker lifecycle | `spd_decap_pi/gui/worker.py`, `gui/main_window.py:5723-5761, 5839-5915` | the slot `_worker`, `_worker_cancel_requested`, `_worker_cancelable`, each worker's own flag, Qt's queue of posted signals | start, cancel, result, error, finished | the pool thread and the GUI thread; a cancel between a result's emission and its delivery; handlers that do not look whose signal they got |
| main window document | `gui/main_window.py` | `_scenario`, `_scenario_path`, `_dirty`, `_comparison_batch`, `_pending_evaluation_launch`, `_auto_save_after_worker`, `_closing`, enabled controls | open, import, relink, save, autosave, edits, NET colours, run evaluation, close | dialogs run nested event loops inside handlers; timers; results of an earlier document |
| scenario store | `spd_decap_pi/scenario_io.py` | the `.spdpi` file, its `.bak`, a temporary file | `save_scenario`, `load_scenario_with_recovery` | crash, power loss, I/O errors between steps; a reader in another process |
| plane artwork preview | `gui/main_window.py:6448-6757` | hidden and loaded layers, the active layer, the cells being drawn, a render token | show or hide a layer, load all, draw a chunk | loads go through the shared slot, drawing yields to the event loop |
| distribution panel | `gui/main_window.py:3558-5569` | the table of targets and tolerances, the options, a plan and its preview, an open cell editor and a timer that fills cells | type, fill, import targets, calculate, apply, save, change options | a plan answers a request and a scenario, and both move on while it is computed and while it is on show |
| distribution optimizer | `spd_decap_pi/distribution.py` | none between calls; within one, the rows of an integer program and the solution at hand | calculate, apply | a dozen solves in a row, each of which may end at its time limit; rows set up for a scenario that earlier plans and restores left behind |
| scenario edits | `spd_decap_pi/scenario_edits.py`, `scenario.py` | rail, model, population and pad state of each decap; the connection analysis of the source | assign a rail, assign rails and isolation gaps, assign a model, enable, restore the source | cutting pads splits clusters into islands; the preflight and the validation are two pieces of code that have to agree |
| evaluation service | `evaluation.py`, `_core/services.py` | none | evaluate, preflight | numerics |
| engine cache | `spd_pi_engine/cache.py`, `spd_source.py` | extracts and layer shapes, keyed by the SPD's sha256 | `prepare`: hash, look up, extract, save | several processes fill one cache; the SPD may change; a power loss tears an entry |
| engine sweep | `spd_pi_engine/cli.py`, `api.py`, `receipt.py` | receipt files, the driver's queue and counts | `solve`, `sweep`, start again | solves fail half way, a driver is killed, receipts of earlier sweeps are there |
| engine adapter | `spd_decap_pi/_core/solver/engine_adapter.py`, `engine_worker.py`, the batch in `evaluation.py:4627-4955` | a worker process, its pipe, the reader thread and its queue, the directory of the request, the cancel flag | evaluate, cancel, spawn, read a line, kill, keep receipts | a process that hangs, dies or outlives its request; a code that arrives after the process has gone |
| engine numerics | `spd_pi_engine/` | none | build, solve | numerics |
| importers, assets, adapters | `spd_adapter.py`, `*_asset.py`, `layerwise_*` | none | pure functions | size, not control |

How they interact. The window creates a `FunctionWorker` for each long
operation and hands it, with callbacks, to `_run_worker`. The worker runs on a
pool thread and posts `result` or `error`, then `finished`, to the GUI thread,
where the callbacks change the document. Load and save jobs call the scenario
store; evaluation jobs call the engine; both get an immutable scenario and
never touch the window. Dialogs (`exec`, `QMessageBox.question`) run the event
loop inside a handler, so signals and timers are delivered in the middle of it.

What makes each part correct:

* worker lifecycle: whatever runs or is queued belongs to the worker in the
  slot; one outcome, then the end; a cancelled result changes nothing; each
  operation ends.
* document: a document shown as saved is saved; results on show describe the
  open design; an evaluation keeps the design, its revision and its captures;
  nothing is discarded without a question about that very content; closing never abandons a worker.
* store: a save is atomic under crash and power loss; as long as the whole file can
  be read, the previous scenario is in the backup and a load returns something that
  was current during it.
* artwork: the board shows what the checkboxes say; no cell is lost or drawn
  twice; the cache of path elements keeps its limit; a load of all layers ends.
* scenario edits: two rails never share copper or a via, every pad has a via
  that offers its rail, what the preflight accepts validates, and the source
  can always be restored.
* distribution panel: the plan on show answers what the panel asks now and
  belongs to the open scenario; what is saved is what is offered.
* distribution optimizer: there is a plan when the rules promise one; it keeps
  the counts of the table; no edit that treats the pads over a via alike is better.
* engine adapter: an evaluation reports numbers of its own scenario; a refusal
  reaches the user with its reason; a cancelled evaluation ends and leaves no
  process and no directory.
* engine: a cache entry is what its key says; a receipt names the SPD it is
  computed from, whatever other processes do and unless the SPD was replaced under
  one that has a part in it; a sweep does every entry of its list once, keeps what
  earlier sweeps left, and ends.

## 2. Modules

| module | models |
|---|---|
| `BackgroundOperation` | the abstract operation: it begins, may be cancelled, may be applied once if not cancelled, and ends |
| `WorkerLifecycle` | the slot, the pool threads and the queue |
| `WorkerLifecycleProofs` | its theorems |
| `MainWindow` (extends `WorkerLifecycle`) | the document, its dialogs and timers, composed with the worker protocol |
| `MainWindowProofs` | its theorems |
| `PlaneArtwork` (extends `WorkerLifecycle`) | the artwork preview, composed with the worker protocol |
| `PlaneArtworkProofs` | its theorems |
| `ScenarioStore` | the file protocol |
| `ScenarioStoreProofs` | its theorems |
| `EngineCache` | the cache directory and `prepare`, in several processes |
| `EngineSweep` (extends `EngineCache`) | `cmd_solve` and `cmd_sweep`, the driver and its processes over that cache |
| `EngineSweepProofs` | theorems of both |
| `PadClusters` | the copper of a board: clusters of shared pads, their islands, vias and rails, and the validation of a scenario against them |
| `ScenarioEdits` (extends `PadClusters`) | the edits, their preflight and their commit |
| `Distribution` (extends `ScenarioEdits`) | the optimizer: rows, stages, fallbacks, the pruning of gaps, Apply, and the edits in between |
| `DistributionProofs` | theorems of the edits, and on the copper, the counts and the existence of plans |
| `DistributionPanel` (extends `WorkerLifecycle`) | the panel and its plan, composed with the worker protocol |
| `DistributionPanelProofs` | its theorems |
| `EngineAdapter` (extends `EngineCache`) | one evaluation by worker processes, from the window's call to the receipts |
| `EngineAdapterProofs` | its theorems |
| `MC_*` | model values for TLC |

### WorkerLifecycle

`phase[w]` is where the worker's `run` method is: waiting in the pool, running
the function, about to emit its result or `finished`. `posted` is the part of
Qt's event queue with this window's worker signals, in order. `Pool(w)` steps
are those of the pool thread, `Deliver*` those of the GUI thread, and
`RunWorker` and `CancelWorker` handlers that start from user input.
`DeliverFinishedAndRun` is `_worker_finished` with the evaluation it chains
(`main_window.py:5896-5903`).

Each worker is an element of `Workers` that is used again once it ended; the
Python objects are fresh, but an ended worker has no signal left, which is what
`SlotOwnsEverything` says. `applied` is a history variable.

The module has no run of its own: `MainWindow` and `PlaneArtwork` keep the
worker protocol, and their runs check its properties with the rest of the
window around it.

### MainWindow

`scenario` is an object: an identity, compared with `is`, and a content. The
content is what the properties tell apart: a design (all a fingerprint covers),
a revision, a NET colour (persistent, in no fingerprint) and whether baseline
captures were taken. `frames` is the stack of handlers that wait for a dialog.
While it is not empty, user actions other than answers are disabled, and worker
signals and timers go on. `base` is a history variable: the content and file of
the last import, load or completed save; so is `asked` in a frame or a job.

A job is what the lambda given to `FunctionWorker` closes over. `Returned(j)`
is the set of values it may return. `WindowResult` is `accept_result` followed
by the callback of the job's kind.

Left out because they have no continuation: message boxes whose handler does
nothing afterwards, and the "Cancel it?" question of `closeEvent`, which is
`Cancel`. The distribution panel, the AI assistant and the board's selection
are not part of this module; a plane load is modelled as an operation that occupies the
slot and is started by the user or by a timer.

Derived, not stored: whether the edit, save and evaluate controls are enabled
(`ControlsEnabled`), since `_set_busy` and `_refresh_all` both follow the slot.
`retry` is a load that failed because the SPD moved, which a 25 ms timer tries
again with the file the user picked. The user is assumed not to act within
those 25 ms.

`EvaluationKeepsDesign` says what merging the result of an evaluation keeps: design,
revision and captures. A NET colour is not kept: `ScenarioEvaluationBatch.matches`
does not compare it and `_accept_evaluation` replaces the whole scenario, so a
colour chosen while the evaluation runs becomes that of the evaluated scenario again.
The property says that much of colours and no more.

Bounds: `MaxRevision` (revisions), `MaxFrames` (nested dialogs; a further one
is answered No at once), `RecolouredFrames` (the same in a scenario whose colour was
changed), the numbers of designs, colours, files and workers.

### PlaneArtwork

A layer is a number, its place in the stack. `items[l]` counts the cells of
layer `l` on the board and `left` those of layer `target` still to be drawn, so
`left > 0` is `bool(_plane_render_cells)`. A render token is not modelled: a
chunk with a superseded token returns at once, and with the right one it is on
its way as long as cells are left. `StartOther` is any other operation of the
window; opening a document is the one whose result touches the preview. Message
boxes are left out, as in `MainWindow`: nothing follows them. The window
may close with a worker in the slot, see the first note under Findings.

Bounds: the layers and their cells; `MaxNexts`, timers of
`_load_next_missing_plane_layer` at a time. One that finds two pending is not
added, and a third would find what the second finds.

### ScenarioStore

Each call of `save_scenario` that touches the disk is a step. An archive is a
scenario or `Torn`, which stands for every archive validation refuses.
`unsynced` holds the files whose data a power loss may tear. Assumed of the
system: `os.replace` is atomic and durable, and synced data survives. A read may
fail although the file is whole (`ReadsWell`, `Refuses`): the code turns an `OSError`
into `ScenarioFormatError` and treats both alike. A save then replaces the file and makes
no backup of it, and a load falls back to the backup, however old. Neither is excluded:
the history variables `misread` (who could not read a whole file) and `installed`
(every scenario that has been the file) let the properties say what holds in each
case. `SaveKeepsPrevious` is about a save that could read the file;
`LoadIsLinearizable` promises a scenario that was current during the load, or, after a
failed read, one that has been the file. One save
runs at a time, because the window has one slot; a load may come from another
process. `Damage` (loss of the primary from outside) is allowed when the backup
is whole and on disk: one misfortune at a time.

### EngineCache

A design stands for all the bytes of an SPD file, and a sha256 for the design it
was computed from. `cached` maps a key, a sha256 and a port or layer, to the
design its content came from, to `None` (no file) or to `Unusable` (a file that
`_read` refuses: truncated, or with the header of another engine or numpy).
`got[p]` holds, for each input of process `p`, the design it was read from.
Process `p` goes through `prepare` by `step[p]`: `hash`, `find` (look the extract
up), `extract`, `save`, `walk` (look the layers up, then read those missed),
`keep` (save them). Each read of the SPD and each access to the cache is a step.

A temporary file carries the process id in its name and no reader opens it, so
`atomic_pickle_dump` is one step, its `os.replace`. A replace that is refused a
hundred times is a `Fail` of the process. A reader that is refused (Windows)
gets a miss, hence `Outcomes`.

`Spoil` is a power loss, after which an entry may be torn because nothing is
synced, or an upgrade. Only a tear that `_read` notices is modelled: an entry has
a header and no checksum (`cache.py:134-144`), so one that is torn inside the
data of an array and still unpickles would be used.

`ReplaceSpd` is the user who exports the board again, which may happen at every
step. The code hashes the SPD, reads it again for what the cache has not, and
`cmd_solve` hashes it once more for its receipt (`receipt.py:312`, through
`Design.sha256`); it never compares two of these reads. Replaced between hash and
read, an extract of the new file is saved under the hash of the old one with a
header that matches (`spd_source.py:400-405`). No property can promise that away,
so history says whom it touches: `misled` holds the processes under which the
SPD was replaced and those that took an entry of such a process, `doubtful` the
entries they wrote last. `EntriesMatchTheirKey` speaks of all other entries, and a
receipt carries `trust`, whether its process was misled. What the properties show
is that nothing else goes wrong: processes that hashed the old and the new file,
race for one entry, fail and start again never give each other an entry of
another SPD, and a replacement harms no process that neither read at the time nor
took what such a one wrote.

### EngineSweep

`claim[p]` is the `spd_sha256` that the receipt of `p` will hold, `name[p]` the
file that `unique_path` chose. Choosing the name, opening it (which empties it)
and writing it are three steps, and a process may fail between any two. A
receipt is a pair of the claimed design and the designs its inputs came from;
`Torn` is a file that is not a whole JSON document.

`--ports` takes any list, so `Lists` are sequences of ports and `list` the last
one. `todo` holds the positions of the entries without a receipt: `--ports a,a`
submits two futures for one port (`cli.py:192, 245, 257`). The driver's
`ThreadPoolExecutor` is `queued` (futures not started), `future` (which future each
process runs for; `Mine` are the processes of its threads, at most `Jobs`), `ok` and
`failed`. `Reap` is a thread that returns from `run_one` together with the main
thread that counts the result, because nothing else looks at either in between.
`Reported` is what the user was last told to be done.

`EveryEntryOnce` is about entries, not ports: of a port given twice it says that it
is solved twice, and that both are counted. These two, like a solve started by hand
with the same `--out` and the processes of a driver that was killed (`outside` counts
how often), may write one file: `unique_path` chooses a name before it is opened and
does not test the name with the time of day (`api.py:322-330`). `WriteReceipt` has
the mixture two writers may leave. `OkIsWhole` and `SweepKeepsReceipts` speak of
behaviours without such a second solve (`Undisturbed`); the other properties hold
with it.

Left out: log files and `failures.json`, which nothing reads back; the clamping
of `--jobs`, which only chooses `Jobs`; an exception in the driver itself (a log
that cannot be opened), which is a kill that waits for its processes.

Bounds: `MaxMishaps`, the sum of what ran outside, entries spoilt and replacements
of the SPD under a process that reads it; between solves it is replaced freely.

### PadClusters and ScenarioEdits

A board `b` is the connection analysis of a source SPD, which no edit changes:
the kind and cluster of each decap, the edges of the PWR and GND graphs, the
vias under each pad, the rails each via offers (`via_eligibility`), the pad
cells whose removal the source copper allows (`isolation_gap_refdes`), and the
source assignment. `decaps` is the editable part of a `ScenarioSpec`. The
revision, which grows by one with each committed edit, is left out. `net` gives
the NET of a rail, so that `current_net` is derived.

`Segment` is the depth-first search of `grouped_edges`, stated as the least set
of cells that is closed under the edges; islands are then sets, and their order
and the names in an error are left out. `oneGround` is an analysis older than
version V5, whose GND pads count as one component.

`Init` is the state an import makes (`spd_adapter.py:7806-7846`), the one
`original_configuration` and a full restore give back. A scenario loaded from a
file is one that edits have reached. `source` holds the model that
`_source_model_id` finds; it falls back to the baseline capture, which an edit
does not change.

Each edit is one action, because each is one function that returns a scenario
or raises. `outcome` tells a commit from a refusal (`ScenarioEditError`) and from
`rejected`: the preflight accepts and `ScenarioSpec.model_validate` raises,
which callers that catch `ScenarioEditError` do not expect. It happens on boards
where one GND via lies under two decaps that a gap separates: the preflight
(`scenario_edits.py:361`) has no GND rule and the validation
(`scenario.py:2277`) has one. `PreflightSuffices` excepts such boards, and the
board `Grounded` of the run shows the outcome.

`SourceIsReachable` has a premise, `SourceAllowed`: a DIRECT decap whose own
source rail is not among those it may use cannot be restored, since the
preflight tests it like any other rail.

Bounds: `MaxBatch`, the decaps of one batch edit; the run takes all four of its
boards.

### Distribution

A solution gives every decap a rail, or `Unused` for a pad cell that is cut.
`rows` is the set of the solutions that satisfy the rows of the integer program
so far; the module states the rows one by one (`CountRow`, `ToleranceRow`,
`EdgeRows`, `ViaRows`, `Rooted`) as the code builds them, and leaves the search
to TLC. The cuts that `add_invalid_topology_cuts` finds for clusters that are not
paths, and the rows for those that are, both stand for `Rooted`. Each stage of
`compute_distribution_plan` is an action: it takes an optimum of its objective,
or, where the code goes on after a time limit, any solution the code accepts
there, and keeps its level as a row of the next. `Stop` is a time limit with
nothing to fall back on, or Cancel. `unproven` names the stages that fell back.

`Finish` is the pruning of gaps, the edit that the plan would be and its
validation. `Apply` is the real edit of `ScenarioEdits`, so a second calculation
starts from what the first one left, or from what `Edit` made of it.

Three things the model shows, of which the rules
(`src/docs/DECAP_DISTRIBUTION_RULES.md`) say nothing or the opposite:

* `ViaRows` give all owners of a PWR via one label, gaps included. After a plan
  that cut both pads over a via, restoring one of them (`restore_source_atomic`
  on a selection, `main_window.py:7738`) leaves a scenario whose rows have no
  solution. Every later calculation that needs the rows ends with
  `OPTIMIZER_FAILED`. `ViasWhole` is the premise of `AlwaysAPlan` for that reason.
* For the same reason a plan is not always the greatest one that could be
  applied: with pads a-b-c-d in a row and one via under b and c, cutting b alone
  is an edit the program accepts, and the optimizer never considers it.
  `PlanIsBest` therefore compares with the edits that keep `ViaRows`, and says
  nothing of the others.
* Section 3 of the rules says that the tolerance of a donor or a receiver is not
  used; the code lets a donor take and a receiver give decaps within it
  (`distribution.py:4062-4073, 4351-4396`). `KeepsTable` states the code's reading,
  and the run `donor_tolerance` shows the disagreement
  (`ToleranceIsForExchange`).

Premises: on a board with one GND via under two decaps a plan may be rejected
with an exception `compute_distribution_plan` does not catch
(`distribution.py:6172`), see `ScenarioEdits`.

Left out: the power projection and the filter of protected routes, which decide
the evidence of the vias before anything here; the decomposition into groups and
the canonical order of the last tie; the limit of the objective's scale
(`OBJECTIVE_SCALE_INVALID`), which ends like `Stop`.

Bounds: `MaxRevision` edits and plans, `Requests`, and the sets of decaps the
user may select (`Selections`).

### DistributionPanel

The table as a whole is one value of `Matrices`, with `Present` the one that
asks for no change. `plan` carries its input and output and, as history, the
request it was computed for. `PanelResult` is `accept_result` with the callback
of the job's kind. The table is switched off while the slot is taken, which
commits an open editor then and there; the cells selected with it are filled by
a zero timer. `fill` is that timer, `"dead"` once the cells it would fill are
gone. The detached window is one more editor of the same table. The optimizer is
any function that returns a plan of its input.

`MainWindow` says when the user is asked before a document is replaced; here
`OpenDocument` happens or does not. `overwritten` is history: the user may save
an unapplied preview over the document's own file, and the document, which is
clean, is then no longer what that file holds (`main_window.py:5551-5563`).

An invalid text in a cell is not part of the request fingerprint
(`main_window.py:4303`), but `Calculate` refuses while there is one. Apply stays
enabled after an evaluation took a revision, and then refuses as stale.

`AppliesInOneRevision` is stated and not checked: the rules promise one revision
for each Apply (`src/docs/DECAP_DISTRIBUTION_RULES.md:394`), and a plan that
moves no decap but projects power takes none (`distribution.py:2320-2325`,
`scenario_edits.py:895-896`).

Bounds: `MaxRevision`.

### EngineAdapter

A worker is a process of `EngineCache` with a directory for its request and its
result, and a pipe of `PipeSize` lines. `Drain` is the reader thread, `TakeLine`
the loop of `solve`, `KillWorker` the branch of that loop that finds the cancel
flag, `Beat` the heartbeat thread of the worker. Progress lines move a bar, so
the queue holds codes and the end of the stream only. A worker may refuse
(another SPD, a rail too large), fail at any step, be killed, or hang; the
application may crash, and its worker then goes on without it. `Batch` goes over
the rails one after the other (`evaluation.py:4876-4939`).

`configs` in a request are what `decap_config` makes of the scenario: a decap
that is in the SPD on this rail but was moved, disabled or cut must be named
with no model, or the engine would mount it. `Describes` compares what was
mounted with the scenario.

`RefusalIsReported` speaks of the codes a worker ends with: the tail keeps the
last 40 lines and a code is among the last, so the model's `seen` keeps them all.
`<request>.error.json`, which a comment says can be read back
(`spd_decap_pi/gui_launcher.py:33-36`), is read by nothing in `solve` and is left out. The
receipts an evaluation keeps are a set: an answer refers to what `solve` returned, not
to the files. Those are named by port, role and the first digits of `numerics_id`, a hash
of the options, and `unique_path` adds the time of day if the file is there
(`engine_adapter.py:400-404`).

The worker tests the SPD against its request once (`CheckSpd`) and reads it again
later, and the SPD may be replaced at any time (see `EngineCache`). `Describes` asks of
every receipt that it names the SPD of the scenario and mounts its decaps, and of one
whose worker was not misled that its numbers come from that SPD alone.

`dir[p]` is the directory that `solve` makes before it writes the request and starts
the process (`engine_adapter.py:321-335`). If one of these fails, nothing removes it
(`FailSpawn`, `"left"`), as after a result that cannot be read or kept (`FailKeep`).
`NothingIsLeft` excepts these two and a crash; the three ways out that
`src/docs/engine/W11B_REPORT.md:214-217` names (success, failed worker, cancel) are
clean.

Left out: the profile tables, the frequency grid and JSON, which are data.

Bounds: `PipeSize`, and `MaxFaults` (crashes of the application, hanging workers,
spoilt entries, replacements of the SPD under a worker that reads it).

## 3. Runs

| run | question | instance | why it is enough |
|---|---|---|---|
| `main_window` | is the slot exact and does it implement `BackgroundOperation`; do document, file and results agree, and is nothing discarded without a question, with dialogs nested two deep, edits that lead back to a design, and a cancel that races with its result | 2 designs, 2 colours, 1 file, 2 workers, revisions up to 2, 2 frames, none opened in a recoloured scenario | a question on top of a question is what tests cannot do, and a third level adds no new pair of handlers; a save or an evaluation of an earlier snapshot needs two edits to return to the same design; one worker in the slot and one to be confused with it; a colour changes under the dialogs that are open, and in a recoloured scenario saves, loads and evaluations go on |
| `plane_artwork` | do checkboxes, board and cache agree under loads, chunks, failures, cancellations and new documents; does a load of all layers end, and every operation of the slot | 4 layers: 2, 1, 0 and 1 cells, the last fitting in the cache only without the second; 2 workers | a drawing of several chunks, a layer without artwork, and a limit that is hit or not depending on the order |
| `scenario_store` | is a save atomic, and what are backup and load worth, under every interleaving of crash, power loss, failure, misread and load | 3 scenarios | before, current and next |
| `scenario_edits` | does the preflight agree with the validation, do rails stay apart, is every pad fed, can the source be restored | 4 decaps, 3 rails of 2 NETs, 1 model, 6 boards | three pads in a row are the least that a gap can cut; the boards have a via under two pads, a GND via under two pads with and without the older analysis, every other kind of decap, and no analysis |
| `distribution` | is there a plan when the rules promise one, does it keep the counts, is nothing better, with every solve free to end at its time limit and two edits or plans in a row | 4 decaps, 3 rails, 1 model, 6 boards, 10 requests | a row with vias under its ends, one with a via under two pads, one with a GND via under two, a pair beside decaps of other rails, decaps that share nothing, and no analysis; requests of both policies, with donors, receivers, exchanges and tolerances, some of them beyond what can be had |
| `distribution_panel` | does the plan answer what is asked now, is the table that of the open scenario, is no plan written after the document moved on | 1 worker, 2 designs with a table each, 2 options, 1 file, 1 revision | one slot allows one worker at a time; a second design is what a plan or a table can be confused with |
| `lost_launch`, `lost_colour` | see Findings | as `main_window`, with 2 frames in a recoloured scenario | |
| `engine_sweep` | do cache entries match their keys and receipts name the SPD they come from, are the driver's accounts exact, do old receipts stay, does a sweep end, over any number of sweeps | 2 processes, 2 SPDs, 1 port that needs a layer, given once or twice, one mishap | two processes for one port race for its entries and its receipt, from one list, or from a driver and a solve by hand; two SPDs tell a foreign entry from a right one; one replacement misleads a process, and what it wrote is then taken by another; a second port would only add processes that meet in fewer files |
| `engine_adapter` | are the numbers those of the scenario, is nothing left behind, is a refusal reported, do a cancelled and an uncancelled evaluation end | 2 workers, 2 SPDs, 4 rails, 3 of them with a port, 1 scenario, a pipe of one line, one fault | an orphan beside the next worker is the worst case for the cache; a pipe of one line blocks the worker as early as a pipe can; the scenario has decaps moved off, moved on, disabled, cut and of another model, and a rail as imported |
| `torn_receipt` | see Findings | as `engine_sweep`, the port given once, no mishap | |
| `donor_tolerance` | see Findings | as `distribution`, one request, no edit | |

Deadlock is not checked where the system may stop, which is a closed window. Type
invariants are in no run; all are proved (§4).

Each property has a mutant in `PROJECT.json`: a plausible slip in one mapped
definition that makes the property fail in its own run.

### Fairness

`WorkerLifecycle` assumes weak fairness of the pool steps of each worker (a
started `QRunnable` runs, and its function returns or raises) and of signal
delivery (the GUI thread returns to its event loop). `EveryOperationEnds` rests
on both, and on nothing about the user. `PlaneArtwork` adds weak fairness of the
two zero timers, which Qt fires when the event loop is idle. `LoadOfAllEnds`
excepts behaviours in which other operations take the slot for ever: the user
decides that, not the scheduler. `EngineSweep` assumes weak fairness of each
process (the system schedules it, and a solve is a finite computation), of the
threads that wait for one, of the executor that starts one when a thread is free,
and of the end of the driver. It assumes nothing about failures: `SweepEnds`
holds whether they happen or not, because a failed port is not tried again.
`EngineAdapter` assumes weak fairness of the batch, of the kill and of the reader
thread, all of them threads of the application, and strong fairness of a worker:
its next step waits for room in the pipe, which comes and goes. A worker that
hangs is a step of its own (`Hang`), after which it takes none.
`EveryOperationEnds` is checked within `PlaneArtwork`, where a closed window is
excepted. The window, the panel, the edits, the optimizer and the store state
only safety and assume no fairness.

### Findings

* `lost_launch`: the answer to "Run a partial Evaluation Analysis?" relies on
  the preflight's `finished` signal, which the question's own event loop has
  already delivered. The confirmed evaluation does not start
  (`main_window.py:7966-7981`).
* `lost_colour`: a NET colour changed while an autosave runs is marked saved
  (`main_window.py:6193`).
* `torn_receipt`: a solve that dies while it writes leaves a part of a receipt;
  the next sweep skips the port and reports it as done (`cli.py:135, 245`).
* `donor_tolerance`: the rules say that a tolerance entered at a donor or a receiver
  is not used (`src/docs/DECAP_DISTRIBUTION_RULES.md:95, 115-116`); in the run a donor
  takes a decap within it (`distribution.py:4062-4073, 4351-4396`). A test expects
  what the code does (`src/tests/test_spd_decap_distribution.py:4966`).

Further disagreements have no run of their own; where a property states them, it
is in the module and in no configuration.

* `ClosesOnlyWhenIdle` (`MainWindow`): `closeEvent` tests the slot before its
  Discard question, whose event loop lets a timer start a worker, and not after
  it (`main_window.py:8607-8631`).
* `CheckedLayersAreDrawn` (`PlaneArtwork`): a layer checked while another is
  drawn is never loaded if an evaluation or a save has the slot when the drawing
  ends (`main_window.py:6749`; `src/README.md:487`).
* `AppliesInOneRevision` (`DistributionPanel`), and what `Distribution` shows:
  see there.
* A NET colour changed while an evaluation runs is taken back when its result is
  merged (`evaluation.py:301-305`, `main_window.py:8178`); see `EvaluationKeepsDesign`.
* An `OSError` on the first read of a whole file makes a save replace it without a
  backup (`scenario_io.py:402-403, 712-713`); the test
  `test_valid_previous_save_is_backed_up_and_recovered`
  (`tests/test_spd_decap_scenario_io.py:1966`) expects one, with reads that succeed. On a
  load it returns the backup,
  marked as recovered, although the file is whole (`scenario_io.py:747-752`).
* The preflight of an edit has no GND rule, see `ScenarioEdits`.
* The SPD replaced under a solve gives cache entries under the hash of another file and
  receipts that name another SPD (`spd_source.py:400-405`, `receipt.py:312`), see
  `EngineCache`. No document says what should happen.
* `--ports a,a` solves a port twice, perhaps at the same time and into one file
  (`cli.py:192, 257`, `api.py:328`), see `EngineSweep`. `unique_path` says that it never
  overwrites (`api.py:323`).
* A request directory stays when its worker cannot be started, see `EngineAdapter`.
* The retry of a relinked load fires 25 ms after the dialog and asks nothing
  about the document again (`main_window.py:6063`). The models assume that the
  user does nothing in between.

## 4. Proofs

* `WorkerLifecycleProofs`. `SlotInv` is the inductive invariant: by the phase
  of the worker in the slot it says exactly what is in the queue. Stated alone,
  `SlotOwnsEverything` is not inductive, since it does not tell that a queued
  `finished` is the last signal. From it follow type correctness,
  `SlotIsExact`, `OutcomeThenEnd`, `CancelledNeverApplied`, and that the slot
  implements `BackgroundOperation` (`ImplementsOperation`).
* `MainWindowProofs`. Every window step is a step of the lifecycle or leaves it
  alone (`WindowKeepsLifecycle`), so `SlotInv` holds of the window, and what follows
  from it, with the abstract operation, holds of the window too (`WindowSlotIsExact`,
  `WindowOutcomeThenEnd`, `WindowImplementsOperation`).
  `ResultsAreCurrent` follows because every action that changes design or
  revision drops the batch. `CancellationIsClean` needs `SlotInv`: the signal
  at the head of the queue is that of the cancelled worker.
  The other three rest on `WindowInv`, which is inductive with `SlotInv`. Its
  parts are `JobInv`, what the job in the slot was started with (`Fits`) and,
  once its function returned, what it brought about (`Ready`); `FrameInv`, what a
  waiting dialog refers to; `ConsentInv`, about the designs the user was asked to
  discard (`Askings`: in dialogs, in the relink timer, in the job); and
  `StoredInv`, which is `CleanMeansStored` said of any open scenario.
  `CleanMeansStored` alone is not inductive: that a completed save may
  clear the flag needs what the save was started with and what the file holds.
  `ReplacesOnlyWithConsent` needs more: between the question and the result no
  edit may be waiting for its dialog, and a save that ends meanwhile must have
  written the design that is open (`NoEdit`, `SaveIsCurrent`). Each action
  has one lemma (`...Keeps`).
  The type invariant (`WindowTypes`) needs `WindowInv` too: the type of a merged
  scenario is what `Ready` says of a result, that of a request what `FrameFits` says
  of a dialog. Beyond that it needs that only an open scenario is dirty, that the
  job in the slot is a whole one, and that `FreshId` exists. The last is counted
  (`IdIsLeft`): the pending request, the jobs and the dialogs refer to at most
  `1 + Cardinality(Workers) + MaxFrames` scenarios, one less than there are
  identities.
* `PlaneArtworkProofs`. `PreviewInv` is inductive together with `SlotInv`. Its
  core is `LoadIsPending`: from the start of a load until its result is
  applied, the layer is missing and nothing is left to draw. `EveryCellOnce`
  alone is not inductive, because accepting cells replaces those left. That the
  result is applied at most once is `SlotInv`. `BoardShowsChecked` follows from
  `EveryCellOnce`: the layers a failure or a cancellation hides are missing
  ones, and those have no item. `CacheKeepsItsAccount` is about a sum over a set,
  a fold that no prover here unfolds. The proof counts instead: the sum is the
  number of pairs of a layer and one of its elements (`PathsOf`). That the fold
  equals that number for every set of layers is shown on a counterexample with
  the fewest layers (`LeastSet`), which stands for the induction; adding a layer
  adds its pairs (`Accounted`), and a load adds one only if the sum stays within
  the limit.
* `ScenarioStoreProofs`. The inductive invariant relates the step of a save to
  what the three files hold, and says that every file that is not torn has been
  installed or is being written. Atomicity, survival, the backup and the
  linearizability of loads follow, the last two in the two cases a failed read of a
  whole file makes (`misread`).

* `DistributionPanelProofs`. `PanelInv` is inductive. Beside `SlotInv` and the
  types it has `JobInv`: what the job in the slot was started with, and, once its
  function returned, what it brought about, so that a plan that arrives is one
  of its own request and a saved file holds what was to be saved. `DialogInv`
  says that a question about a save outlasts no change of the scenario, because
  the window is modal then. `TableInv` says that a plan or a pending fill means
  somebody typed, which is what allows the table to differ from the counts.
  None of the five properties is inductive alone: each needs to know what the
  worker in the slot will deliver.

* `EngineSweepProofs`. `SweepInv` is inductive. `EntriesMatchTheirKey` alone is
  not: a save needs that what the process got comes from the SPD it hashed, unless
  it was misled (`ReadsWhatItHashed`), and a read needs that the file is still that
  SPD, again unless it was misled (`HashIsCurrent`). What a lookup returns is the SPD
  of the key or it misleads (`LookupFacts`), which is where the invariant on the
  entries enters. `ReceiptNamesItsDesign` follows because at the end of `prepare` no
  input is missing (`InputsAreThere`). `EveryEntryOnce` is a part of
  the invariant (`DriverInv`), with the steps its processes are at. `OkIsWhole` and
  `SweepKeepsReceipts` rest on `SweepAlone`:
  undisturbed, every process belongs to the driver and no other works on its port,
  so nobody else touches its receipt, which is absent until it opens it, torn until
  it is written and whole when the process exits.

* `DistributionProofs`, first part: the edits. Lemmas about segments come first: a segment is closed,
  it is the least closed set with its cell, and its members have it too
  (`SegmentOfMember`), so islands are disjoint. What the checks say of a cluster
  depends on the rails and gaps of its members only (`PowerSoundByMembers`),
  hence an edit that passes the preflight of the clusters it touches leaves the
  whole scenario valid (`ProposalIsValid`). `EditsInv` adds `Valid` to the type
  invariant and to `PreflightSuffices`, which are not inductive without it.
  `RailsStayApart`, `PadsAreFed` and `SourceStaysReachable` follow from it.

* `DistributionProofs`, second part: the optimizer. `PlanInv` is inductive: during a calculation every row and
  the solution at hand satisfy `Keeps`, the rows of the counts, and the counts
  of the request are those of the scenario (`RequestFits`). `PlanKeepsTable`
  alone says nothing of the stages before the answer. Its two hard cases put pads
  back after a solve: the pruning of gaps, and the fallback of the stage that
  cuts nothing. `MendedKeeps` serves both: pads of donors may be put back. The
  pruning asks for donors; the fallback does not, and is sound because
  that stage comes only where no cell has a turnover, the last conjunct of
  `PlanInv`. `KeepsItsTable` then turns the rows into the counts of the scenario
  that the edit would leave (`OutcomeHasCounts`, `CountOfChange`).
  `PlansKeepTheBoard` carries the properties of `ScenarioEdits` through applied
  plans and the edits in between.

  `CalculationsHaveAPlan` needs a second invariant, `Ready`: the rows start as
  all solutions and only shrink, and from the refinement on the edit takes the
  solution at hand, pruned or not. `AlwaysAPlan` alone speaks only of the
  answer. Three arguments carry it. A solution leaves every cluster sound
  (`SolutionIsSound`): by `EdgeRows` the pads of one label are closed under
  copper, so an island, the least such set, has one label, and `Rooted` gives
  it a via that offers it; hence the preflight takes it (`SolutionIsTaken`). A
  choice of the flow and of its fallback touches no cluster at all
  (`FlowIsTaken`). And the scenario left as it is satisfies all rows
  (`UnmovedIsASolution`), which is where `ViasWhole` is needed: after a restore
  of one of two cut pads over a via no label satisfies `ViaRows`. What the
  preflight takes validates by `ProposalIsValid`, which needs `GroundViasApart`.

* `DistributionProofs`, third part: `PlansAreBest`. The invariant `BestInv` says
  of every stage what it has settled (`Settled`): the rows are exactly the
  solutions of most progress (`Top`), then those of them with the moves, then
  those with the cost of the solution at hand, and what is at hand is the least
  at each stage, unless a stage fell back. The rows alone would not do: what was
  optimal at a stage must still be among the rows of the next. Then:

  * The rows leave nothing else out (`TakenIsASolution`): an edit that keeps the
    table, the vias (`ViaRows`) and is taken by the preflight satisfies every
    row, labels included, because an island the preflight finds fed has a via
    that leads to its rail (`TakenIsLabelled`).
  * The flow considers no gap. `FlowsLoseNothing`: of any solution, the moves
    alone, without its gaps and without the moves that would overfill a cell, are
    a flow that has at least the progress and no more moves. Which moves have to
    go follows a chain from cell to cell; the proof takes a least set of moves that
    still leaves as many decaps in every cell (`LeastSet`) and shows that none
    is overfilled then, so it needs no induction along the chain. Where the flow or
    its fallback answers, no pad of a cluster can move, so the choice
    is a solution of the whole program (`FlowIsASolution`), which is where
    `ViasWhole` is needed.
  * Objectives are sums over sets, which the provers cannot unfold. The length is
    therefore counted (`SumIsUnits`): it is the number of units of distance of
    the decaps that move, each taken one by one.
  * Gaps put back after a solve make a plan no worse (`MendedIsNoWorse`,
    `PrunedIsBest`), and the ranks the policy compares are the order in which the
    stages settle (`RanksMean`, `TiesAreBest`, `DirectIsBest`, `NoWorse`). Under
    `MIN_GAPS` this needs that gaps have no price, an assumption on requests.

* `EngineAdapterProofs`. `AdapterInv` is inductive. `NothingIsLeft` needs
  `EveryWorkerIsOwned`: a process that runs, or a directory that is there, is that of
  the solve in progress or was lost by a crash, a failed start or a failed keep.
  `AnswerIsOfScenario`
  needs the whole chain: the cache (`CacheInv`, as in `EngineSweepProofs`), that
  a whole result is that of its worker (`ResultIsOwn`) and the worker one that
  was asked for this scenario (`ChildIsAsked`), and that what was gathered before is of the same scenario
  (`GatheredIsOfScenario`, `AnswerInv`). `RefusalIsReported` rests on
  `OutputInv`: a code was said only by a worker that fails, once said it is in
  the pipe, the queue or the tail (`CodeIsOnItsWay`), and the end of the stream
  is the last thing in the queue (`EndComesLast`), so whoever has read the end
  has seen the code.

Assumptions are those of the modules: `NoWorker \notin Workers`, distinct
placeholders, `NoScenario \notin Contents`, and bounds in `Nat`; for `MainWindow`,
finitely many workers and room for at least one dialog; for `ScenarioEdits`, that a board is one that
`SharedPadCluster`, `SharedPadConnectionAnalysis` and `ScenarioSpec` accept
(`SoundBoard`); for `Distribution`, finitely many decaps, targets in `Nat` and
tolerances in percent, as `_canonical_targets` and `_canonical_tolerances` check,
and a price of gaps in `Nat` that is 0 under `MIN_GAPS`, as
`_resolve_distribution_optimization` and the rounding at `distribution.py:5475` give
it;
for `EngineAdapter`, that ports are rails, that placeholders are distinct, that
scenarios name a known SPD, and a pipe of at least one line.

Model-checked only: `EveryOperationEnds`, `LoadOfAllEnds`, `SweepEnds`,
`CancelEnds` and `SolveEnds`, since liveness under fairness is beyond TLAPS. Every
invariant and every action property of a passing run is stated by a theorem.

## 5. Plan

The theorems that were planned are proved. These hazards have no property that a
run checks (see `PROJECT.json`): the close over a worker that a timer started under
the Discard question, which `ClosesOnlyWhenIdle` states and the code does not
prevent; a crash inside the copy of the backup, for which `ScenarioStore` would need
a step between the two ends of the copy; a gap between two decaps on one GND via,
for which the preflight has no rule; a torn cache entry that still unpickles; an SPD
replaced between the solve and the hash in its receipt, and two solves that choose one
receipt file, which the models contain and the code does not prevent; and the edits
better than a plan that the rows of the optimizer leave out.

## 6. Not modelled

Numerics (field solver, evaluation, the optimizer's search), parsers and binary
assets are pure functions over large data: they have no interleavings, and
their state spaces mean nothing to a model checker. Drawing, wording and layout
have no property. Progress signals only move a progress bar.

The bulk of the repository is of this kind: the research solvers under
`src/tools/research/`, the SPD reader, the layerwise solver and the evaluation
service compute numbers from data in one pass. What can go wrong there is the
numbers, and the repository tests them against references.
