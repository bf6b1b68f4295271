# Verification of Aegis SRE

TLA+ models of the parts of Aegis SRE whose correctness depends on the order in which
things happen, the TLC configurations that check them on small instances, and theorems about
them that TLAPS proves for every value of the constants. `PROJECT.json` lists components,
runs, the lines each definition stands for, findings, hazards and theorems.

```
tlc -config IndexRaces.cfg MCKnowledgeIndex     # one run
tlapm KnowledgeIndexProofs.tla                  # the proofs of one component
```

1. [The system](#1-the-system)
2. [Modules](#2-modules)
3. [Knowledge documents and indexing](#3-knowledge-documents-and-indexing)
4. [Canvas](#4-canvas)
5. [The events of Codex](#5-the-events-of-codex)
6. [The turns of the Workbench](#6-the-turns-of-the-workbench)
7. [The pages of the plugin](#7-the-pages-of-the-plugin)
8. [What the checks found](#8-what-the-checks-found)
9. [What is proved](#9-what-is-proved)
10. [What is not modelled](#10-what-is-not-modelled)

## 1. The system

A Grafana plugin (the Workbench, TypeScript, with a Go backend that proxies and signs the
actor) talks to a Control Plane (Go). The Control Plane keeps almost no state of its own: it
adapts agent providers (Codex over a child process, OpenCode over HTTP), a playbook scheduler
(Dagu) and a knowledge sidecar (Python, RAGLite), and it owns one database, the Canvas of a
session. Agents reach knowledge, playbooks and the canvas back through MCP servers.

| Component | State | Operations | Talks to |
|---|---|---|---|
| Knowledge sidecar (`adapters/raglite/sidecar`) | SQLite manifest (collections, documents, jobs), original files, a worker thread | upload, update, delete, start/retry/stop indexing, collections; claim, index, finish; recovery at start | RAGLite/DuckDB in process; called by the Go provider |
| Knowledge catalogue, search, Go provider, HTTP and MCP handlers | folders and scopes in the manifest; none in Go | rename, move, list, search, scope migration | sidecar over HTTP |
| Canvas (`adapters/canvassqlite`, `application/canvas`) | four tables per session; subscriptions in memory | publish, get, update layout, delete, subscribe | agent provider (is the session there?), SSE stream of a turn |
| Codex adapter (`adapters/codex`) | child process, pending calls, event hub: streams, early and detached turns, pending approvals | start/cancel turn, resolve approval, dispatch, stop | JSON-RPC over pipes |
| OpenCode adapter (`adapters/opencode`) | per stream: assistant messages seen, terminal | start/cancel turn, filter of the global event stream | HTTP and SSE |
| Dagu playbooks (`adapters/dagu`) | none; labels in the scheduler's YAML are the ownership index | create, update, delete, start, retry, cancel, stream by polling | HTTP |
| HTTP server, agent routes, authorization | none across requests | delete session (provider, then canvas), SSE, folder decision | all of the above |
| Workbench turns (`useWorkbenchController.ts`, `workbenchReducer.ts`) | opened session, run numbers, abort controllers, command to retry, pending approval | send, stream, wait when busy, stop, approve, read back, retry, change of route | agent provider through the gateway |
| Workbench sessions, canvas, drawer | list, route and request numbers; optimistic canvas and its base; context of the folder | list, open, create, rename, archive, delete; edit, rebase, read anew; load context | gateway |
| Workbench panels (`GrafanaPanelPreview.tsx`) | shared queries counted by references | subscribe, run, retry, choose panel or table | Grafana |
| Shell (`AppShell.tsx`, `AppShellContext.tsx`, `resourceClient.ts`) | folders, active folder, its copy in the tab's storage | load, select, reload after a refusal, mount a page per path | Grafana, every page |
| Knowledge page (`RealKnowledgePage.tsx`) | bases, documents, passages, searches, writes under way | load, poll, select, upload, change, delete | Control Plane |
| Playbook, skill, approval, audit and alert pages | lists, details, editors, run panels | load, filter, save, run, decide, advance | Control Plane, or fixtures in the tab's storage |
| Fixture gateways | the storage of the tab | what the pages ask, with delays | |
| Plugin backend (`pkg/plugin`) | none across requests | route policy, signing | Control Plane |
| Identity codecs, configuration, deployment, generated contracts | none | pure functions, wiring | |

What makes each of them correct, and what is hard about it:

* **Knowledge.** Whatever is uploaded or updated is in the end indexed at its newest
  metadata, or failed; a document has at most one active job and no job outlives its
  document; a ready document is wholly indexed. Handlers run on threads of their own beside
  one worker, a service call is a sequence of transactions, and the process may stop between
  any two of them.
* **Canvas.** A canvas is one aggregate over four tables; concurrent edits never undo what
  their author did not see; every publication reaches the browser although notifications are
  dropped. Calls interleave between the check of the session, the transaction and the two
  statements of a read.
* **Codex.** Every call ends when the process does; each event of a turn reaches one reader at
  most, those before the subscription included; the hub and the reader do not take each other's
  streams out while one stream of a turn is closed and the next one registered; one slow reader
  should not stop the others. Two goroutines feed one stream, outside the lock.
* **OpenCode.** A stream shows the events of its own turn and ends with it; a cancel aborts
  the turn it names.
* **Playbooks.** A repeated creation or start is the same playbook or run; nobody acts on a
  playbook of another folder. Each operation is a check followed by an act at an external
  service.
* **Workbench.** A run that was overtaken writes nothing any more; no answer spins for ever;
  a message that failed is offered again; "stopped" means stopped. An accepted canvas edit
  drops nothing its author had not seen. Every `await` is a place where the session, the
  folder or the whole page may have changed.
* **Shell and pages.** What a page shows belongs to what is chosen now, although the answers
  of two choices are under way; a list that is loading comes; a save repeated after a lost
  answer makes one thing; what was deleted or cancelled does not come back; a decision of
  several writes is made as a whole.

## 2. Modules

| Modules | Question |
|---|---|
| `KnowledgeIndex`, `KnowledgeLifecycle` (abstract), `MCKnowledgeIndex`, `KnowledgeIndexProofs` | jobs, documents, worker, restart; implements the lifecycle of ADR 0011 |
| `CanvasStore`, `CanvasService` (composes the store with calls, session, stream), `MCCanvas`, `CanvasProofs` | aggregate, optimistic edits, notifications |
| `CodexClient`, `CodexEvents` (composes the client with the hub, its streams and the handlers), `MCCodexEvents`, `CodexEventsProofs` | calls beside a closing client; events beside their readers |
| `WorkbenchTurns`, `MCWorkbenchTurns`, `WorkbenchTurnsProofs` | the controller's turns against a provider that works, refuses, fails or is not heard |
| `WorkbenchSessions`, `WorkbenchCanvas`, `WorkbenchContext`, `WorkbenchFrame`, `WorkbenchDialogs`, `PanelPreview`, `FixtureWorkbench` | the other parts of the Workbench |
| `FolderShell`, `KnowledgePage`, `FixtureKnowledge`, `PlaybookPage`, `SkillsPage`, `GovernancePages`, `AlertsPage` | the shell and the other pages |
| `SinglePages`, `PluginPages`, `MCPluginPages` | the pages as instances of the modules above, with folders and bounds as constants; one of them mounted at a time, as `AppShell` does; the values TLC takes |
| `WorkbenchSessionsProofs`, `WorkbenchCanvasProofs`, `SinglePagesProofs`, `PluginPagesProofs` | what a page shows and writes, for every value of the constants |

The code of the plugin that no module models, and the other Go adapters, are in section 10.

Conventions. A definition whose comment begins with "Fault" is not part of the model: it is
the definition below it with a plausible bug, and names the property that notices. Bounds are
constants named in each module's CONSTANTS. `None` stands for an absent value.

## 3. Knowledge documents and indexing

`KnowledgeIndex` models `service.py`, `repository.py`, `original_store.py` and what
`backend.py` relies on. One action is one repository, original-store or backend call; the
program counter of a handler thread or of the worker says which call of the service method
comes next, so everything else may happen between two calls, as it may on FastAPI's threads.

| Code | Model |
|---|---|
| tables `collections`, `documents`, `jobs` | `collections`; `status`, `generation`, `indexed`, `digest`; `jobs` (active rows only: a finished row is never read again) |
| files of `original_store.py`, content of DuckDB | `original`, `chunks` (none, part or whole, with the metadata generation they carry) |
| synchronous handlers, thread `raglite-writer` | `thread`, `worker` |
| `upload_document` and its compensation | `Upload`, `SaveOriginal`, `CreateUploaded`, `UndoSave`, `ReconcileUpload`, `CreateReconciled` |
| `update_document_metadata` | `UpdateDocument` |
| `start_`, `retry_`, `stop_indexing` | `StartIndexing`, `ReadActiveForStart`, `SubmitJob`, `Requeue`, `RetryIndexing`, `StopIndexing`, `ReadActiveForStop`, `CancelForStop` |
| `delete_document` | `DeleteDocument`, `ReadActiveForDelete`, `CancelForDelete`, `DeleteChunks`, `UnlinkOriginal`, `DeleteRecord` |
| `run_once` | `ClaimNextJob`, `ReadIndexingContext`, `MarkIndexing`, `WipeChunks`, `InsertChunks`, `VerifyChunks`, `FinishIndexed`, `FinishFailed` |
| process end; `start` with `recover_running_jobs` | `Crash` (with the call that it cuts short), `Start` |

`KnowledgeLifecycle` is what ADR 0011 promises of a document: absent, queued, indexing, ready
or failed, and which steps may lead from one to another. `KnowledgeIndex` is checked to
implement it (`FollowsLifecycle`), with the status and the generations as the mapping.

| Run | Instance | Shows |
|---|---|---|
| `index_races` | 2 handler threads, 1 document, every operation, backend errors with and without a text, 2 attempts, 1 crash; 1.4 million states | `JobsFitDocuments` (`OneActiveJob`, `JobHasDocument`), `RunningJobIsHeld`, `ReadyIsCurrent` hold under every interleaving |
| `index_recovery` | 1 handler, 2 documents, collections, uploads and updates, 3 attempts, 3 crashes, fairness; 521 thousand states | recovery gives up at its limit, ready means wholly indexed, originals match their digests, the lifecycle is followed, queued documents are settled |

Why these bounds. The races are between two handlers and the worker on the rows of one
document, and jobs of different documents meet only in the queue, which the second run
exercises. Each limit is one the code compares with (attempts, generations), and each is
small enough to be passed: three crashes exhaust three attempts. `Payloads` has one file: an
upload key is assumed to be used for one file, which is what the Control Plane derives it
from; section 8 says what happens with two. Ids of jobs are reused once the queue drains, so
`MaxJobs` bounds how many can be active in a row, not how many are ever made.

Fairness (`FairSpec`). The worker's loop polls for as long as the process lives
(`service.py:357-360`), so each of its steps is weakly fair; a handler that was called runs to
its end; the container restarts a process that stopped
(`deploy/raglite/compose.yaml:52`, `restart: unless-stopped`). Nobody has to call anything,
and nothing restarts a worker thread that ended within a live process.

`index_recovery` leaves out delete, start, retry and stop, and errors without a text: with them
four of its properties fail in the code (section 8). The Control Plane's
client never calls start and stop.

## 4. Canvas

`CanvasStore` has the four tables of one canvas and an operator per committed transaction;
statements name tenant, organisation, user and session, so canvases share no row. A
transaction takes SQLite's write lock when it begins (`_txlock=immediate`) and is atomic.
`CanvasService` has the calls around them.

| Code | Model |
|---|---|
| tables `canvases`, `charts`, `queries`, `canvas_items` | `canvas`, `charts`, `queries` (by the id of its chart), `items` (a chart's position) |
| `Store.PublishQueryChart` | `PublishNewChart`, `PublishAgain` |
| `Store.UpdateLayout`, `Store.Delete` | `UpdateLayout`, `DeleteCanvas` |
| `Store.Get`, `readProjection` | `ReadRow`, `ReadItems`: two statements on the pool, outside a transaction |
| `Service.PublishQueryChart`, `publishEvent` | `BeginPublish`, `StorePublish`, read-back, `Notify` |
| `PUT .../canvas`, `Service.UpdateLayout` | `BeginUpdate`, `StoreUpdate`, read-back |
| `DELETE /sessions/{id}` | `BeginDelete` (the provider), `FinishDelete` (the store) |
| refused or failed transaction, failed read, client gone | `Fail` |
| `Subscribe`, `streamSSE`, the browser's `canvas_updated` | `OpenStream`, `TakeEvent`, `ShowRow`, `ShowItems`, `CloseStream` |

The session belongs to the agent provider and is external: active, archived, gone, and
"deleted" once a client was told so. A client that edits sends the revision it read and any
arrangement of any of the charts it saw, with any of them as the active one.

The interesting property is `EditsAreNotBlind`. A read takes the row first and the items
after it, with commits possible in between, so a view can hold charts of a later revision
than the one it names. It never holds fewer: a view of the present revision has exactly the
present charts. Reading in the other order breaks it (the fault `ReadItemsFirst`).

`UpdateIsComing` and `NotificationsSuffice` say why a full subscription may drop events: an
event carries nothing the browser relies on, and whatever is dropped is dropped while another
event is still to be acted on.

| Run | Instance | Shows |
|---|---|---|
| `canvas_edits` | 2 calls, 3 keys, 1 hash, limit of 2 charts, 3 charts ever, 4 revisions, 1 event of buffer; 3.0 million states | one aggregate, dense positions, active chart present, limit kept, no blind edit, no lost notice |
| `canvas_stream` | 1 call, 2 keys, 2 hashes, fairness; 330 thousand states | every publication is shown while the stream stays open |

Why these bounds. Three keys overrun a limit of two charts; four revisions let two
publications, an edit and another publication follow each other; a buffer of one overflows at
the second event. Keys, calls and hashes are interchangeable, and the safety run uses that
symmetry; the liveness run does not. The proofs below hold for every value.

Both configurations, like those of section 3, set `CHECK_DEADLOCK FALSE`: a system that
nobody calls rightly stands still, and at its bounds an instance has to.

Fairness. `streamSSE` loops while its request lives and the browser handles one event after
the other, so taking an event and the two steps of a read are weakly fair. Closing the stream
is always allowed, and nobody has to publish or edit.

## 5. The events of Codex

`CodexClient` is `client.go` with the App Server as its environment, `CodexEvents` is
`events.go` with the handlers that open streams (`StartTurn` and `ResolveApproval` of
`provider.go`, `streamSSE`). A lock in the code is one step of the model; everything between
two locks or channel operations is a step of its own.

| Code | Model |
|---|---|
| `pending`, the channel of a call, `sequence`; `Call` | `pending`, `result`, `issued`; `BeginCall`, `WriteCall`, `TakeAnswer`, `GiveUp` |
| `readLoop`, which waits for room with one line in hand | `line`, `ReadLoop` |
| `closeWithError`: pipes, waiting calls, `done` | `phase`; `ClosePipes`, `Drain`, `CloseDone` |
| the App Server | `server`; `AppServer`, `Decline` (external) |
| `eventHub`: streams, early, detached, pending | `hub` |
| `codexEventStream`: channel, `localDone`, `finishOnce` | `stream` |
| `run`, `handleRequest`, `stopAll` | `TakeNotification`, `HandleRequest`, `StopAll` |
| `dispatch` and `finish`, run by the hub or by a handler that replays | `todo`, the steps still to do, for each; `Dispatch`, `Emit`, `RemoveStream`, `EndStream` |
| `StartTurn`, `resolveApproval`, `register`; every other operation | `StartTurn`, `ResolveApproval`, `Check`, `Conflict`, `Subscribe`, `Reply`; `OtherCall` |
| `Next` and `Close` as `streamSSE` calls them | `Read`, `Leave`, `DetachClosed`, `CloseLocal` |

An invalid notification and one of another thread end a stream alike and are one kind of
message. A request that is no approval, and an approval of any request, are refused without a
change of state and left out. A tool event differs from a delta in its content only.

`codex_events`: two handlers, two calls, one turn of three messages, and room for one message
in each queue (128, 32 and 256 in the code), so that all of them fill up; 0.72 million states.
Three messages are a text, a request for approval and the end, or a turn that asks twice; two
handlers are the reader of a stream and the one that registers the next. Two calls meet a
closing client at once, or are the two of a turn; three calls with two messages, and two turns
with one message each, pass as well but need five minutes.

* `StreamsMeetReaders` is about the close of a paused stream, which its reader does while the
  decision on the approval registers the next stream of the same turn: `detach` compares the
  stream (`events.go:128`), and without that the second reader waits for ever. It says who holds
  the streams in the table and where the end of a stream that is read is, no more: a stream
  registered after `stopAll` counts as entered although nothing ends it (section 8), and `emit`
  may still put something into a stream that its reader has closed (`events.go:424-428`).
* `NothingTwice`: what was kept before the registration is dispatched again once, beside what
  the hub goes on dispatching.
* `CallsEnd`: a call may register after the waiting ones were failed; that the pipe is closed
  before (`client.go:242`) is what ends it.

Fairness: Go schedules a goroutine that can run, so a client that has begun to close goes on,
and a handler writes its call and takes its answer. That the App Server answers, that the hub
or a reader gets anywhere is not assumed, and none of the properties needs it.

What a reader may not rely on is in section 8: nothing promises that the events are in order or
complete, nor that a decision taken at once is accepted.

## 6. The turns of the Workbench

`WorkbenchTurns` models the part of `useWorkbenchController` that works on messages. A run is
one call of `runCommand` or `resolveHITL`; each of its steps begins where an `await` returns,
so the user, the route and other runs act in between. The provider behind the gateway is
external: it runs a job per request it accepts, goes on when the browser has left, and keeps
the log that `openSession` reads. An aborted request rejects, or still answers when its answer
was already under way.

Two constants say where the controller runs. `Anew`: the host mounts the page anew for another
route, as `AppShell` does (`AppShell.tsx:73`), or it stays mounted, which is the host the hook is
written and tested for. `LateCanvas`: an aborted `getCanvas` may still answer. The branch for
`canvas_updated` awaits `getCanvas` and then publishes if the route matches, whatever has become of
the number of the run (`useWorkbenchController.ts:473-477`, `753-757`). The gateway of the program
rejects what was aborted; the port it implements does not say so.

| Code | Model |
|---|---|
| `openedRef`, `routeSessionIdRef`, `openedSession.status`; the time between a render and its effects | `opened`, `route`, `opening`; `leaving` |
| `streamRunRef`, `streamControllerRef`, `streaming` | `live`, `holder`, `streaming` |
| `activeTurnIdRef` with `activeClientTurnIdRef`; `failedCommandRef`; `pendingHITL` | `started`; `failed`; `pending` |
| one call of `runCommand` or `resolveHITL` | a record of `run`: where it is, its command, its copy of the messages, its outcome |
| render of another route (`:92-106`), then its effects (`:230-247`, `:176-190`) | `Navigate`, `RouteEffects`, `OpenSession`, `RetryOpenedSession` |
| `sendMessage`, `retryLastMessage`, `resolveHITL` | `SendMessage`, `RetryLastMessage`, `ResolveHITL` |
| the loop over the stream and its `catch` | `TurnStarted`, `ToolCall`, `CanvasUpdated`, `CanvasAnswered`, `Interrupt`, `Done` (of an interrupted turn too), `Error`, `StreamBreaks`, `Stopped`, `Overtake` |
| the busy retries (`maxBusyRetries`) | `Busy`, `WaitForRetry` |
| `reconcileCommand`, `mergePersistedSession` | `Reconcile`: `ReadFinds`, `ReadMisses` or `ReadFails` |
| `stopStreaming` and the answer of `cancelTurn` | `StopStreaming`, `StopAnswered` |
| the provider (external) | `Accept`, `AcceptResolution`, `JobCompletes`, `JobFails`, `JobAsks`, `ConfirmCancel` |

`workbench_turns`: two sessions, two runs, a tool call or change of the canvas and an approval per
job, one refusal, a walk to the other session and back; 1.4 million states. Every property is about
late answers, so two runs and a walk back are what it takes: the first run is overtaken by the
second, by the route, or by both. The run has the host that stays (`Anew = FALSE`), where only refs
keep a late answer away, and a gateway that rejects (`LateCanvas = FALSE`). With the host the program
has and a gateway of any kind (`Anew = TRUE`, `LateCanvas = TRUE`) every invariant and
`SupersededRunsAreSilent` hold too (2.6 million states, more than the time of a run allows with
liveness); with the host that stays and a gateway that does not reject they do not (section 8). The
theorems of section 9 are about `LateCanvas => Anew`, which is all but that last case.

Fairness (`FairSpec`), weak and per run: a run hears the end of its stream, wakes from its
timer and reads back (`Hear`), which the browser's event loop and timers give; the provider
takes a request and goes on with a job (`Work`), and refuses a resolution it can no longer
take (`Refused`), or the stream would hang as the code has no timeout for it.
The user owes nothing: he need not stop, approve or retry. An approval that nobody answers is
no counterexample to `AnswersSettle`, for its stream has ended and its answer does not spin.

## 7. The pages of the plugin

In these modules a request is a record in a set until its answer arrives, in any order; what
it read is taken when it is sent. Where the code counts its requests and compares numbers, the
record carries the outcome of the comparison. A render and its effects are one step.

A write that fails may have been carried out and only its answer lost. So what a page can promise
of deleted sessions is about those it knows of: `WorkbenchSessions` keeps in `known` the deletions
the page on the screen was told of, and those that came before it was mounted, and
`DeletedIsNotListed` says on both hosts that none of them is offered again. That no deleted session
whatever is offered (`NothingDeletedIsListed`) is false on both (section 8).

| Module | Code | Hazard and property |
|---|---|---|
| `WorkbenchSessions` | sessions in `useWorkbenchController`, `AppShell`, on a page that stays and on one mounted anew | every change makes the list under way old: `ListIsComing`, `DeletedIsNotListed` |
| `WorkbenchCanvas` | `updateCanvas`, canvas events, `CanvasStrip` | a refused optimistic edit is sent again on another canvas: `NothingDroppedUnseen` |
| `WorkbenchContext` | context of the folder for drawer and mentions | two folders under way: `ShownIsOfChoice` |
| `WorkbenchFrame`, `WorkbenchDialogs` | panes and their widths; dialogs and composer | types, focus and limits |
| `PanelPreview` | `GrafanaPanelPreview`: `usePanelQuery`, shared queries | views come, go and change query while an answer is on its way: `ShowsOwnQuery` |
| `FixtureWorkbench` | `fixtureWorkbenchGateway` | whole lists read before a delay: `EndedStays` |
| `FolderShell` | `AppShellContext`, `grafanaFolderGateway`, `resourceClient` | permissions change between two reads, a 403 arrives while a list is under way: `ShownAfterRefusal` |
| `KnowledgePage` | `RealKnowledgePage`, `resourceKnowledgeManagementGateway` | polls, reloads and other selections, reads that fail after they were aborted: `DocumentsAreOfSelected`; `BusyHasWrite` |
| `FixtureKnowledge` | `LegacyKnowledgePage`, `useKnowledgeController`, its fixture | versions, links and imports that play on: `SavesFit`, `LinksAreThere`, `ImportingHasStream` |
| `PlaybookPage` | `PlaybooksPage`, `PlaybookRunsPanel`, `PlaybookEditor`, `usePlaybooksController` | a lost answer and a repeated save: `SavedOnce`; lists of two folders: `ListAppearsForFolder` |
| `SkillsPage` | `features/skills` | a run cancelled beside the stream that saves it: `EndedStays` |
| `GovernancePages` | `features/approvals`, `features/audit` | three writes to a storage that may be full: `DecisionIsWhole`; filters: `ShownIsOfChoice` |
| `AlertsPage` | `features/alerts` | two reads per load, a refresh in between: types (see section 8 for what it does not keep) |

`plugin_pages` mounts each page in turn: seventeen instances, 4.0 million states, no symmetry.
The pages share nothing but the active folder, which each instance lets change at any time;
one mounted page at a time is what `AppShell` shows. The instances of pages with a state of
records are in `SinglePages`, those of the sessions and the canvas and the mounting in `PluginPages`,
which assumes of its constants what the pages assume (`PagesAssumption`); their values are in
`MCPluginPages`: two sessions, folders, filters or views, the fewest that can be mistaken for each other, and
two or three requests under way, so that an old answer can come after a new one. The assumptions say
only that folders are not `None`, that there is one where the page starts in one, and that
bounds are numbers. Two charts
with one edit and one chart with two edits overrun the revision an edit was made on; two keys
and one editor repeat a save; a storage may refuse any write. No fairness is assumed: these
are safety properties, since nobody has to answer a page.

`PluginPages.TypeOK` is each page's type invariant together with the invariants its module
states there. All configurations set `CHECK_DEADLOCK FALSE`: a page nobody uses stands still.

## 8. What the checks found

Each is a run that TLC must find violated, with a property that a document of the repository
states. All five are in `PROJECT.json` under `findings`.

| Run | What happens |
|---|---|
| `retry_strands` | `retry_indexing` creates the job and then sets the status, in two transactions (`service.py:246-247`). The worker finishes the job in between; the document stays queued without a job. |
| `delete_beside_update` | `delete_document` reads the active job once; an update queues another and the worker claims it before the row is deleted. Both calls of `finish_indexing` raise, and the only worker thread ends. |
| `repeated_upload` | The compensation of a failed upload deletes the original that a repetition has meanwhile recorded. |
| `repeated_publish` | A repeated publication is answered with the canvas's present active chart and revision, not with the original ones (`store.go:196`, `handler.go:82`). |
| `orphan_canvas` | A publication admitted before the session was deleted writes after its canvas was removed, and recreates it. |

TLC also refutes these statements, which the modules keep as definitions. They are not among
the runs, so as not to check one module over and over.

| Definition | Statement, and what happens |
|---|---|
| `WorkbenchTurns!PersistedIsTheTruth` | "The persisted aggregate is the terminal source of truth" (`useWorkbenchController.ts:535`). Whether a command was answered is decided by a count of the messages on the page. After a message that never reached the provider the count is too high, and the next completed turn is shown as failed and offered again. |
| `WorkbenchCanvas!EditIsPreserved` | `useWorkbenchController.test.tsx:868`: an edit under way survives the canvas read for an event. It does not when the event comes before the edit's answer. |
| `WorkbenchSessions!LateDeleteStays` | `useWorkbenchController.test.tsx:320`: a late deletion does not take over a newer route. `AppShell` mounts a new page per path (`AppShell.tsx:73`), so the number that guards `deleteCurrentSession` is that of a page which is gone: answered late, the deletion takes the user to the neighbour of the deleted session, from wherever he is. |
| `WorkbenchSessions!NothingDeletedIsListed` | A list never offers a session that the provider has deleted (`useWorkbenchController.ts:935`, in translation: invalidate the detail requests not yet answered, so that the deleted session is not written back to the page). On either host it does after a deletion whose answer was lost: the `catch` keeps the list (`useWorkbenchController.ts:943-948`). Where `AppShell` mounts the page anew it does without any loss: the user deletes a session and goes to its neighbour, whose page reads the list; then the deletion is answered to the page that is gone, which navigates to the path already shown, so nothing is mounted and nothing read. On a page that stays, without lost answers, it holds (2.6 million states). |
| `WorkbenchTurns!SupersededRunsAreSilent`, `SpinnerHasRun`, `FailureIsOffered`, `AnswersSettle` with `Anew = FALSE`, `LateCanvas = TRUE` | "ignores late HITL events after the Session route changes" (`useWorkbenchController.test.tsx:674`). `getCanvas` is awaited and only the route looked at (`useWorkbenchController.ts:473-477`): after a walk from one session to the other and back, a run of the first visit whose canvas arrives late publishes its messages over those just loaded, with an answer that is being written and that its next event leaves there. `AppShell` mounts the page anew, and the gateway rejects what was aborted; either keeps it away. |
| `KnowledgePage!BasesAreOfFolder` | The comment beside the effect (`RealKnowledgePage.tsx:53`): bases of the last folder are not shown. A creation answered late brings the list of its click with it. |
| `PlaybookPage!ActiveIsFollowed` | `PlaybookRunsPanel.tsx:197`: a run that is active is followed. A late first list overwrites a run just started. |
| `SkillsPage!ListIsOfFolders` | `useSkillsController.ts:39`: the list is of the present folders. A reload after a save keeps the folders of its call. |
| `GovernancePages!RejectingIsOfScope` | `ApprovalsPage.tsx:49`: the rejection in the dialog is of the present filters. |
| `AlertsPage!FilterIsKept`, `AlertsPage!AdvancesAreAudited` | `AlertsPage.test.tsx:98` expects the filter the user chose to be there with its list: where the answer changes the path, `AppShell` mounts the page anew without it. `fixtureAlertGateway.test.ts:13` expects an audit event per alert that moves along: an event whose id (`Date.now()`) is taken is dropped. |
| `KnowledgeIndex!ReadyIsIndexed` with `BackendErrors = {"fail", "blank"}` | An indexing error whose `str()` is empty counts as success (`repository.py:548`). |
| `KnowledgeIndex!OriginalMatchesDigest` with two `Payloads` | An original without a row is left by a crash, and by an upload whose tags are refused once the file is in place (`service.py:150`, outside the `try`). A repetition with another file is then recorded with the digest of that file (`service.py:163-187`), and the file on disk is the old one. |
| `KnowledgeIndex!QueuedHasJob` with deletions | `delete_document` cancels the queued job before it removes the chunks; if RAGLite fails there (`service.py:265-266`) the document stays queued without a job until a restart. |

`CodexEvents` shows, without a definition of its own for each, that a handler which replays can
send what was kept after what the hub has sent since (`events.go:69`); that it waits for ever on
the stream it is to read when the hub fills it beside the replay, and the hub behind it
(`events.go:426`); that a stream registered after `stopAll` never ends (`events.go:53`); that an
approval asked of a turn whose reader has left reaches nobody (`events.go:83`); and that a
decision sent between `emit` and the removal of the paused stream (`events.go:113-116`) is
refused as a conflict with its approval already taken (`events.go:349`).

## 9. What is proved

`KnowledgeIndexProofs`, for any numbers of documents, collections, handlers, attempts, jobs
and crashes, from `ConstantsAssumption`:

* `TypeInv` (types, the kind of a job, recovery's limit) is inductive by itself: `TypeCorrect`
  and `RecoveryEnds`.
* `Inv` adds `OneActiveJob`, `JobHasDocument`, `RunningJobIsHeld` and `ReadyIsCurrent`. They
  need each other: a fresh document has no second job because no job outlives its row, a claim
  leaves one running job because the idle worker held none, and what the worker finishes is
  its document's only job. Lemmas say what each kind of step can do (a quiet step, one more
  queued job, fewer jobs, a new status), and there is one step per action.
  Theorems `JobsStayFit`, `WorkerHoldsRunningJob`, `ReadyAtNewestMetadata`.

What section 8 finds broken is not true of all operations, so the other theorems name in their
hypotheses the operations without which it holds, no more. Section 8 has the run or the
counterexample that shows each hypothesis needed.

| Theorem | Holds while | Because otherwise | Invariant |
|---|---|---|---|
| `WorkerLives`, `IndexingIsHeld` | `NoDeletes`: no client deletes | `delete_beside_update` | `KeepInv`: the running row the worker is at work on stays until it finishes, because only a delete takes one away |
| `StatusesHaveJobs`, `LifecycleFollowed` | `OnlyWrites`: clients upload and update | `retry_strands` | `LifeInv`: an active job says what its document does and a queued document has one (`JobsShow`); once the worker has marked its document, only newer metadata sends it back (`WorkerShows`). With it each action maps to a step or a stutter of `KnowledgeLifecycle` |
| `ReadyIsSearchable` | `OnlyWrites`, `ErrorsHaveText`: no error with an empty text | `ReadyIsIndexed` in section 8 | `ChunkInv`: RAGLite skips what it has, and every insert finds nothing of its document there (`WorkerInserts`): a first one, one after a wipe, one after a crash |
| `OriginalsMatch` | `NoDeletes`, `Patiently`: one delivery of an upload at a time, and a repetition brings the same file | `repeated_upload` | `OriginalInv`: a row has its original, and the file an upload may undo is its own |

`Patiently` speaks of behaviours (`Spec /\ []Patiently`), for it limits what clients do and not
what the service makes of it; `index_recovery` has a single handler and satisfies it.

`CanvasProofs`, for any numbers of calls, charts, keys, revisions and any buffer, from
`StoreAssumption` and `ServiceAssumption`:

* `StoreInv` (types, `TablesAgree`, `PositionsAreDense`, `ActiveIsShown`, `WithinLimit`) is
  kept by each transaction: `PublishKeepsStore`, `UpdateKeepsStore`, `DeleteKeepsStore`.
  Density needs that the tables agree, since the new position counts items.
* `Inv` adds what calls and stream know: a call that removes the canvas has seen the session
  gone (`CallsAreSound`), nothing that was read is newer than the canvas while the session
  exists (`ViewsAreOld`), and a view of the present revision has the present charts
  (`ViewsAreExact`). The session matters: removal resets the revision, and only its being gone
  keeps an old view from matching a new canvas. Every action is one of four kinds (a call goes
  on, a transaction, the session, the stream), each with its lemma.
* Theorems `TypeCorrect`, `TablesStayOne`, `PositionsStayDense`, `ActiveStaysShown`,
  `LimitHolds`, `NoLostNotice`, and `EditsSeeEverything`, an action property.

`WorkbenchTurnsProofs`, for any numbers of sessions, runs, tool calls, approvals, refusals and
moves, from `TurnsAssumption` and, as a hypothesis of each theorem, `CanvasHeedsAbort`: an aborted
`getCanvas` does not answer a page that is still there, because the gateway rejects it or because
the host mounts the page anew (`LateCanvas => Anew`). `AppShell` does the latter, so the theorems
hold of the program whatever its gateway does. The properties are about the messages, but
what keeps them is a fact about runs, hence the strengthening
`Inv == TypeInv /\ Numbered /\ PageInv /\ WriterInv /\ OthersInv /\ OfferInv`:

* `Numbered`: runs begin in order, and refs, jobs and approvals name runs that began.
* `WriterInv`: the run that may still write (`live`, not over) is the one in
  `streamControllerRef`; both the page and the copy it will publish have its answer, and no
  other answer in either is being written. If it was aborted, the provider had confirmed it.
* `OthersInv`: every other run that is not over has been aborted. It is what makes the `catch`
  of an overtaken run leave the page alone.
* `PageInv` and `OfferInv`: without a writer nothing spins; what is stopped was confirmed; what
  is offered stands on the page and will stand on what the writer publishes.

Lemmas say what `mapMessage`, the insertion of a tool call and the merge do to a list of
messages; then there is one lemma per action. Theorems `TypeCorrect`,
`StoppedOnlyWhenConfirmed`, `SpinnersHaveRuns`, `FailuresAreOffered`, and the action property
`OvertakenAreSilent`.

`CodexEventsProofs`, for any numbers of handlers, turns, calls and messages and any capacities,
from `ClientAssumption` and `EventsAssumption`, in three layers:

* `TypeInv` adds to the types what they rest on. `CallsFit`: a call is made once, by one
  handler, and an answer to `turn/start` names a turn. `HandlersFit`: a handler has its turn once it is
  known, its stream once it is entered, and steps only while it has one. `StreamsFit`: a stream
  is entered, and written, for its turn. Theorem `EventsTypeCorrect`, which says that no channel
  and no table exceeds its capacity.
* `HeldInv` says who holds a stream: one handler, until it has taken the stream out of the table
  (`StreamsHeld`); and in which order steps come, so that whoever removes a stream has its end
  still to write (`StepsInOrder`). Theorem `EventsMeetReaders`.
* `OnceInv` gives a message a place: the pipe, a queue of the client, the requests known, the
  table of the hub, the steps of a dispatcher, a stream. No message lies in two, and one the
  server has not sent lies nowhere (`SentOnce`). Lemmas say which places each kind of move
  empties and fills. Theorem `EventsNothingTwice`.

`PluginPagesProofs` states every property that `plugin_pages` checks, for any folders, records,
editors and requests under way, from `PagesAssumption`. The mounted page stays mounted and
takes its own steps (`MountedStays`), so a theorem of a page is one of the plugin; and of each
page there is an inductive invariant. Those of the larger pages are in `SinglePagesProofs`.

* `SessionListsCome`, from `WorkbenchSessionsProofs` (a module of its own, since two instances
  use it): a list that is loading has a request that counts or a timer; every action that makes
  the request old also sends another or sets the timer. `DeletedStayUnlisted`, from `SessionsInv`
  of the same module, for both hosts: a page has one deletion of its own under way at a time, and
  neither what is shown, nor a request whose answer counts, nor what that deletion remembers of
  the list has a session that the page knows to be deleted.
* `EditsDropNothingUnseen`, from `WorkbenchCanvasProofs`: the property says only that nothing was
  dropped so far, so `CanvasInv` says why the next edit drops nothing. Whatever is on the page or
  on its way there, an answer, the base of an edit, what a failed edit goes back to, is of an
  earlier revision than the store's or has all the store's charts among those that were seen.
* `PanelsShowTheirQuery`, from `PanelsShowTheirOwnQuery`: a shared query counts exactly the views that
  hold its key (`PanelsShared` in `PanelsInv`), so it is forgotten with the last one only, and a view
  has the last state of the entry it holds. That takes the theorems on cardinalities, since a
  view that changes its query releases one entry and acquires another, or the same one anew.
* `EndedRunsStay`, an action property. From `SkillsInv`: the dialog gives up its stream before it
  asks to cancel, so no stream plays a run that is cancelled. From `FixtureInv`: each request
  reads and writes the storage in one step, so it writes nothing it read before another's.
* `RefusalsAreHeeded` and `ShellActiveIsListed`, from `ShellInv`: a request whose answer counts
  was sent after the last refusal, since the reload makes the others old in the same step.
* `ChoicesAreShown`, from `DrawerInv` and `GovernanceInv`: the request that counts is of the
  active folder, and of the filters there are.
* `DecisionsAreWhole`, from `GovernanceInv`: every decision ends in all three writes or in what
  was there.
* `DocumentsAreOfTheirBase`, from `KnowledgeInv`: each listing under way holds documents of its
  base, which no write changes, and the one that is not aborted is of the selected base.
* `PlaybooksAreSavedOnce` and the action property `ListsAppearForFolder`, from `PlaybooksInv`.
  An editor keeps its key through every write it sends, the keys of editors are those up to the
  number of editors opened, and a playbook that was created has the key of the editor that made
  it; so there are no more such playbooks of a folder than editors. The
  request for a list that counts is of the mounted list and its folder: the choice of another
  folder gives it up in the same step.

* `PagesKeepTheirTypes`: `PluginPages.TypeOK`, the type invariant of every page with the
  invariants its module states beside it. Where that is more than types, it needs an invariant
  of its own:
  * `LegacySavesFit` (fixtures of the knowledge page). Until an import begins the page is in one of
    five phases (`LegacyPhase`): nothing under way; a write; the snapshot after it; the first
    snapshot of a folder; and that one behind a call of the folder before. While a dialog is open
    the page shows what is stored, so the version it sends is the stored one and the service it
    names is there. An import that the page says is running has its stream, for both begin and
    end in one step, also when it is cancelled or the folder is left.
  * `KnowledgeBusyEnds`: only a write sets `busy`, and the write under way clears it; a poll or a
    reload does neither.
  * `SkillsWritesAreAwaited`: a write that is the page's own has the editor it was sent from, or
    the deletion the page shows, and a list behind it; whatever takes the page elsewhere or loads
    the list anew disowns the writes in the same step, and of two lists under way one counts
    (`SkillsTyped`).
  * `AlertsWaitForTheirCalls`: `refreshing` and `saving` are set and cleared with their request,
    of which there is one; a new load makes the one before it old, so no more than one counts.
  * `PanelsQueriesAreCounted`: an entry of the shared queries has the number of the views
    subscribed to it, and its query has passed `Parses`; so its points are at most `MaxPoints`.
  * `FixtureTurnsEnd`: what was said and what is still to be said have together either `done` or a
    request for approval, unless the reader gave up, and nothing comes after `done`
    (`FixtureStream`). Each script has that, and aborting and approving keep it.
  * `PlaybookRoutesAreKnown`, `RunsRoutesAreKnown`, `DialogsAreOfRequests`,
    `GovernanceDecidesOneItem`, `FrameWidthsAreBounded`, `DrawerCountsItsRequests`,
    `OpenIsOfRoute`, `KeepsWhatWasPublished`: types, with one fact each about a request and the
    page that sent it.

So every invariant and every action property of the passing runs is a theorem. Only
model-checked are liveness (`QueuedIsSettled`, `NotificationsSuffice`, `AnswersSettle`,
`CallsEnd`), which is out of the prover's reach, and what the definitions of section 8 say: each
of those is false, and TLC has the counterexample.

## 10. What is not modelled

* The Go adapters of OpenCode and Dagu. OpenCode: a late cancellation aborts the next turn of
  the session (`provider.go:177`). Dagu: check, then act, on an external scheduler. Of Codex,
  the start and stop of the process (`process.go`) but for the close it causes, and what the
  provider makes of answers. `WorkbenchTurns` has the agent only as a provider that may do
  anything to a job; it is not composed with `CodexEvents`.
* The HTTP server, the RAGFlow adapter and the plugin's proxy keep no state across requests.
* Search in the sidecar: it changes no state. It reads the manifest before it reads RAGLite,
  so a document deleted in between may still be found. A deletion that stops between the
  original and the row (`service.py:268`) is in `KnowledgeIndex`, without a property.
* Unused code of the plugin (`legacyResourceWorkbenchGateway`, the playbook fixture, source and
  dialogs, `resourcePlaybookGateway`), which nothing mounts; generated clients.
* RAGLite's embedding, splitting and ranking; Grafana; the agents themselves; Dagu: external.
* Content: texts, names, layouts, times, styles, charts, seed data, where no property is about
  them. A request hash stands for a query's content, a generation for metadata.
* Migrations of the two databases, which run once before anything else; configuration,
  commands and deployment files.
* In `FolderShell` the cycle of refusal and reload is there, but no property says it ends: with
  a backend that refuses what Grafana lists, it does not (`AppShellContext.tsx:87`).
* Composition: the pages are checked beside an external provider or Control Plane, not
  composed with `KnowledgeIndex` and `CanvasService`; each takes from those only what it sees
  (a revision, a status). Larger instances of several components are out of TLC's reach.
