# Formal models of the CMS demo and its collaborative whiteboard

TLA+ specifications of this repository, the TLC configurations that check them
on small instances, and TLAPS proofs of what holds for every instance. Paths
below are relative to the repository root.

## 1. The system

Two applications and the tool that loads them.

**The collaborative whiteboard.** A browser client (`canvas-frontend`, React and
Zustand) loads a board over REST and edits it over a SignalR hub
(`canvas-backend`, ASP.NET Core and Entity Framework on PostgreSQL).

**The demo CMS.** A REST API stores media files, their rows and their tags
(`backend/DemoCms.*`), announces uploads on Kafka, and a worker describes each
picture with a language model and writes the description back. An agent answers
questions about the media with the same model's tool calls. `frontend` is its UI.

**Load generator.** `loadgen/canvas-load` drives headless browsers against both,
with ramps, pauses and a leader that several pods follow.

### Components

| component | state | operations | talks to | what is hard | what makes it correct |
|---|---|---|---|---|---|
| hub: shapes, `BoardHub.cs` | none of its own: the handler's locals, the Shapes table | CreateShape, UpdateShape, DeleteShape | database, SignalR group | handlers of different connections interleave at each await; a lost connection cancels a handler between the save and the broadcast | commits precede broadcasts; a deleted shape stays deleted; a path keeps its geometry; calls end |
| hub: presence, `BoardHub.cs`, `BoardPresenceStore.cs` | connection → board → user, under a lock; SignalR groups | JoinBoard, LeaveBoard, OnDisconnectedAsync, MoveCursor, SetSelection | clients | the snapshot is sent after it is taken; the disconnect handler runs beside a call in flight | the lists of the tabs end up equal to the store; losses are announced |
| geometry validation, `ShapeGeometryValidator.cs` | none | ValidateForCreate | hub | only creation validates | with CopyShape: solid shapes always have a geometry |
| board REST, `BoardEndpoints.cs` | boards table | list, create, get, rename, delete | database | a board deleted under its users, who are not told | no shape outlives its board |
| whiteboard database, `Whiteboard.Infrastructure` | boards, shapes | cascade, seed | | only changed columns are written | as the hub's |
| client: commits and scene graph, `whiteboardCommit.ts`, `CanvasSurface.tsx`, `whiteboardStore.ts` | shapes shown, drags, outstanding calls | draw, edit, remove, drag, apply events, undo | hub | optimistic copies, echoes, undo and events of others on the same shape in any order | when all is quiet, tabs show what is stored; a failed change is undone |
| client: presence list, `whiteboardStore.ts`, `WhiteboardPage.tsx` | users shown | setPresence, addPresence, removePresence | hub | keyed by user, the server by connection | as presence |
| client: page and connection, `WhiteboardPage.tsx`, `boardHubClient.ts` | board in view, client, connection status, timers of the first paint | load, connect, join, rejoin, rename, leave, disconnect | hub, REST | loads and clean-ups that nobody awaits end in any order; one status for all of them | tools unlocked exactly when the page hears its board; no connection is left over |
| client: rendering, geometry, templates | none | pure functions | | | |
| client: telemetry and lag simulation | sessions, journeys, timers | | RUM backend | | |
| media service, file store, event producer, `MediaService.cs` | files, rows, tags, search index | upload, update, delete, get | PostgreSQL, disk, Kafka | several stores written one after the other, each may fail; tags created twice at once | no row without its file; tags as they were sent |
| media worker, `MediaUploadedConsumer.cs` | consumer offset | consume, fetch, describe, put, commit | Kafka, REST, model | skipped failures, restarts, stale read before write | an offset is committed behind messages that were described or given up; every message is taken |
| media query service, `MediaQueryParameters.cs`, `MediaQueryService.cs` | none | search, statistics | database | pages, bucket edges, bounds | pages partition the result; totals agree with groups |
| CMS agent: chat, `Program.cs`, `AgentChatService.cs`, `SseWriter.cs`, `LlmHealth.cs` | rate window, permits and queue, readiness cache, one stream per chat | chat, health | model, REST | clients go away at any await; loop and heartbeat share a body; probes race with marks | permits are returned; streams end once; a mark is heard |
| CMS agent: tools, `MediaToolset.cs`, `PeriodResolver.cs`, `ToolArgs.cs` | none | search, statistics, tags, details | CMS API | arguments of a model, periods, a bounded answer | what a tool asks is accepted, what it hands on is a prefix |
| CMS frontend, `MediaContext.tsx`, `MediaUpload.tsx`, `MediaModal.tsx` | list of media, upload cards, modal | load, upload one or all, edit, save, delete, statistics | REST | answers that come late, handlers that see an old render | a file is stored once; the gallery shows the rows; saves write what was typed |
| load generator: engine, `BrowserLoadEngine.ts`, `VirtualBrowserUser.ts` | phase, map of virtual users, ramp flag | ramps, pause, resume, stop, probes, retarget, sync | browsers, leader | calls, timers and ramps interleave at every await | no user escapes the map; the count is reached; a pause holds |
| load generator: control, `control/server.ts`, `applyConfig.ts`, `leaderSync.ts`, `userSharding.ts` | one configuration per pod | PUT config, scenarios, presets, reload target, follow | other pods | merges that are not validated, changes of target that wait | configurations stay valid; followers catch up |
| deployment, infrastructure, workshop, tests | | | | | |

`PROJECT.json` lists the same components with their status, and the hazards of
the code, each at its line with the properties that would catch it.

## 2. What is modelled

| module | models | composes |
|---|---|---|
| `BoardStore` | the abstract table of shapes: what the hub promises | |
| `ShapeHub` | the shape methods of `BoardHub`, the board's group, the messages to each connection | refines `BoardStore` |
| `ShapeSync` | the tabs: optimistic edits, drags, events, undo, loss and reconnect | extends `ShapeHub` |
| `BoardPresence` | the presence store, groups, join, leave, disconnect, the tabs' lists | |
| `BoardPage` | one browser tab's pages, loads, connections and their status | |
| `MediaPipeline` | the media API over files, rows, tags and Kafka, and the worker | |
| `MediaQueries` | the parser and the evaluation of searches and statistics, as operators | |
| `AgentTools` | the agent's tools, asking that API while the library and the clock move | extends `MediaQueries` |
| `ChatAgent` | admission, readiness, tool loop, stream and heartbeat of the agent | |
| `MediaPage` | the CMS frontend's gallery, upload page and modal | |
| `LoadEngine` | one pod's virtual users and the calls that start and stop them | |
| `LoadControl` | the configurations of all pods | |
| `*_proofs` | theorems about `ShapeSync` and `ShapeHub` (one module), `BoardPresence`, `BoardPage`, `ChatAgent`, `MediaPipeline`, `MediaPage`, `LoadEngine` and `LoadControl` (one module, `LoadGenerator_proofs`), `AgentTools` and `MediaQueries` (`AgentTools_proofs`) | extend these |
| `MC*` | constants of the TLC instances | |

A convention of all of them: where the code has a window in which a property can
fail, the action that opens the window says so in a history variable (`excused`,
`blame`, `torn`, `raced`, `dirty`, ...), and the property speaks of all other
cases. The exceptions are thereby part of the specification: each was found
necessary by taking it out, whereupon TLC shows the run in which the property
fails.

### BoardStore

The table as one atomic thing: a row may be inserted under an id that has never
had one, amended while it exists, erased once, and all rows go with the board.
Paths and meshes have a geometry in every row. An update that comes late, and
finds its shape deleted, cannot bring it back.

### ShapeHub

Each hub call is a record in `call[c]`: the request, how far the handler is, the
entity it has read or saved, and who is still to be sent the broadcast. Handlers
are cut at every await:

| code (`BoardHub.cs`) | actions |
|---|---|
| `EnsureBoardExistsAsync`, `ValidateForCreate` | `FindBoard`, or `Refuse` |
| `FindShapeAsync` | `FindShape`, or `Refuse` |
| `CopyShape`, `SaveChangesAsync` | `SaveCreate`, `SaveUpdate`, `SaveDelete`, or `Refuse` |
| `Clients.Group(...).SendAsync` | `Cast` (the members of the group at that moment), one `Send` for each |
| the method returns or throws | `Finish`, `Refuse`: the answer to the caller |
| `Context.ConnectionAborted` | `Abandon`, at any await of a closed connection |
| `Groups.AddToGroupAsync`, `RemoveFromGroupAsync` | `EnterGroup`, `ExitGroup` |
| `DELETE /api/boards/{id}` | `DeleteBoard` |

A row is cut down to three values: the columns a drag changes, those the
property panel changes, and the geometry. They are kept apart because Entity
Framework's change tracking writes only the columns whose value differs from
the one read (`WriteChanges`); a single value per row would hide that two
concurrent updates mix. `UpdatedAt` always changes, so an update of a row that is
gone always reaches the database, touches no row and throws
(`DbUpdateConcurrencyException`). Besides, any query and any save may fail for the
database's own reasons, an outage or a time-out: `Refuse` may end a handler wherever it
awaits the database. An update's null geometry keeps the one read (`CopyShape`). `TemplateId`, `RotationX` and
`RotationY` are kept the same way, and stand behind the geometry. Clients never
change the type of a shape, so whether a shape is solid is a property of its id.

What is taken from the frameworks, and marked external in `PROJECT.json`:
SignalR starts the calls of one connection one after the other
(`MaximumParallelInvocationsPerClient` is 1, the default); messages of one
connection are delivered in order; a group send writes to its members one at a
time; a connection that is lost leaves its groups and is not waited for by a call
in flight, nor waits for one.

### ShapeSync

A tab has its scene graph `view[t]`, the requests on their way to the hub
`sent[c]`, its outstanding calls with the undo of each (`wait[t]`, the closures
`onRevert`), and the drag in progress.

| code | actions |
|---|---|
| `WhiteboardPage.load`, `getBoard` | `Load` |
| `hub.connect`, `onreconnected` | `Open` (a new connection, then JoinBoard; no reload) |
| `commitShapeCreate`, `placeImage`, `placeTemplate` | `Draw` |
| property panel | `EditFill` |
| Delete key | `RemoveShape` |
| `onPointerDown`, `onPointerMove`, `onPointerUp`, `cancelPointerInteraction` | `PointerDown`, `PointerMove`, `PointerUp`, `PointerUpInVain`, `PointerCancel` |
| hub handlers | `Handle`: `ApplyEvent`, `CallSucceeds`, `CallFails` |
| connection lost | `LinkLost`: every outstanding call rejects, its undo runs |

The hub's own steps are those of `ShapeHub`: each action of the tabs takes one or leaves
the hub alone, so the invariants proved of the hub hold here too.

**Excuses.** The protocol has windows in which a tab can end up showing something
other than the database, for good. The action that opens one adds its
`<<tab, shape>>` to `excused`. The windows are

1. two calls on one shape between the read of one and the end of its broadcast
   (`Contended`): mixed columns, or broadcasts in the opposite order of the saves;
2. an event that is broadcast while the tab has loaded the board and has not
   joined it, or is not connected (`Outsiders`): nothing reloads the shapes;
3. a handler cancelled between its save and the end of its broadcast;
4. a call that fails after something else has touched its shape, which `onRevert`
   overwrites, or at the end of a drag, whose undo was captured when the shape had
   moved already (`CanvasSurface.tsx:347`): the tab keeps the moved shape;
5. a connection lost: the shapes with commits outstanding, which are undone though
   they may have been carried out, and those with an event on its way to the tab
   (`Stranded`), which it never sees;
6. a drag that ends without a commit (`pointercancel`, or the shape was removed
   meanwhile and came back with the next move), or with one that fails at once
   for want of a connection;
7. the board deleted by somebody.

Outside of these, convergence holds over every interleaving of the instances, and each
window excuses the one shape it is about (the last, all of them).
`FailedChangesAreUndone` speaks of the tabs that do not drag, for the reason given
in 4.

### BoardPresence

`boardsOf[c]` is the presence store, by connection; `group[b]` the SignalR group;
`seen[t]` what a tab lists, by user. `JoinBoard`, `LeaveBoard` and
`OnDisconnectedAsync` are cut at their awaits; the store's operations are atomic,
as they run under its lock. A connection may be lost at any time, its disconnect
handler starts while a call is still in flight, and a tab may be back with a new
connection before the server has noticed the loss. `Heard` keeps messages only
for the connection its tab listens to. Two tabs of a browser share an identity
(`getOrCreateIdentity`). A page is on one board at a time per connection.
`beginBoardLoad` clears the list; that is left out, as the snapshot that follows
replaces it.

Its excuses, named at the steps that open them: an event sent while a snapshot
waits to be sent, which then undoes it; an event of the board the page was on
before (events carry no board id); a user who leaves one board entry while
another of the same user is there, or joins while the departure of an earlier one
is being announced; a join in flight when its connection is cleaned up; a leave
cancelled before its announcement.

### BoardPage

One browser tab and its pages. A run of the effect of `WhiteboardPage` is an
element of `loads`, the `BoardHubClient` of a mounted page an element of `clients`,
and all of them write the one connection status of the store.

| code | actions |
|---|---|
| the effect is run, or cleaned up without awaiting `hub.disconnect()` | `OpenBoard`, `Back` (`Dispose`, `Disconnect`) |
| `load()`: fetch, start the connection, join, or the catch clause; the fault scenario s02, which shows the board and returns | `BoardFetched`, `FetchedTooLate`, `FetchFails`, `Started`, `StartFails`; `BoardAbandoned` |
| the answers of JoinBoard and LeaveBoard | `Joined`, `Rejoined`, `Left`, `Refused` |
| `onclose`, `onreconnecting`, `onreconnected`, giving up | `Stopped`, `Lost`, `Reconnected`, `GivenUp` |
| a failed hub call sets the status to "error" | `CallFails` |
| `boardShapeLoadTiming`, the first paint | `Paint` |

`blame` names what may make a settled page wrong, each a gap of the code: a load
that fails after its page has moved on ("stale failure", it shows its error to the
next page); a client that reports for another page ("another client"); a LeaveBoard
that fails before the connection is stopped ("never stopped"); a JoinBoard of a
reconnection that fails unheard ("not rejoined"); and the "error" of a failed call,
which locks the tools of a working connection.

### MediaPipeline

`req[r]` is a request the API is working on, cut at every await of `MediaService`;
`job` is the consume loop of the worker. A request may fail at each of its steps
(`Fail`), the worker restart at each of its own (`Restart`).

| code | actions |
|---|---|
| `MediaController` accepts a request | `StartUpload`, `StartUpdate`, `StartDelete` |
| `UploadAsync` | `Store` (the file is created), `Copy` (its bytes), `Insert`, then tags, `Publish`, `Index` |
| `GetOrCreateTagsAsync` | `Lookup` for each name, `Create` for one not found |
| `UpdateAsync` | `Read`, tags, `Save` |
| `DeleteAsync` | `Unlink`, `Erase` |
| `MediaUploadedConsumer.ExecuteAsync` | `Consume`, `Describe`, `CommitOffset`; a step that fails ends in `GiveUp` |
| `MediaUpdateClient` | `Fetch`, `Put`: an update like a user's, with no tags |

Entity Framework's identity is modelled where it matters: a tag created for one
name is flushed by the look-up of the next (`Create` saves the whole context), so an
update that fails later has already lost the tags it replaces. Histories: `torn`
(cut off between the two stores, or while the file was copied, whose part then stays), `raced` (tags created beside a variant of them),
`mixed` (two requests wrote one media's tags, or one wrote them in part), `wanted`
(the tags last asked for), `handled` (offsets captioned and given up). The worker's
PUT gives only a description, and the API assigns title and description as they
come: it erases the title, here as in the code (`TagsAsWanted` is about the tags,
which a PUT without tags leaves alone).

### MediaQueries and AgentTools

`MediaQueries` has no state: `ParseSearch`, `ParseStats` and `Filter` are
`MediaQueryParser`; `Search`, `Stats`, `TimeBuckets` and `GroupByKey` are
`MediaQueryService`. `AgentTools` asks them, as the frontend does (`AskSearch`,
`AskStats`) and as the tools do (`CallSearch`, `CallStats`, `CallTags`): `Resolve` is
`PeriodResolver`, `IntArg`, `StringList` and `CutText` are `ToolArgs`, `FitList` the
cut of a result to its size. What the API refuses, in the parser or later (a range of
more than `MaxTimeBuckets` buckets, which `TimeBuckets` finds when the rows are known),
is a reply of errors, which the tools hand to the model. Files are uploaded and the clock moves between a
question and its `Answer`. What searches and statistics share is in their field
`filter`, in the parameters as in the query; text that the parser can make nothing of (no
date, no match, no type, no number) is `Bad`. `Sorted` is the order of a set by any key.
`list_tags` has limits of its own (`DefaultListed`, `MaxListed`), and no filter. The
properties compare the answer with a definition that shares nothing with the code's
steps: the rows that a person would say match, and the place of each in the whole order.

Exceptions: names whose capitals lie outside ASCII (the database lowers ASCII only,
.NET all letters), an offset of pages that overflows an int, a row uploaded after the
question read the clock (in the totals, in no bucket). The API refuses what a tool
asks only when the period is empty ("today" at midnight), the content type is none,
a tag is too long, an element of the tags array holds commas and so becomes more
tags than allowed, the limit is "NaN" (which is a double that no clamp catches), or the
range has too many buckets.

### ChatAgent

`req[r]` is a handler of POST /chat or GET /health, with its stream and its
heartbeat; `leases` and `waiting` the concurrency limiter; `used` the rate windows, one
for each client; `health` the readiness cache of `LlmHealth`.

| code | actions |
|---|---|
| rate limiter, validation (`Program.cs`) | `Arrive` |
| `LlmHealth.IsReadyAsync`, its lock and probe; `MarkUnavailable` | `CheckCache`, `TakeProbeLock`, `ProbeAnswered`, `StoreProbe`; part of `EndRound` |
| the concurrency limiter | `Acquire`, `AbandonQueue`; released in `Leave` and `Dispose` |
| `AgentChatService.RunAsync`, `InferenceTelemetryChatClient` | `Start`, `BeginRound`, `EndRound`, `RunTool`, `EndOfAnswer`, `Report` |
| `SseWriter` | `SkipFrame`, `LockFrame`, `WriteFrame`; heartbeat: `Beat`, `LockBeat`, `WriteBeat` |
| disposal of the stream and of the permit | `Dispose` |
| the world: a client goes away, the model's endpoint fails and recovers, the cache or the window expires | `GoAway`, `Flip`, `Expire` |

`health.unheard` remembers a mark that no probe has answered since; a probe that was
already under way when the mark was made may overwrite it, and says so ("inflight").

### MediaPage

The CMS frontend: the list that the whole app shares (`MediaContext`), the cards of
the upload page, the modal, and the rows of the API that all of them approximate.

| code | actions |
|---|---|
| routes, `loadMedia` | `Navigate`, `StartLoad`, `ReadList` (at the API), `LoadArrives`, `LoadFails`, `Retry` |
| `MediaUpload` | `Pick`, `RemoveFile`, `Sweep` (the removal timer), `UploadOne`, `UploadAll`; `StoreUpload` (at the API), `UploadAnswered`, `UploadFails`, `GoOn` to the next card |
| `MediaModal` | `Open`, `Close`, `Edit`, `Type`, `Cancel`, `Save`, `Delete`; `CommitCall` (at the API), `SaveAnswered`, `DeleteAnswered`, `CallFails` |
| `MediaStats` | `Growth`, `Days`, a function of the list |
| the worker, other tabs | `WrittenElsewhere` |

Exceptions: `dirty` (a list read before a commit arrives after it; an answer was
lost; others wrote), `doubled` (the button of a card that "Upload All" has before it;
"Upload All" pressed again while it has; a retry of an upload whose answer was lost),
`undone` (the form was filled from a media that was out of date).

### LoadEngine and LoadControl

`LoadEngine` is one pod: the fields of `BrowserLoadEngine` (`eng`), its map from
index to user (`users`), what each `VirtualBrowserUser` is doing (`user`), and the
calls in flight (`task`), cut at their awaits. A ramp is a part of the call that
awaits it.

| code | actions |
|---|---|
| `rampTo` | `RampTo`, `Probed`, `Plan`, `Climb`, `Awake`, `Descend`, `Stopped`, `Return`, `Throw` |
| `VirtualBrowserUser.start`, `stop` | `OpenContext`, `OpenPage`, `StopUser`, `LoopEnds` |
| `pause` | `CallPause`, `Drain`, `Drained`, `Clear` |
| `resume`, `mergeConfig`, `applyScenario`, RUM, `reconfigureTarget`, `stop` | `CallResume`, `Asked`, `SetUsers`, `SetScenario` and `Onward`, `ApplyRum`, `Retarget`, `Stop` |
| timers: abort monitor, leader synchronisation, target probe | `Monitor`, `Exit`, `Sync` (`SyncUsers`, `SyncTarget`), `Tick`, `Pinged`, `Decide` |
| frontend and leader change | `Flip` |

A launch of the browser, a context or a page may fail at any time: the ramp throws, which
resuming and applying RUM answer by a pause that stops nobody, and the route of a scenario
by a 400; elsewhere the rejection is unhandled, and the process starts again
(`StartAgain`), as it does after the monitor's "exit" (`Exit`; SIGTERM is the same call of
`stop`).

Its exceptions are `collided` (a ramp counts indices from the size of the map, and
may give a user an index that is taken), `muddled` (since the last pause calls overlapped,
or a ramp gave up), `kept` (a ramp, a resume or the start failed, and paused without
stopping the users there are), and, for a pause of the operator, or of the leader on a pod
that follows it (`held`), `raced`: a call that was under way then resumes (a resume; a
scenario of another app, which awaits `reconfigureTarget` and then resumes; a synchronisation)
or leaves the mark on which auto-resume acts, or the process starts again. A user whose
`stop()` comes before its context exists leaves the context open, an "orphan".

`LoadControl` is the pods' configurations: `PutConfig`, `ApplyScenario`,
`ApplyRumBatchPreset`, `ReloadTarget` at the leader, `Fetch` and `MergeSeen` at the
followers, `Retargeted` when the users have stopped, `Boot` and `Restart`. Each pod
plans its share of the users (`PlanFor`). Exceptions: `left` (a scenario was laid over
profiles or shards it does not know of, without validation), `skipped` (a PUT of users
and target together returns before the leader plans anew). A reload that finds the
configuration invalid ends the process, as nobody handles its rejection: `LoadControl`
starts the pod again for it. `LoadEngine` has no configurations, and its reload is a pause
that ends.

## 3. The runs

| run | instance | shows |
|---|---|---|
| `hub` | 2 connections, 1 path, 4 calls, null and real geometries | `TypeOK`; `PersistedBeforeBroadcast`; `SolidShapesKeepGeometry`; `ImplementsBoardStore` |
| `hub_order` | 2 connections, moves of 1 shape | *violation* of `LastEventIsStored`: the last event is not the stored row |
| `sync_edits` | 2 tabs, 3 connections, 2 shapes, 4 calls, 2 outstanding in a tab | `SyncTypeOK`; `ConvergesUnlessExcused`, `EchoPrecedesAnswer`, `AnswersMatchCommits`, `FailedChangesAreUndone`, across a reconnect |
| `sync_drag` | 2 tabs, one drags, 3 calls, fair | convergence with drags and calls that fail; `EveryCommitSettles` |
| `presence` | 2 boards, 2 tabs, 3 connections, 2 calls, 2 losses, two of the connections on a board from the start, fair | `TypeOK`; `PresentHear`: who is shown hears; `ListsMatchStoreUnlessExcused`, across changes of board and a reconnect; `LossIsCleanedUp`: store and groups forget a lost connection, and the tabs that remain see its user go |
| `board_page` | 2 boards, 3 loads, 2 pages, 2 faults | `SettledPageIsTrue`: tools, connections and first paints are right once all has settled; loads may fail or be abandoned |
| `media` | 2 media (one stored, one text), 2 requests at once, 2 spellings of a tag, 2 requests, 1 mishap, fair | `MediaTypeOK`; `FilesMatchRows`; `CaseTwinsOnlyByRace`; `TagsAsWanted`; `CommittedWereHandled`; `EveryEventIsTaken` |
| `queries` | up to 3 rows, 1 calendar with a month's end, every kind of question | `FoundAsAsked`, `StatsAddUp`, `ToolQueriesAreAccepted` |
| `agent` | 2 requests of 1 or 2 clients, 1 permit, queue of 0 or 1, 1 round with tools, fair | `PermitsReturn`, `StreamsEndWhole`, `RunsAreAccounted`, `MarkIsHeard`, `EveryRequestEnds` |
| `page` | 3 files, 5 budgets of loads, uploads, edits and faults | `StoredOnceUnlessExcused`, `GalleryMatchesRowsUnlessRaced`, `NoSilentUndo` |
| `load` | target 2, 2 calls in flight, 2 calls, 2 flips, failures at any launch, context or page, fair | `NoUserEscapes`, `RestsAtTarget`, `PauseHolds`, `RampsEnd` |
| `control` | 2 pods, 2 operations, 1 restart, fair | `ConfigsAreValid`, `FollowersCatchUp` |

**Bounds.** Each is a constant that a guard names: `MaxCalls`, `MaxWait`,
`MaxLosses`, `Draggers` (whiteboard), `MaxLoads`, `MaxClients`, `MaxFaults` (page),
`MaxRequests`, `MaxMishaps` (media), `N`, `MaxFlips`, `MaxExpiries`, `MaxBeats`,
`MaxGone` (agent), `Budgets` (frontend), `MaxCalls`, `MaxFlips` (engine), `MaxOps`,
`MaxRestarts` (control), `Horizon` and the sets of questions (queries).

Two actors give every pairwise interleaving, and the hazards listed are pairwise: two
handlers on a shape, two requests on a tag, a call and a ramp, a chat and the one it
keeps waiting. In the whiteboard, four calls let both tabs join and edit one shape at
once, or one draw a shape and edit it before the first answer, or lose its connection
and go on; the second shape of `sync_edits` lets answers be told apart, and its third
connection is what a reconnect needs. Three loads and two pages let a change of board
overlap a change of page. One mishap, at any await, covers each point where a request or
the worker can be cut off; two spellings of a name are what a race between look-up and
save needs. In `queries` the limits are small numbers (a page of 3, 4 buckets, an int
of 15), so that every limit is met and passed. Two requests and one permit make the
queue fill, overflow and be abandoned. The passing runs explore between 61,000 states
(`control`) and 1.6 million (`page`), all that the instance has. What grows with more
connections, requests or media is the subject of the proofs.

**Symmetry.** Interchangeable connections (`hub`, `sync_edits`), boards (`board_page`)
and cards (`page`) are permuted, in runs without liveness properties only. `board_page` does
not follow states of which its property says nothing any more (`Unblamed`: `blame` only
grows).

**Fairness** is weak, of steps that stay enabled until they are taken, and never of
users, losses, failures or restarts.

- `SyncFairSpec`, `BoardPresence!FairSpec`: the server runs the calls it has started,
  SignalR dispatches what it has received, a browser handles its messages.
- `MediaPipeline!FairSpec`: the API goes on with its requests (they fail or end) and
  the worker with its message; the consume loop has no other exit.
- `ChatAgent!FairSpec`: a round and a tool end by the deadline of the request, a probe
  by its own of two seconds, a write by the server's minimum data rate; the limiter
  serves its queue oldest first.
- `LoadEngine!FairSpec`: promises settle (Playwright's have time-outs), timers fire, a
  profile that is told to stop comes back.
- `LoadControl!FairControlSpec`: the interval timer of a follower fires, the leader answers,
  the users of a pod stop.

**Deadlock** is checked in `agent` and `queries`. The other instances stop once the
users' budgets are spent, which is the system at rest.

### Disagreements with the documentation

`hub_order` is a run of its own: `spec/components/whiteboard-api.md:87` promises
last-write-wins per shape, and the broadcasts of two updates may leave in the opposite
order of their saves, so that every tab shows the overwritten shape. The others are
named exceptions of the properties:

- two updates that read the same row merge column by column (`Contended`), where the
  same line promises that the last one wins;
- `spec/components/whiteboard-canvas.md:59` promises the undo of a change whose call
  fails; the undo of a drag is captured after the drag;
- `whiteboard-api.md:86` promises that a disconnect is announced on every board joined;
  a JoinBoard in flight enters the store after the disconnect handler has cleaned it;
- `whiteboard-api.md:85` says presence is keyed by connection; clients drop it by user,
  so one of two tabs of a browser takes the other's entry away.

### What else a maintainer should know

Gaps of the code that the exceptions and comments of the modules name:

- *Media.* Two names of a request that lead to one tag make it fail after the row and
  the file are stored (`MediaService.cs:121`); an update that creates a tag and then fails
  has lost the old tags (`:413`); a deletion unlinks the file before the row.
  The worker's PUT erases a title (`MediaService.cs:180`).
- *Agent.* A probe in flight overwrites a mark, and a cancelled one caches "not ready"
  (`LlmHealth.cs:81`).
- *Queries.* `(page - 1) * pageSize` overflows an int (`MediaQueryService.cs:38`).
- *Frontend.* "Upload All" works on the cards it saw, and can be pressed again while it is
  at one that was removed (`MediaUpload.tsx:200`, `:282`); a retry after a lost answer
  stores twice; an answer to a deletion closes whichever media the modal shows by then.
- *Load engine.* `rampTo` numbers new users from the size of the map
  (`BrowserLoadEngine.ts:590`); `stop()` before the context exists leaks it
  (`VirtualBrowserUser.ts:148`); a resume while a pause drains (`:282`), and two resumes at
  once (`:286`), both ramp; a resume that fails says "paused" with users running (`:297`);
  a probe takes over an operator's pause (`:646`).
- *Load control.* Scenarios merge without validation (`BrowserLoadEngine.ts:365`); a PUT of users and target
  returns before the plan is made (`:487`); `void reconfigureTarget` leaves a rejection
  unhandled (`:491`); a PUT of `shard.count` 1 makes every follower its own leader
  (`shard.ts:14`).

### Faulty variants

Beside some definitions stands a variant named for a plausible mistake in the code
it models (`CopyShapeNullGeometry`, `FindBoardThenCast`, `LookupExactly`,
`DrainHasty`, ...). The models do not use them. `PROJECT.json` pairs each property with
one: put in the place of the definition, it makes TLC find the property violated.

## 4. The proofs

Eight modules prove, for any values of the constants that satisfy the named
assumptions (which TLC evaluates in every run), 35 theorems a reader should know of:

| module | theorem | states |
|---|---|---|
| `ShapeSync_proofs` | `TypeCorrect` | `TypeOK` always holds |
| | `BroadcastsArePersisted` | what was or will be sent about a shape was committed |
| | `GeometryIsKept` | solid shapes have a geometry, in the table and in every event |
| | `HubImplementsStore` | the interleaved handlers implement `BoardStore` |
| | `SyncTypeCorrect` | a refused call finds its commit, on a shape of the board |
| | `AnswersReachCommits` | each answer finds the commit it is for |
| | `EchoesComeFirst` | the event of a commit arrives before its answer |
| | `FailuresAreUndone` | a refused change is undone, in tabs that do not drag |
| | `TabsConverge` | settled tabs show what is stored, unless excused: `ConvergesUnlessExcused` |
| `BoardPresence_proofs` | `PresenceTypeCorrect`, `PresentAlwaysHear` | who is on a board's list while its connection lives is in the board's group |
| | `ListsComeToMatch` | settled lists are the store's, unless excused: `ListsMatchStoreUnlessExcused` |
| `BoardPage_proofs` | `SettledPageIsAlwaysTrue` | a page that has settled is what it shows, and first paints were measured unless the load failed or was abandoned: `SettledPageIsTrue` |
| `ChatAgent_proofs` | `AgentTypeCorrect`, `PermitsAreReturned` | a permit is held exactly while a chat runs, and none is free while a request waits |
| | `StreamsEnd` | a stream has one ending, its outcome's; frames never interleave |
| | `RunsAreCounted` | every round is measured, every run counted once |
| | `MarksAreHeard` | a mark is undone only by a later probe, or one it raced |
| `MediaPipeline_proofs` | `MediaTypeCorrect`, `FilesAndRowsMatch` | files and rows part only within, or by the failure of, an upload (its copy included) or deletion |
| | `TwinsComeFromRaces` | tags that differ in case come from requests that raced |
| | `CommitsAreHandled` | a committed offset passes only messages that were captioned or given up (a message given up after a failure is lost) |
| | `TagsAreAsWanted` | a media that nobody writes has the tags last asked for |
| `MediaPage_proofs` | `FilesAreStoredOnce` | a picked file is stored once, unless excused: `StoredOnceUnlessExcused` |
| | `GalleryComesToMatch` | settled galleries and statistics are the rows', unless they raced: `GalleryMatchesRowsUnlessRaced` |
| | `NothingIsUndone` | a form opened up to date writes no old text back: `NoSilentUndo` |
| `LoadGenerator_proofs` | `NoUserIsLost` | a user with an open browser context is in the engine's map |
| | `PausesHold` | no probe, monitor, ramp, scenario or synchronisation undoes a pause, unless a call under way then does, or the process starts again |
| | `RestIsAtTarget` | an engine whose calls did not overlap and whose ramps did not give up rests at its target; a paused one has no users, unless what failed paused it |
| | `ConfigsStayValid` | what is in force on a pod passes the validation: `ConfigsAreValid` |
| | `SharesAreFair` | pods that follow the leader run its users without overlap or gap, for any number of pods |
| `AgentTools_proofs` | `ToolsInvariant` | a question under way may be asked, and its reply is a refusal for its errors or its answer |
| | `PagesAreWhatWasAsked` | a page holds the rows that were asked for, at its places of the whole order: `FoundAsAsked` |
| | `ToolsAskWhatIsAccepted` | a tool's query is refused for the named reasons only: `ToolQueriesAreAccepted` |
| | `StatisticsAddUp` | groups are the rows', each of its size; time buckets go from the start of the range to its end without a gap, and each counts its own rows: `StatsAddUp` |

None of the invariants is inductive alone. Each module proves the conjunction that is,
checked by TLC first, with one lemma for each action or family of actions.

**ShapeHub** (`Inductive`; `HubAssumption`: rows, requests and the three markers are
told apart, payloads are rows, a seeded solid shape has a geometry). The two
strengthenings are

- `IdsAreFresh`: every id that has or had a row was minted, and the id of a create
  call that has not saved is nobody else's. Without it a create could insert over
  a row, or announce a shape under an id of somebody else's.
- `CallsHoldSoundRows`: a handler past its reads holds a row, with a geometry if
  the shape needs one. This is what carries the geometry through an update: the
  payload brings none, the row that was read did, and `WriteChanges` takes each
  column from one of the two.

From there, a step of the hub is a step of `BoardStore` or leaves the table alone
(`NextStore`), and what such steps keep is proved once (`StoreSteps`): rows keep
their geometry, and an event that is true of the table stays true
(`CommittedStays`). Messages are handled by `PostKeeps`, `TailKeeps` and
`OutboxSteps`: what holds of everything on its way and of what is being written
holds of everything afterwards. Refinement and invariance are proved by the same
step lemma, `NextInductive`.

**ShapeSync** (`SyncInductive`, which contains `Inductive`; `SyncAssumption`: the updates of
the tabs are updates of the hub, the markers are told apart). For each tab with a
connection the invariant relates its commits to three queues that hold them in this order:
the answers in the outbox, the call under way, the requests not yet dispatched.

- `Agree` is `AnswersMatchCommits` for one tab, as an operator of the four queues.
- `Echoed`: an answer that says "ok" has an event on its shape before it, or the commit
  was touched already; the same holds of the call under way once its broadcast has passed
  its own connection. For that the connection must be in the group when the broadcast
  takes its recipients: `Joining` says that a connection outside the group has its join
  still ahead of everything else.
- `LinksSound`: no connection is two tabs', and a tab without one waits for nothing.
  `UndosSound`: the undo of a commit is the shape before it; only a drag breaks this.

The lemmas on `Agree` and `Echoed` speak of sequences alone and count the answers with
`Rank`, by cardinality, which needs no recursion. `ServerTells` shows that a step of the
hub does one of five things to a connection; each action then has a lemma of its own.

`ConvergesUnlessExcused` speaks of settled states alone, and needs a second invariant on top,
`Convergence`, for every tab and shape that is not excused (TLC checked it first, on the
constants of both `sync` runs):

- `Uncontended`: one call at most is between the save of the shape and the end of its
  broadcast, what it announces is the stored row, and what a handler read before its save
  still is. So `WriteChanges` writes exactly what the handler then broadcasts; a save while
  another call is past its read is the gap that `HubStep` excuses.
- `Shows`: the tab shows the stored row, or drags the shape, or an event on it is still to be
  sent (`ToTell`) or handled, or a change of the tab is not saved yet or was refused
  (`Unsaved`).
- `FoundRight`: unless an event is to come, what a clean commit or a clean drag found is the
  stored row, and a clean refusal is that of a creation, which is undone to no shape, as
  stored: the shape an update or a deletion found cannot have gone without an event. So the
  undo of a drag, taken late, is never the last word on a shape that is not excused.
- `LastTells`: the last event on its way tells the stored row.

All four are operators of the queues of one tab (`Converging`), with lemmas about sequences
alone; the lemmas `...Converges` then take the actions of the tabs and of the hub one by one.

**BoardPresence** (`PresenceInductive`; `PresenceAssumption`). A connection enters the
group before the store and leaves the store before the group; that is `PresentHear`, once
it is known which awaits a handler can be at (`CallsHold`: a join that is past its group
is in it) and that a connection that has ended, or is ending, is in no group (`Ends`).

The lists need what is still under way (`ListsInductive`). `Told` is what a queue will have
said of a user when it is handled, by its last word and so without recursion. `ListSound`:
a user in the store is shown, or will be, to each tab on the board, or a call is still to
tell that connection (`Coming`), or the user's connection is lost and its handler will speak
(`Ailing`); a user who is not in the store and is shown is about to be taken away
(`Going`). `StoreSound` is why those calls find the store as they left it: one board at a
time, joins after which nothing else of that user leaves, unless the step said so in
`excused`.

**BoardPage** (`PageInductive`: while nothing is to blame, `PageSound`). The property
speaks of settled states alone; what leads there is that a client is the one of the page in
view, or has stopped, or is `Leaving` (stopping, or about to when its LeaveBoard is
answered), and that no step takes it from there back to a connection that stays
(`ClientSound`). `HereSound` says the same of the page in view: its connection joins the
board, joins it again after a reconnect, or has done so, and the status tells which.
`TimersSound` ties the first paint to the load that waits for it. Steps that add to `blame`
owe nothing; the others keep each part.

**ChatAgent** (`AgentInductive`; `AgentAssumption`). `HandlersSound` says what each step of
a handler implies of its fields, in four parts (before the stream, rounds, stream and
heartbeat, counts); `LimiterSound` that the leases are the handlers that run, that the
queue holds the requests waiting, each once, and that it is empty while a permit is free;
`CacheSound` who probes. A permit handed over by the limiter is the delicate case: the
lease passes from one request to another in one step, and the queue's order without
duplicates is what keeps the count.

**MediaPipeline** (`MediaInductive`; `MediaAssumption`: markers told apart, finitely many
media). `FilesSound` adds to the property that an id belongs to one upload at a time and
that a request between its two stores works alone on its file; `TagsSound` that a request
about to create a tag has seen no variant of it, or races with the one that made it;
`JobSound` ties the worker's message to the offset.

`TagsAsWanted` needs a second invariant on top of it, `WantedSound`: the tags a request has
in hand, with those still to look up and to make, are those it was given (`TagsInHand`); a
media that no two requests have mixed has one request at a time that writes its tags
(`OneWriter`), the row that this one has read is still the row (`SnapshotsHold`), and only
the one that has removed the old tags may leave the row without (`TagsAreThere`). The
assumption that no set of names is the marker `NoTags` is used here.

**MediaPage** (`PageInductive`; no assumption on the constants is used). `Once`: a row, a post
on its way and a place in a loop of "Upload All" are the things that may store a card; there
is one of them at most, and while the card is offered for upload it has at most a place in a
loop. The attempt to prove it showed what two cards could not: while "Upload All" is at a card
that was removed, or that its own button had finished, no card shows that it is uploading, so
the button can be pressed again (`disabled={files.some((f) => f.isUploading)}`), and the cards
that both loops have before them are stored twice. That is now one of the recorded exceptions,
and `page` has the three cards it takes. `GallerySound`: the list differs from the rows by the
answers still to come, and nobody knows of a row whose upload is unanswered. `ModalSound`: of
a form that was opened up to date and not filled since, one request is under way, its own, and
none beside one that carries the text as it was opened. What `Kept` selects (the elements of
the set, each as often as before, in any sequence) is a recursive function of the length, and
its lemmas take the least length at which they would fail.

**LoadEngine** (`EngineInductive`; `EngineAssumption`: a scenario has at least one user, as
`normalizeUsers` in `usersConfig.ts` sees to, and the markers are told apart). `Structure`
says what the locals of every call in flight are worth at its await, for any overlap of
calls: the user it is opening or stopping, the indices it still has to stop, and those a
pause has been at, which hold no user that clearing the map would lose. `PauseSound`: while
a pause holds, the engine is paused, the target is not marked down, and no call in flight
is resuming or will resume. `PausedSound`: users that are left while the engine is paused
are those of a ramp or a resume that failed, or a pause is stopping them. `RestSound`: while
calls have not overlapped, and no ramp has given up, since the last pause, there is one call at most, and it is at a point from which its ramp ends
at the target (`AloneIn`, await by await); a ramp down needs that the indices it has chosen
are as many as the users too many, which is a fact about sets of numbers (`FirstAreMany`),
proved by the well-foundedness of < because the library's induction theorem takes an
operator.

**LoadControl** (`ControlInductive`; `ControlAssumption`: the configuration file has users
enough for the pods, as `loadConfig` refuses one that has not, bodies and targets are of
the types the routes accept). What is in force on a pod is valid or was `left` so by a
scenario, and so is each configuration a follower has fetched and will lay over its own:
laid over, nothing that is validated is left of its own (`OverAll`), and resolving a target
touches none of it. `SharesAreFair` is about `PlanFor` alone: shares rounded up are
consecutive blocks of numbers, and the last gets what is left; for shares that fit (with
more pods than users need, those before the last run more than was asked for, which is the
precondition that `FollowersCatchUp` has too). A change of target that waits for a pause may bring any target, for it
is resolved when it is put in force. The operators on configurations, whose fields may be
missing, have a lemma each.

**AgentTools** (`ToolsInductive`). A question is asked and answered in two steps, so the
invariant is short: the rows have ids of their own and finitely many tags (`LibrarySound`),
the clock has not gone back behind its start, and the question under way is none, was
refused by its tool, or may be asked (`Legit`: one of the frontend's, or what the tool makes
of a call at an instant that has been) and has as reply the errors of its parse, nothing
yet, or `AnswerTo` it from the library as it stands (`QuestionSound`). No property follows
from that alone; each is then a fact about the operators, for any values.

- *Pages.* `LoadIsWanted`: what the query loads is what a person would say was asked for, if
  the names are spelled so that the database can lower them. `OrderExists` and
  `PlacesInOrder`: a finite set has a sequence in the order, and an element stands in it
  behind as many as precede it; so the page that `Skip` and `Take` cut has the places it
  should, and what a tool hands on is a prefix of it. `Offset` is what it says as long as
  it is an int, which is the exception the property names.
- *Tools.* The period of a call is in order unless it begins now or later
  (the calendar: Mondays and firsts of months are not after their day, the month before is
  before); the text is cut and the number clamped to what the API takes; the tags, one
  name in each element, are no more than `ToolTags`.
- *Statistics.* A row is in the group of each of its keys, once; groups by count, then
  name, so the cut drops none larger than it keeps. Buckets grow with the days
  (`BucketsGrow`), so those of a range are consecutive and the last begins before its end;
  each row that the clock's reading precedes is in one of them, and a sum of sizes of
  disjoint sets is the size of their union (`CountsAddUp`).

These are facts about data of any size, which the library's induction theorems would give
if they could be used. Sequences in order are built from the ranks of the elements instead,
by cardinality, and the fold behind `MapThenSumSet` is shown to count by a function that
satisfies its recursive equation and by the least set, by the well-foundedness of <, on
which another one could differ.

The assumptions are what the code guarantees or the model means: lowering a name is
idempotent and keeps its length; a family of content types ("image") is none itself;
the limits of the tools are within those of the API (10, 20 and 50 against pages and
lists of 100, 5 tags against 5); a text too long can be cut to the maximum; a month has
begun before the clock starts (the calendar of the model begins at the start of a year);
the instants the frontend sends are not before that; media have finitely many tags; the
markers are told apart.

**Only model-checked:** liveness, since fairness and ENABLED are beyond the prover:
`EveryCommitSettles`, `LossIsCleanedUp`, `EveryEventIsTaken`, `RampsEnd`,
`EveryRequestEnds`, `FollowersCatchUp`. Every safety property of the passing runs, and each
refinement, is stated by a theorem.

## 5. What is not modelled, and the plan

- *Whiteboard.* MoveCursor and SetSelection (they change nothing on the server); creating,
  listing and renaming boards; text edits, which are property edits with an editor open;
  shapes dragged together, each sent in a call of its own; the mode without optimistic
  copies and the delays of the lag simulation (`applyLagDelay`), which may reorder the
  calls of a tab; the churn scenario.
- *CMS.* File formats and sizes, start-up and migrations, prompts and the protocol of the
  model, the details tool, the chat panel, the tag filter of the gallery.
- *Load generator.* A browser that crashes or disconnects under its users, and a context
  that fails to close, whose rejection a user's `stop()` passes on
  (`VirtualBrowserUser.ts:148`); what a virtual user does in its page, its report loop, provisioning
  and clean-up of boards and media, the boards mode and the RUM batch that followers do
  not mirror.
- *Not planned.* Rendering and floating point geometry (`canvasMath`, `renderers`,
  `mesh3d`), the catalogue of templates, telemetry exporters, styles; deployment manifests,
  dashboards, the workshop and the end-to-end tests, which hold no state of the program.

Next: the lag mode of the tabs.
