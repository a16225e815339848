# Toide in TLA+

Toide is a desktop development environment (Qt 6, `client/`) with a collaboration server (Drogon, `server/`).
This directory models the parts of it in which several processes, threads, callbacks or messages meet, checks
them with TLC on small instances, and proves the most important properties with TLAPS for every instance.

## 1. The system

### Components, their state and their operations

| Component | Code | State it keeps | Operations |
|---|---|---|---|
| Collaboration rooms | `server/src/api/collaboration_ws_controller.cpp` | per project the list of members (`g_rooms`), per project and user a reference count (`g_userPresenceRefCount`), both under `g_roomMutex`; per connection a `WsCollabContext` | accept or refuse a WebSocket, nine message types, close; `broadcastToRoom` |
| Redis collaboration store | `server/src/collaboration/redis_collab_store.cpp` | presence set per project, session hash per client id (900 s), cursor (120 s) and soft-lock (90 s) keys | one or two commands per call; failures are logged and swallowed |
| Client member list | `client/src/collaboration/collaboration_panel_widget.cpp` | `remotePeers_`, `localClientId_` | apply roster, joined, left, file changed; report the current file |
| File versions | `server/src/api/workspace_files_controller.cpp` | table `workspace_file_versions`, unique key on (project, path, version) | save against a base version; query version, manifest, latest content |
| Client synchronisation | `client/src/app/main_window.cpp`, `network/network_client.cpp`, `editor/` | text and `serverDocVersion_` per tab, files on disk | save, upload, version refresh, conflict dialog |
| Collaboration channel | `client/src/network/collaboration_websocket_client.cpp` and the panel | socket, reconnect timer, two flags, last URL | connect, disconnect, reconnect, sign out, change of address or project |
| Live editing | the panel and `editor/` | the text of each editor | whole-text patches to and from the room |
| Workspace pull | `main_window.cpp`, `network_client.cpp`, `workspaces_controller.cpp` | pull list, one-shot signal handlers | list, create, pull a workspace |
| Accounts | `server/src/auth/`, the login dialog in `main_window.cpp` | `users` table, `g_usersByName`, tokens in memory; the session of a client | register, login, resolve a token; sign out |
| Task runner | `client/src/task_runner/` | one `QProcess`, three buttons, an output buffer, the diagnostics found in it and the links of the view | load the tasks of a project, run a task or a command, stop, finish, follow a link |
| Compile and run | `client/src/workspace/workspace_compile_widget.cpp` | the program of each project in `.toide-build` | check all sources, link and run, with time limits |
| File explorer | `client/src/file_explorer/file_explorer_widget.cpp` | root, current index, single shots that are pending, the dialog that is open | show a project, create files and folders, note a file that was saved |
| Main window around a project | `client/src/app/main_window.cpp`, `workspace/workspace_manager.cpp` | the open project, the tabs | open a project in every widget |
| Small stores | recent projects, workspace file, endpoint settings | `QSettings`, one JSON file | load, add, save |
| Git status, health, start-up | the remaining files | nothing that survives a call | widget code and I/O |

### How they interact

A client signs in over HTTP and gets a token.  With it, it opens a WebSocket to the room of its project; the
server puts the connection in the room, keeps the user in the project's presence set in Redis, sends the roster
to the newcomer and tells the others.  From then on cursor moves, edits and file changes are relayed to the
room.  Independently of the channel, a save writes the tab to disk and uploads it with the version the tab
believes to be the latest; the server accepts it if that version still is.  The server runs its handlers on
several IO loops (`number_of_threads`, 2 in `server/config/server.json.example`): callbacks of connections
of one loop run one after the other, those of different loops in parallel. While the channel is open, what is typed in one
editor travels as a whole text to the other members of the room, whatever projects they show.

Inside a client there is one thread.  Its widgets meet in the main window, which tells all of them which project is
open, and through nested event loops: while a menu, a question or a warning is open, timers, processes and replies
are served, and the end of a pull opens a project.

### What is hard

The list with the lines where each bites is in `PROJECT.json` under `hazards`.  In short: state read under the
room lock and used after it; two IO loops; a restart between two steps; Redis and MySQL statements that fail or
whose answer is lost; replies that overtake each other; a timer that races the user; a process that comes up after it
was given up or is killed when its time is up; a dialog that is left open while the world under it changes; work that
outlives the sign-in or the project it belongs to.

## 2. Plan

The most important behaviour comes first: what the server does for several clients at once, then what a client
does with it, then the parts that one process has for itself.

| # | Modules | Composes | Abstract specification | Theorems |
|---|---|---|---|---|
| 1 | `CollabRoom`, `PresenceSet`, `CollabRoomProofs` | rooms + Redis | – | types, membership, reference counts, distinct ids, delivery, presence set, session keys (done) |
| 2 | `PresenceView`, `CollabRoomProofs` | `CollabRoom` + the client's list | – | lists match the rooms, the results of the room in the composition (done) |
| 3 | `AtomicVersions`, `FileVersions`, `FileVersionsProofs` | – | atomic append to a log of versions | types, no lost update, refinement (done) |
| 4 | `ClientSync`, `ClientSyncProofs` | clients + `AtomicVersions` | – | saves take effect in the order they were sent, conflicts are with others, a tab knows its own saves (done) |
| 5 | `ChannelClient`, `ChannelClientProofs` | socket, timer, panel, account, the server's end | – | a wanted channel is pursued, an ended one stays so, the panel tells the truth (done) |
| 6 | `LiveEdit`, `LiveEditProofs` | editors + panel + room relay | – | types, nothing typed elsewhere is sent, texts stay in their project, those who take turns agree (done) |
| 7 | `WorkspacePull`, `WorkspacePullProofs` | main window + HTTP client + two controllers | – | types, no pull is left hanging, the index stays in the queue, a pull that runs alone is complete (done) |
| 8 | `AtomicAccounts`, `AuthService`, `LoginDialog`, `AuthServiceProofs` | service + database + dialog | calls that take effect at one moment | refinement, accounts and tokens stay, refusals have a reason, the session is the latest (done) |
| 9 | `Projects`, `TaskRunner`, `FileExplorer`, `CompileAndRun`, `Workbench`, `WorkbenchProofs` | three widgets + main window | – | all safety properties of the widgets and of the window (done) |

All of them exist.  They follow one pattern: constants with named assumptions, one action per
operation, no recursive operator where something is to be proved, an MC module and a configuration per question.
What comes next, if the code grows: a room that a client leaves when it opens another project, and version queries that
fetch the text along with the number; both would turn an exception named in section 4 into a property.

## 3. Modules and the code

### CollabRoom

One action per stretch of a handler that no other callback can interrupt:

* `NewConnection` is `handleNewConnection` up to the release of `g_roomMutex` (lines 273-297): a distinct client
  id, the member, the reference count and the roster text.  `PresenceUserJoin` (SADD), `SessionSet` (HMSET),
  `SendWelcome`, `SendRoster`, `CopyRoom` and `SendToMember` are the rest of it, in this order.
* `Heartbeat`, `CurrentFile` and `Relay` are the branches of `handleNewMessage`.  `Relay` stands for cursor, patch,
  soft lock, file saved and join, which are stamped with the sender's identity and broadcast; `MarkSet` is the
  Redis key that a cursor or soft lock with a file leaves.
* `ConnectionClosed` is `handleConnectionClosed` up to the release of the lock; `SessionClear` (DEL),
  `PresenceUserLeave` (SREM) and the broadcast follow.
* `RedisFails` skips any Redis command, `SessionExpires` and `MarkExpires` are the TTLs, `ServerRestart` forgets the
  memory and keeps Redis.

`pc[c]` says where the callback of connection `c` is.  A callback starts only when no other callback of the same
loop runs (`LoopIdle`), so one loop serialises and two loops interleave.  `rooms`, `refCount`, `ctx` and
`currentFile` are `g_rooms`, `g_userPresenceRefCount`, the context and `RoomMember::currentFile`; `outbox` is what
was sent on a connection and not yet read.  A room is a set where the code has a vector: nothing depends on the
order of its members but the order of sends, and `SendToMember` takes the copied members in any order.
Reference count 0 stands for an absent entry.  The text of a message is reduced to its type, project, client id and
file; user names, time stamps and the size limit of a patch are left out.

### PresenceSet

`CollabRoom` with a record of what it decides and does about the presence set: `latest` is the SADD or SREM that the server
decided on last for a user (`DecideOnJoin`, `DecideOnLeave`, under the lock), `carried` the one that Redis carried out
last (`CarryOut`, after the lock was released).  With several loops the two orders differ.  `Forget` is a restart.

### PresenceView

Adds the client to `CollabRoom`: `Receive` reads the next message of a connection and applies it to `peers`
(`remotePeers_`) as `onWebSocketMessage` does, a roster also makes the client report its current file
(`collaborationRosterSynced`), `TakeReport` lets the server take that report.  The client's `presence.join` and
heartbeats are not sent here because no client keeps anything of them.

### AtomicVersions and FileVersions

`AtomicVersions` is the promise: one log of versions per file, a save appends in one step if its base is the latest
version, is told the latest version if not, or fails, with or without effect.  `FileVersions` is `putContent`:
`Arrive` or `Refuse` (the checks), `SelectMax` (the SELECT and the comparison), `Insert` (the INSERT, or the
exception of the unique key), `Reply`, with `DatabaseFails` at any statement and `ServerRestart` between any two
steps.  The refinement mapping is `log <- rows,
asked <- Asked, outcome <- decision`.

### ClientSync

Clients with one tab each for one file, over `AtomicVersions` as the server: `FileVersions` implements it, so its two
statements are one step here.  `OpenFile`, `ShowFile`, `CloseFile` and `Edit` are the editor area; `SaveFile` is
`saveCurrentFile`, which writes the disk and schedules `Push` (`pushSavedFileToServer`) for the next turn of the event
loop; `TakeUpload` and `TakeQuery` are the server's `putContent` and `getVersion`; `UploadSaved`, `UploadConflict`,
`UploadFailed` and `VersionFetched` are the slots that get the replies.  Requests are in no order, as
`QNetworkAccessManager` sends them in parallel.  `LoseUpload` and `LoseQuery` are replies that turn out as a broken
connection; the server may still take such an upload.  `version[c]` is `serverDocVersion_`; `had` is a history variable
of the texts a client has had in its tab or on its disk.  `Patient` says whether users wait for the replies to what
they did.  The conflict dialog runs a nested event loop until it is closed; a late `UploadConflict` stands for that.

### ChannelClient

The user interface is one thread, so a slot is a step, with the slots of the signals it emits: `abort()` emits
`disconnected` before it returns, which is why `Reopen` arms the timer under the attempt it begins.  `ConnectToServer`,
`DisconnectFromServer`, `Timeout` (`openLastUrl`) and `Reschedule` are the WebSocket client; `Connected` and
`SocketEnds` join its slots with those of the panel; `ClickConnect`, `ClickSignedOut`, `Disconnect`, `SignIn`,
`SignOut` and `OpenProject` are what the user and the main window do.  `peer` is the server's end: `Admit` and
`Refuse` are the two outcomes of `handleNewConnection`, which come after the handshake, so the client is connected before
it is refused.  A connection that is `lost` is known to be so only when something is written to it (`LossNoticed`).
`wants` is a history variable: whether the user asked for the channel last, or for its end.  The address of the server
is left out; editing it while connected is `Disconnect`.

### WorkspacePull

`net` holds the HTTP requests under way and their answers in places, in no order; `modals` the dialogs whose nested
event loops are open, the topmost first, so that `Picking` and `CloseWarning` act on the topmost only while replies are
handled whatever is open.  `listHandlers` and `createHandlers` are the slots connected to `workspacesListFetched` and
`workspaceCreated`: the code means to disconnect each after one reply, but captures the connection before there is one,
so they stay, and `ListFetched` and `WorkspaceCreated` run all of them.  `pull`, `queue` and `index` are `pullLocalRoot_`
(with the workspace of `pullProjectKey_`), `pullQueue_` and `pullIndex_`.  `ManifestFetched`, `LatestFileFetched`,
`PullFailed`, `WriteFails` and `IgnoreReply` are the branches of `continuePullAfterManifest` and `onPullLatestFile`;
the state is cleared only after the warning is closed (`CloseWarning`), as in the code.  `ListWorkspaces`,
`CreateWorkspace`, `GetManifest` and `GetLatest` are the server's handlers, `OtherSaves` a `putContent` of another
client.  `began` and `single` are history variables.  A file is written whole or not at all.

### AuthService and LoginDialog

`pc[c]` says where the handler of call `c` is: at its `statement` (the INSERT of `registerUserDb`, the SELECT of
`loginUserDb`), at the UPDATE that follows a SELECT (`touch`), before `g_authMutex` is taken for the `token`, or before it is taken
for the `memory`, where `registerUser` and `login` go when the database has failed.  Each of these is one step, so
handlers of any number of loops interleave between them.  `DatabaseFails` stands for a client that is not there, for
`ensureUsersTable` that throws, and for a statement that throws; the INSERT may have been carried out all the same.
`LoseReply` is a connection that breaks, `ServerRestart` forgets `g_usersByName` and `g_tokens` and breaks the
connections of running handlers.  An account is known by the call that made it and the place it is in, which stand for
its id; a password fits if it equals the one of that call, which stands for salt and hash; the token of a call is known
by the call.  `at`, `epoch` and `before` are history variables: where and between which restarts an answer was decided,
and which calls had been answered when a call was made.

`AtomicAccounts` is the service as its users should see it: `Register` makes an account and its token in one step, `LogIn` finds an
account and makes the token, `Refuse` is right about the moment it is made, in one of the two places, and `Tell` is the answer,
after which a call is over.  What it lets through is what the code does: a registration whose
INSERT seemed to fail may leave an account in the table (`Leave`) and go on to make another in memory, an answer may be lost (`Lose`),
and `Restart` clears the memory and the tokens.  In the refinement a call takes effect when its handler comes to `token`
(`Decided`), under the mutex when it works in memory, and at the statement that refuses it.

`LoginDialog` adds the client: `OpenDialog`, `Click` (`submit`), `CloseDialog`, `SignOut`, and `AuthFinished`, which runs
the slot of the main window and then that of the dialog, if it is connected, whichever request the answer is about.
`Click` and `AuthFinished` are `Submit` and `Deliver` of the service with the window's part added.  `hasty` is a history variable.

### LiveEdit

One file that every project has under the same relative path, and whole texts instead of its content: a text is the
number of the edit that produced it.  `Edit` is a key stroke with `EditorTab`'s slot for `textChanged` and the panel's
`notifyLocalTextEdited`, which sends the text or, above 16384 UTF-16 units, only the news of it; `Relay` is the branch
`editor.patch` of the server, which drops a text above 32768 bytes (`WideDropped`, `Relayed`); `Receive` applies it to the
tab of that path, if there is one, or tells the user that it was too large (`ApplyRemoteText`).  `SaveFile` truncates and
writes, and `SaveFails` leaves a damaged file; `OpenFile`, `CloseTab`, `OpenProject`, `Connect` and `Disconnect` are the
rest.  A channel stays in the room it was opened for whatever project the client shows, as in the code: `room` and `project`
are variables of their own.  `pipe[c][d]` keeps the order of one sender's messages to one receiver and no other.
`typed`, `present` and `strayed` are history variables.

### Workbench and its widgets

`TaskRunner`, `FileExplorer` and `CompileAndRun` hold the state and the operations of one widget each; `Workbench` extends
all three and has the main window, the tabs and the next-state relation.  The actions of a widget leave the variables of
the others to `Workbench`.

* `TaskRunner`.  `Starts` is `TaskProcessRunner::start` with its `waitForStarted(1000)`: a process that is late was
  reported as failed and comes up, or does not, in `LateStart`, which calls no slot.  `RunSelectedTask`,
  `RunTerminalCommand` and `StopRunningTask` are the buttons, `Output` and `ProcessEnds` the slots of the process,
  `LoadTasks` is `loadTasksFromWorkspace`.  A link may lead anywhere
  (`LinkTargets`): the path of a diagnostic is relative, absolute or leads up and out, as the compiler wrote it, and nothing
  restricts what is opened.  `Expected` says when it should be in the open project.  Runs are numbered;
  of an output it matters of which runs its diagnostics are.
  `links` has, for each list of links in the view, the diagnostics it was made for: a link is an index into
  `taskDiagnostics_`, which later runs replace.  `runs` is a history variable.  `setTaskRunning(false)` enables the
  terminal line and `setTaskFinished` does not, so after a run that came up it stays disabled until a task fails to
  start; the model has it so.
* `FileExplorer`.  `ShowContextMenu` and `Prompt` open nested event loops (`QMenu::exec`, `QInputDialog::getText`), which
  `Cancel`, `CreateFile` and `CreateFolder` end; between them `TimerFires` (the single shot of `refreshAfterMutation`) and the end of a pull may
  come.  The current index is what `selectedTargetDirectory` reads, so `Prompt` takes `current` and not `clicked`, which is a
  history variable as are `nudged`, `astray` and `entries`.  A new folder is made current itself, and a file in its directory.
* `CompileAndRun`.  `RunCompile` and `RunWorkspaceProgram` wait for their tools and let nothing else happen, so each is one
  step.  `Outcome` is what becomes of a tool; `Reported` is `runCaptured`, whose result for a tool that was killed after two minutes
  is that of one that ended well.  `Linked` is what the linker leaves, `Ran` what the page says of the program, which is killed after
  a minute and then has an exit code of 0 as well.  `checks`, `ran`, `asked` and `cut` are history
  variables of the last click.
* `Workbench`.  `OpenProjectDirectory` calls all widgets and closes the tabs; it is also the end of a pull and may come
  while a menu or a question is open.  The other clicks need `Free`: dialogs are modal.  `Tab` says what project a tab is of and
  whether there is an excuse for it to be of another.

## 4. Runs

| Run | Instance | Shows |
|---|---|---|
| `MCPresenceSet_two_loops` | 2 connections, 2 loops, 2 projects, a message, 1 Redis failure, 1 restart | the reference counts stay those of the rooms with interleaving, failure and restart; `PresenceFollows`: the presence set is right when the command decided on last was carried out last |
| `MCPresenceView_one_loop` | 3 connections, 1 loop, 2 users | `ViewsMatchRoom`: every list is exact once all is read; the presence set and the session keys follow the room |
| `MCPresenceView_liveness` | 2 connections, 1 loop, 1 restart | `MembersSeeEachOther`; `OnlineUsersInPresence`: after a restart the set may be too large, never too small |
| `MCPresenceView_two_loops` | 2 connections, 2 loops | *violated*: a late roster and the members who come and go meanwhile |
| `MCFileVersions_two_loops` | 3 requests, 2 loops, a fault, a restart | no lost update, no gap, every save answered, refinement of `AtomicVersions` |
| `MCClientSync_two_users` | 2 clients, 2 uploads, 2 queries, 1 text, 1 fault, users wait for replies | saves take effect in the order sent; while nothing was lost, conflicts on a known version are another client's and tabs know their own saves; `ConflictIsLearned` |
| `MCClientSync_overwrite` | 2 texts, users wait | *violated*: a version is replaced unseen |
| `MCChannelClient_reconnect` | 2 tokens, 2 projects, 2 ends of the server, 3 network failures | a wanted channel is pursued, an ended one stays ended, an open one is served; `Reconnects` |
| `MCLiveEdit_turns` | 2 clients, 2 projects, 2 edits, 1 save, 1 change of project, 3 channels | those who take turns agree, nothing is echoed, texts stay in their project, an unmarked tab is what is on disk |
| `MCWorkspacePull_pulls` | 2 workspaces, 2 files, 2 uses of the menu, 2 requests at once, a save, a failure | no pull is left hanging, a pull that ran alone is complete; `PullEnds` |
| `MCLoginDialog_accounts` | 1 window, 1 name, 2 passwords, 3 calls, a fault, a restart | accounts and tokens stay, refusals have a reason, refinement of `AtomicAccounts`, the session is the latest one; `DialogsEnd` |
| `MCWorkbench_clicks` | 2 projects, one of them with tasks and sources, 2 directories, 6 clicks | stops, links, entries, verdicts and tabs are about what they say; `StopEnds` |

Type invariants and other invariants that are proved (section 6) are not repeated in the runs; TLC checked them before they were
proved.  The workbench is the exception: its types say that no timer is set for a client without a project.

Bounds.  Three connections are the fewest that let one join while another leaves and a third watches, and
`MCPresenceView_one_loop` has them; two, one on each loop, are enough for a room that changes while a callback works with a copy of
it.  All ask for the same client id in every instance.  `MaxMessages`, `MaxFaults`, `MaxRestarts` and `MaxSwitches` cut counters that
nothing else depends on: one restart or failure at every point of every handler is covered.  For files three requests
are the fewest with a winner, a loser of the race and a save on top of the winner.  Two clients and two places for uploads are the fewest that
conflict; a place is free again once its reply was read, so a save follows a conflict with the version that was learned.  Users
who do not wait for replies are out of reach of a run together with faults and liveness; the proofs of `TabsKnowRealVersions` and
`SavesTakeEffectInOrder` cover them.  For the channel
two tokens are an old login and a new one, two server ends hit the client before and after it came back, and three
network failures strike a connection, the attempt that follows and the one after that.  For pulls two uses of
the menu and two places are the fewest that mix the replies of two pulls; one parent directory is enough, because two
workspaces give two roots.  For
accounts three calls are the fewest with two registrations of a name and a login, one fault sends any of them to memory and
one restart separates any two; since a handler goes on after its dialog is closed, one window is enough to have all three run at once,
and one of the two passwords is too short to register with.  For
live editing two clients are a sender and a receiver, two projects let a channel and an editor be apart, and two edits
cross or follow each other.  For the workbench the bound `MaxClicks` is shared by all that the user does: four clicks open a project, start a
task, open the other and follow a link, and six leave room for a second run or a menu in between; output, timers, ends of
processes and the end of a dialog are not counted.  Symmetry is used in safety runs
only, over users, guest ids, contents, tokens, clients of one file and projects, which nothing tells apart.

`KnownConflictIsWithOthers` holds only for users who wait and while nothing was lost.  Without `Patient` a second save that is sent before the first is
answered carries the base of the first and conflicts with it, and the dialog sends the user to the others all the same.

`PulledIsComplete` holds only for a pull that has ended before the next is begun.  With two listings, each list is shown twice,
the user can choose a workspace from each, and since a reply does not say which pull it is for, an empty manifest of one
finishes the other: the client then reports that all files were pulled and opens a root without them.  What holds for
mixed pulls as well is that they go on and end (`PullIsPursued`, `IndexInQueue`, which is proved, and `PullEnds`).

`SessionIsLatest` is about windows whose dialogs were left to end.  `authFinished` does not say which request it answers, so
the late answer to a dialog that was closed signs the user in, over a later sign-in too.  `RefusedWithReason` says
exactly when a registered user is refused: the account is in the table and the login was decided in memory, or the
other way round, or it was in memory before a restart.  That a name stands for one account over both places is false by design
of the fallback and not claimed.

`PresenceSettled` and `OnlineUsersInPresence` say what the presence set is like once all is done on a server with one loop whose
Redis answers.  With the two loops of the example configuration the SREM of one may overtake the SADD of the other, and no
command that failed or was lost is repeated, so both are false there.  `PresenceFollows` is what holds of any server: while the command
decided on last is the one carried out last, the set is right about the user.  It names all that can make it wrong, and says that
the next command carried out in its turn mends it.

`SessionsDescribeMembers` says nothing of a member without a key.  Client ids are made distinct in a project only, so two connections
of one installation to two projects share a session key, and the close of one deletes it.  No code reads the key.

`TurnTakersAgree` is about edits that do not cross: if everything sent had been read when the last text was typed, all who
were in the room with the file open show it in the end, or were told that it was too large.  Two editors who type at once swap
their texts, which the design accepts.  `TextsStayInProject` names the clients whose channel was in the room of a project
they did not show; opening a project does not close the channel, so their texts do turn up in another project.

The properties of the workbench name what the code lets through: a run that is on while another project is opened, or
that comes up after it was given up, has its diagnostics looked up in the new project (`LinksAreOfProject`); a
link whose path leads out of the project of its run opens what it names, a header of the system say, whatever project
is open (`TabsAreOfProject`); a
single shot that was set in one project may put the tree back to it after another was opened, and moves the current index under an open menu
(`EntriesLandWhereAsked`, `TabsAreOfProject`); a question for a name that is open when a pull ends creates its entry in the
old project; a tool or a program that was killed counts as one that ended well (`VerdictIsTrue`).  Each exception is needed: without it TLC finds
the property violated in the same instance.

Two more things the runs met that no property states.  The guide promises 409 to the loser of two racing saves
(`collaborative-dev-platform-development-guide.md:809`); the code gives it when the SELECT sees the newer version, and
an internal error when the unique key stops the INSERT (`workspace_files_controller.cpp:322-338`), so `ConflictIsReal` (the theorem
`ConflictsAreReal`) is about the conflicts that are reported.  And the terminal line stays disabled after a task has ended (see `TaskRunner`
above).

## 5. Fairness

`FairSpec` of `FileVersions` and `FairSpecView` of `PresenceView` assume weak fairness of the
steps *inside* a handler that has begun: a thread that runs a callback goes on with it, and no step of a callback
waits for another callback (the locks are held for the bookkeeping only, which is one step here).  That a client
reads what arrives (`Receive`) is the event loop of its process.  Nothing a user does is fair: nobody has to
connect, edit, save or leave.  No fairness is assumed for Redis failures, timers or restarts either.  Deadlock is
not checked because connections, requests and uploads are used once each, so every behaviour of a bounded instance
ends.  `FairSpec` of `ClientSync` assumes that event loops turn, that requests reach the server and that
replies reach the client.  The slot that gets a reply (`HandleUpload`) is strongly fair because a conflict needs a free
place for its query: the places are bounded in the model and not in the program, where the slot is always able to run.

`FairSpec` of `ChannelClient` assumes that timers fire, handshakes and closes come to an end, a heartbeat on a dead
connection fails, and the server looks at what it has accepted.  `Reconnects` also has a premise: from some point on the
server runs, knows the token, and the network is `prompt`, that is, a handshake ends within the three seconds of the
reconnect timer.  Without it the property is false: an abort arms the timer under the next attempt, which it then aborts.
Deadlock is checked here: there is always something the user may do.

`FairSpec` of `WorkspacePull` assumes that the server answers (or the request fails) and that the event loop handles the
answers.  The user is not fair: a warning may stay open for ever, which is why `PullEnds` is content with it.

`FairSpecDialog` assumes that a handler that has begun goes on and that its answer, or the end of its connection, is
delivered.  No user action, failure or restart is fair.  Deadlock is not checked because calls are used once each.

`FairSpec` of `Workbench` assumes one thing: a process that was killed ends.  Nothing makes a task end by itself, a late process come
up or a user answer a dialog, and no property needs it.  `LiveEdit` has no liveness and no fairness: `TurnTakersAgree`
says what is so once everything has been read.

## 6. Proofs

All proofs hold for arbitrary constants under the named assumption of the module (`RoomAssumption`,
`FilesAssumption`, `SyncAssumption`, `ChannelAssumption`, `EditAssumption`,
`PullAssumption`, `AuthAssumption`, and `ProjectAssumption`, `TaskAssumption`, `ExplorerAssumption`, `CompileAssumption` and
`BenchAssumption` of the workbench), which TLC evaluates on every run.

* `CollabRoomProofs`.  The inductive invariant `IInv` joins the invariants of the runs with what they need: a running
  or parked connection has a context (`HasContext`), the text of a running callback is of its own project (`OwnText`),
  the copy of a room contains only connections of that project (`OwnRoomCopy`) and only open connections have mail
  (`OpenOutbox`).  The reference count needs lemmas on the cardinality of a set with one element more or less.
  From `IInv` follow `TypeCorrect`, `MembersStayOpen`, `RefCountIsExact`, `ClientIdsAreDistinct` and
  `NothingLeavesItsProject`, for any number of loops and with failures and restarts.
  The second part is about the presence set (`PresenceSet`), for any number of loops, with Redis failures and restarts:
  `PresenceFollowsDecisions`.  A connection decides on at most one SADD and one SREM, so a command is known by its connection.  The
  command decided on last says what the room has (`LatestSays`): an SADD was decided with the first connection of a user, an SREM with
  the close of the last, and what comes between changes neither.  The command carried out last says what the set has
  (`CarriedSays`).  Where they are the same, set and room agree.  That the set settles (`PresenceSettled`, `OnlineUsersInPresence`) needs
  one loop and a Redis that answers, and is left to the runs.
  The third part, `KeysDescribeMembers`, needs no restriction on loops or client ids, only that Redis answers and the server runs:
  whoever wrote a session key deletes it, or the one that was written over it, after leaving the room (`SessionTracks`).
  The last part is about the lists of the clients (`PresenceView`) on a server with one loop, with any Redis failures, restarts,
  reconnections and unread messages.  Between the room and a row of a list lie the running callback and the messages that
  the client has not read.  `Follows` says of every other member's id: the last unread message that speaks of it says what the room
  has, and if there is none, the row does, except for an id the running callback has still to announce to this client
  (`Unannounced`).  A client's own row follows its own reports: the roster is the last message about it (`Greeted`).  The lemmas
  say what a message that is read, sent or broadcast does to the last word on an id.  Where nothing runs and nothing is
  unread this is `ListsMatchRooms`, and for the ids alone `OnlineMembersAreListed`, the very statement that the run with two loops
  refutes.  `KeysDescribeMembersWithClients` carries the third part over to the composition.
* `FileVersionsProofs`.  The versions are 1..n without a gap; a handler that has read `maxV` inserts above it or
  collides.  `Refinement` maps `SelectMax` with a conflict to `Reject`, `Insert` to `Save` or `Fail`, and every other
  step to a stutter.
* `ClientSyncProofs`.  `VersionsExist` says that no version anywhere (tabs, replies, uploads) is above the server's
  latest.  An upload is stored only when its base is the latest version (`StoredOnTop`), and when it is, every upload
  sent before it has a base that existed, hence not a higher one (`BasesInOrder`).  Two stored uploads never share a
  base, so the order of bases is the order of versions: `SavesTakeEffectInOrder`.
  `ClientsUseStore` is a refinement in the other direction of `FileVersions`: the clients are legal users of `AtomicVersions`.  A
  push is its `Ask`, since an upload that was not sent is unused (`UnsentUnused`); replies only mark an upload as handled.  What
  `FileVersions` implements is thus what `ClientSync` relies on.
  The second part assumes `Patient`, that users wait for the replies, and speaks of the time before the first fault.  A client then has one
  thing under way at a time (`OneThingAtATime`), so the tab's version is not behind the client's own saves when an upload takes it
  (`TabKnows`, `QueriesKnow`, `UploadsKnow`); every version is somebody's save (`VersionsAreSaves`), so one that makes an upload
  fail is another client's: `TabsKnowOwnSaves` and `ConflictsAreWithOthers`.
* `ChannelClientProofs`.  The invariants of the run are almost inductive together; what they lack is `FlagsFollowUser`: while
  the user wants the channel, reconnecting is enabled, no disconnect is on record, and there is a URL and a socket, and
  reconnecting is off otherwise.  One lemma for each way a socket ends or begins carries it; the theorems are
  conjuncts of the invariant.
* `LiveEditProofs`.  What is under way on a channel was typed by its client in the room the channel is in, because a channel
  that closes takes its messages with it; with `Fits` for every text on a disk this gives `TextsStayInProject`.  While somebody is
  counted as present for the last edit of a room, that edit is the only one under way to them, and once it has been read they show
  it or were told: `TurnTakersAgree` is the case in which nothing is under way.
* `WorkspacePullProofs`.  Type correctness, `PullIsPursued` and `IndexInQueue` are inductive together, for any number of slots,
  dialogs and requests: a step that uses up a reply of a pull sends the next request in its place, ends the pull or
  shows a warning, and no other step touches the place of a download.
  `PullsAreComplete` adds `AloneInv`: a root that is not made yet is empty (`RootsKnown`), a pull that was begun alone has one request
  under way, of its own workspace, and the queue holds all that the server had when the root was chosen (`OnlyRequest`);
  versions only grow, so what comes is not older.
* `AuthServiceProofs`.  Names that are taken keep their accounts in both stores (`StoresGrow`), so what a handler has
  found in the table is still there when it makes its token (`FoundStays`) and what was answered stays true until a restart
  (`GrantStays`).  `StoresNamed` says that an account is kept under the name it was made with.  One lemma (`OneCall`)
  reduces a step of a handler to what it does to its own call; for the other calls the invariant follows from `StoresGrow`.  A
  login that is refused contradicts `GrantStays` of an earlier registration unless there is a reason.
  `CallsTakeEffectAtOnce` is the refinement of `AtomicAccounts`: `OneCallSeen` says what a step of one call looks like from outside,
  `UndecidedSeen` what a call that has no token yet has to offer, and one lemma per operation (`...Seen`) names the abstract
  step.  A login takes effect one step after its SELECT; that the account is still what was found then is `FoundStays`.
  The last part is about the login dialogs.  Their steps are steps of the service or leave it alone (`DialogsUseService`), so the results
  above hold in the composition; a window whose dialogs are left to end has one call under way (`OnePending`), so its calls were
  answered one before the next was made (`InTurn`), and the session is from the last (`SessionsAreLatest`).
  `DialogsAwaitAnswers` is the part of `DialogsEnd` that is not about fairness: a dialog that waits has a call under way
  (`WaitersAreAwaited`, also after a dialog was closed in mid-wait), and a call goes forward at most five steps
  (`CallsMoveOn`), whether the database fails or the server restarts.
* `WorkbenchProofs`.  Each widget has an invariant that only its own operations disturb.  `TaskInv` relates the buttons to the
  process: what can be stopped is on and came up in time (`StopIsOfLastRun`), a process that is on belongs to the last run and the
  view has no links meanwhile (`ProcessIsLastRun`), and whether the terminal can be used tells whose diagnostics are in the buffer
  (`BufferIsOfRun`), from which the links of the next summary follow.  `ExplorerInv` follows the place from the click over the current index to the
  entry (`PlaceIsClicked`).  The window adds `SameRoot` and what an open dialog is about (`DialogIsOfProject`).  `TabsAreOfProject`
  follows from all of them: a link that should be in the open project is (`LinkLeads`), since its diagnostics are of a run of this project.

## 7. What is only model-checked, and what is not modelled

* Liveness (`SavesAreAnswered`, `MembersSeeEachOther`, `ConflictIsLearned`, `Reconnects`,
  `PullEnds`, `DialogsEnd`, `StopEnds`) is outside the prover's
  reach and rests on TLC; what `DialogsEnd` needs beside fairness is proved (`DialogsAwaitAnswers`).  Every invariant and every
  action property of the passing runs has a theorem, except `PresenceSettled` and `OnlineUsersInPresence`: they hold on a server with one
  loop whose Redis answers, and what holds on any server is proved (`PresenceFollowsDecisions`).
* drogon, Qt, Redis and MySQL are modelled only as far as the code uses them, as the entries marked external in
  `PROJECT.json` say: callbacks of a loop are serial, a connection keeps the order of its messages, a statement is
  atomic and may fail.
* Session and mark keys expire at any moment rather than after their seconds.
* Git status runs git in one call and shows what it prints; the health report reads the configuration and pings; the recent
  projects, the workspace file and the endpoint settings are one file each, read and written in one call; start-up begins the event
  loops.  None of them meets another part while it works.  The search for the example workspace, progress texts,
  the activity list and cursors are left out as well: they are shown and decide nothing.
