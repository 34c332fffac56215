# telegram-opencode-proxy in TLA+

The proxy connects Telegram chats to *opencode* instances ("slots"). A message of
an authorized chat becomes a turn: it is queued for the chat's worker, run in an
opencode session, streamed back by edits of one Telegram message, and may be held by
a permission gate until the user taps a button. Around that are enrolment by pairing
code, an MCP server that moves files, an outbox watcher, and an admin socket.

This directory models the parts in which *order* decides whether the program is
right. Line numbers are those of the Rust source (`bot.rs:176` is
`src/src/telegram/bot.rs`, line 176); `PROJECT.json` gives, for every definition that
models code, the lines it stands for.

## 1. Inventory

| Component | State it keeps | Operations | Module |
|---|---|---|---|
| Turn queue (`telegram/bot.rs`) | `user_queues`: chat -> sender and join handle; a bounded channel per worker | `enqueue_turn`, `user_worker`, `shutdown` | `TurnQueue` |
| Session routing (`bot.rs`, `session.rs`, `opencode/client.rs`) | `routing` and `allowed_users` tables; the instance's sessions | `run_turn`, `get_or_create`, `/new`, `/stop`, re-slotting | `SessionRouting` |
| Permission relay (`permission.rs`, `bot.rs`, `telegram/stream.rs`) | `pending_approvals` table; the buttons in Telegram; gates held in opencode | `Event::Permission`, `permission::prompt`, `handle_callback`, `/stop` | `PermissionGate` |
| Turn scope (`permission.rs`) | the memo `seen` of one turn | `TurnScope::resolve` | `TurnScope` |
| File store (`mcp/store.rs`) | map id -> temp file, deadline | `put`, `take_by_id`, `sweep_expired` | `FileStore` |
| Pairing (`pairing.rs`, `persistence.rs`, `bot.rs`) | `pending_pairings`, `allowed_users` tables | `issue_code`, `approve`, `deny`, `list` | `Pairing` |
| Slot registry (`lib.rs`, `bot.rs`, `auth.rs`, `opencode/health.rs`) | `registry`: slot -> client; the slots in the config file; `reconnecting` | startup bring-up, `ensure_connected_impl`, `spawn_reconnect`, `upsert_slot`, `resolve` | `SlotRegistry` |
| Live view (`telegram/render.rs`, `TextRouter` of `stream.rs`) | answer text, buffered deltas, activity log, tool failures, tallies | `apply_event`, `classify`, `route_delta`, `upsert_tool`, `echo_narration` | `LiveRender` |
| Live message (`LiveSink` of `stream.rs`) | the id of the live message, the text it is believed to show | `flush`, `finalize`, the fallback to plain text | `LiveSink` |
| Retry (`telegram/retry.rs`) | attempts of one call | `with_retry` | `LiveSink` |
| Event stream (`opencode/events.rs`, the select of `stream.rs`) | one subscription per turn, its retry state | connect, `recv`, filtering, `run_streaming_turn` | `EventStream`; what its losses lead to, in `PermissionGate` for gates and in `LiveRender` for parts |
| Inbound media (`telegram/bot.rs`, `telegram/files.rs`) | none of its own: the chat's queue and the file store | `handle_text`, `handle_media`, the download | `InboundMedia` |
| Outbox (`outbox.rs`, `telegram/files.rs`) | paths waiting for the quiet timer | `spawn_watchers`, `relay`, `deliver` | `Outbox` |
| MCP server (`mcp/mod.rs`) | none of its own | `send_file_to_user`, `download_file` | `SendFile`; the GET is the taker of `FileStore` and of `InboundMedia` |
| Persistence (`persistence.rs`) | SQLite behind one mutex | one statement at a time; `open`, `migrate` | `Migrations`; the tables are variables of the modules above |
| Admin socket (`admin.rs`, `lib.rs`) | the socket file, one task per transport and connection | `serve_admin`, `serve_admin_http`, `dispatch`, shutdown | `AdminChannel`; what its commands change, in `Pairing` and `SlotRegistry` |
| Configuration (`config.rs`) | a file | parse, validate, `upsert_slot` | `upsert_slot` and the distinct instances in `SlotRegistry`; the switches of `Outbox` and `InboundMedia` |
| Formatting (`telegram/markdown.rs`) | none | Markdown to MarkdownV2, chunking | `MarkdownChunks` |
| Command line (`main.rs`, `state.rs`) | none | arguments, one admin command, printing | `send_admin` in `AdminChannel` |

**How they interact.** The *dispatcher* handles the updates of one chat one at a time
and those of different chats concurrently. It hands turns to the chat's *worker* task
through the channel and does not wait for them, so commands (`/new`, `/stop`) and
button taps run concurrently with the turn they are about. Worker and dispatcher meet
only in the database (a mutex held for one statement), in opencode (requests that may
fail, and whose answers may be stale when they arrive) and in the Telegram chat itself.
Admin connections are tasks on the same multi-threaded runtime. The database outlives
the process; channels, subscriptions, memos and whatever an operation had in hand do
not. opencode outlives the proxy and may itself be restarted or lose its database.

**What is hard.** Rows read before an await and written after it (`run_turn`);
three-statement operations without a transaction (`approve`, `issue_code`); a worker
that panics while its entry stays in the map; a shutdown that must end though a turn
may be blocked for ever; an event stream that replays neither deltas nor gates; a row deleted although
the reply it stood for was lost; verdicts cached from walks that were cut off; temp
files owned by whoever was last dropped; deltas that arrive before the frame that says
whether they may be shown; an edit that was done and whose reply was lost; one quiet
timer for every path of an outbox; a socket file that is unlinked by its path, whoever
serves it; bindings that are stamped anew at every start; a file whose time runs from its
download, not from the turn that is told of it; text that grows by escaping after it was
cut. `PROJECT.json` lists these as hazards, each with the properties that would catch it
going wrong.

**What makes each component correct.**

* *Turn queue*: one turn of a chat at a time, in order of arrival; nothing is refused
  early or taken above the bound; what is accepted is served, unless a turn panics before
  it or the grace of the shutdown elapses; shutdown always returns.
* *Session routing*: a chat runs only in sessions of its own, every prompt runs under
  the ask rules, stale rows heal, `/new` and `/stop` affect what they were sent for.
* *Permission relay*: only the owner is asked and only the owner decides; buttons that
  are shown work; a gate that is shown gets decided.
* *Turn scope*: verdicts are true, near descendants are found, walks are bounded.
* *File store*: served once, whole, within the limit; reclaimed; nothing left behind.
* *Pairing*: one code per chat, a chat is bound only by its own unexpired code, a code
  is used once unless two approvals of it run at the same time.
* *Slot registry*: what is live or bound is in the config file as long as no two adds
  overlap, a live slot keeps its instance unless its name is given twice, a bound chat
  gets its slot.
* *Live view*: reasoning is never shown, answer text is shown once and in order whatever
  the order of the frames, a finished tool is neither restarted nor counted twice, every
  failure is told.
* *Live message and retry*: the message shows what the sink believes it shows, a turn that
  ends well has shown all of its answer, no flush makes a turn fail, every turn ends once
  its prompt has returned.
* *Event stream*: what has arrived is handled while the turn goes on, and without a
  failure of the connection no event is missing between the first and the last handled.
* *Inbound media*: turns run in the order of the messages, downloads or not, and a file
  announced to the model is refused to it only for a cause.
* *Outbox*: a file that is complete is tried, once and whole, and its last version too.
* *MCP server*: the model is told the truth of its file, and it goes to the right chat.
* *Migrations*: an open store has the schema its version says, wherever an earlier attempt
  to open it was cut off.
* *Admin channel*: a command is settled unless its instance keeps it waiting, what it is
  told is true of a command that is one change, and the path of the socket leads to the
  daemon that serves.
* *Chunking*: no character of an answer is lost or repeated, and a chunk fits a message.

## 2. Modules

**`TurnQueue`.** `user_queues[c]` is the map entry, `chan[w]` the channel into a worker,
`task[w]` the life of its task. `EnqueueBehind`, `EnqueueFull`, `EnqueueSpawn` are the
three ways through `enqueue_turn`; `RecvJob`, `FinishTurn`, `PanicTurn`, `WorkerExit` are
`user_worker`; `BeginShutdown`, `DrainDone`, `GraceElapsed` are `shutdown`. A worker is an
identity of its own, so that a chat has only one is a theorem and not a matter of layout.
A job is its arrival number. The histories `accepted`, `completed`, `lost` are what the
properties compare.

**`SerialService`** is what the turn queue promises, without workers, channels or map:
per chat a server with one job in service and a bounded queue. A job taken is dropped by
two steps only: `Crash`, of the job in service, which takes along those behind it and is
counted, and `CutOff`, the end of the grace. A drain that `End`s has nothing left to serve.
**`TurnQueueRefinement`** maps one to the other: the chat's server is its live worker,
whether or not the map still names it (during shutdown it does not), a crash is a panic,
and the state of the service is the phase of `shutdown`.

**`SessionRouting`.** A turn's `at` is the await `run_turn` is in: `exists`, `create`,
`patch` inside `get_or_create`, `persist` after it, `send` and `prompt`. Between any two,
the chat's dispatcher may clear the row (`HandleNew`), read it and send an abort
(`HandleStop`, `AbortAnswer`, `AbortFails`), an admin may move the chat (`Rebind`), the
instance may lose its sessions (`Wipe`), a request or a statement on the row may fail
(`RequestFails`, `StartFails`) and the proxy may die (`Crash`).
It builds on the serial, in-order worker that `TurnQueue` is shown to provide: queued
turns are a sequence, and one runs.

**`PermissionGate`.** `loop` is the select loop of `run_streaming_turn`. The select is
biased and both futures are lazy, so the prompt is sent when the loop is entered and the
subscription opens later (`StreamOpens`). An asked gate goes to every open stream of the
instance; `HandlePermission` writes the row, `PostingDone` is the send of the buttons,
`TapForwarded`, `TapRefused` and `TapFailed` are the ways through `handle_callback`, with the
reply (`ReplyReceived`, `ReplyLost`) and the deletion of the row (`CallbackDone`) as steps of
their own. The database may refuse a statement (`DbRefuses`): a gate without its row is not
posted, a row that cannot be deleted stays, and the edit of the buttons may fail as well. Ownership is here a constant; that it is computed correctly is `TurnScope`.

**`TurnScope`.** One action per outcome of a lookup in the loop of `resolve`. The parent
relation is chosen in the initial state, without any assumption: cycles and unknown
sessions are included. `Family` (the least set holding the root and closed under
children) and `Within` are reference definitions, independent of the walk.

**`LiveRender`.** opencode streams deltas, part frames and tool frames (`StreamDelta`,
`StreamPart`, `StreamTool`); with the stream down they are missed (`MissDelta`, `MissTool`);
after a reconnection part and tool frames come again (`StreamPart`, `ReplayTool`), deltas
do not. Deltas and part frames come in any order. `RouteDelta` and `Released` are
`TextRouter`, `ApplyTool` is `apply_part` with all it does: the line of the call, the echo
of narration before a new line, the tallies, the failure. A delta is its number in its
part, so that order and repetition can be told; `Blank` are those of white space only,
which moves the mark of the narration and makes no entry (`Says`). The histories `received`, `known` and
`seen` record what arrived; the properties compare what is shown with them.

**`LiveSink`.** `call` is the Telegram call being awaited and `loop` says what for: a
flush of the ticker, a chunk of the answer, a note or the error reply of the worker. A
call is answered (`Replied`), rejected for its formatting (`Unparsed`: once more as plain
text), refused as changing nothing (`NotModified`) or for another reason (`Refused`), not
delivered (`NotReached`), or done without the caller learning of it (`ReplyLost`); after
the last two `with_retry` sleeps (`BackedOff`) and tries again, up to its limit. A text is
a number, and `chat` is what Telegram really shows; `message` and `lastSent` are what the
sink believes. `view` abstracts `LiveRender` to the versions of its rendered text.

**`FileStore`.** `linked` is the set of temp files on disk, `entry` says who owns each:
a `put`, the map, a taker, nobody. Every await at which a task can be dropped has its
action. Ids are drawn once (they are random UUIDs).

**`Pairing`.** One step per database statement: `issue_code` is read clock, delete, look up,
insert; `approve` is look up, bind, delete; `deny` is look up, delete. Codes are few, so
chats do draw the same. A statement may fail, or the process die, between any two
(`IssueFails`, `AskFails`, `Crash`). The histories number every code issued, so that a
re-issued code is not mistaken for the old one.

**`SlotRegistry`.** `up` is the set of instances that answer, `file` the slots of
`config.toml`, `cfg` what was loaded of it, `registry` what is live, `allowed` the bindings.
`starting` holds the startup tasks (`StartupReady`, `StartupInserts`, `StartupGivesUp`), `conn`
what a run of `ensure_connected_impl` is at: begun by an admin (`Connect`) or by the one
reconnect task of a slot (`TurnFails`), it probes, waits for the instance, reads and
replaces the file, binds the owner and swaps the client in, each a step that a restart,
an outage, a failed write or another task can come between. A *reachable* instance is one
that answers, and offers the model asked for. A file is a sequence of tables for each
name, as nothing checks that names are distinct: each table has its startup task, and of
two with one name the later task's slot stays. The order of the names is left out, and so
is the temp file that two overlapping adds share: `contended` records such an overlap,
after which nothing is claimed of the file, for there the code does lose a slot; `rivals`
are the names that two overlapping adds had in common.

**`EventStream`.** One turn's select loop against opencode and the connection between
them. `emitted` is what opencode has written, `wire` what has arrived and is not yet read,
`applied` what the turn has handled, `since` what had been emitted when the stream opened. Both futures are lazy: `FirstPoll` sends the prompt
and begins to connect, so opencode may emit before `Open`. `Receive` handles an event,
`AfterNoise` is the `continue` of `recv` after a frame that is none, `Drop` and `ConnectFails`
are the failures after which `Reconnect` opens the stream again, `EndTurn` and `PromptFails`
are the ways out, at which what is on the wire is discarded.

**`InboundMedia`.** `inbox` is the order in which a chat sent its messages; `step` says how far
each is: waiting for the dispatcher, at an await of its handler (the download, the `put`
into the store), queued, in its turn. A handler
ends by queueing the turn, so that a text behind a file waits for the file (`HandlerIsFree`).
`announce` is the path (a URL in the prompt, or the bytes in a part), `listening` whether the
server that would answer the GET could bind. The turn, once it runs, fetches the file, once
or twice; the sweeper purges what is past its deadline.

**`Outbox`.** The agent opens, writes, closes, renames and removes files (`body`, `version`);
each causes the events `notify` sends for it, of which `is_write` lets some through. `relay`
receives (`Receive`), starts its one timer anew, flushes what is pending once it is quiet, and
awaits the uploads one by one, during which events wait in the channel (`rx`). `pause` is how
long an open file has not been written to. An upload reads the file as it is by then, and
succeeds or fails; the history `tries` records what it read and how it ended. `landed` is
the version that a writer has completed under the watch.

**`SendFile`.** One call of `send_file_to_user`, one step per await: the slot of the header,
`chat_for_slot`, then the attempts of the upload, each of which is refused, does not get
through, or is done with or without the reply. Bindings carry the time they were stamped;
`Restart` stamps those of the configuration's owners anew, as `AppState::new` does.

**`AdminChannel`.** `phase` is where in `serve` a process is, from the removal of a stale
socket to the removal of its own; `inode` says whose socket is at the path. The socket and
the HTTP transport are tasks of their own, aborted one after the other at shutdown. A
command connects over one of them, waits without a timeout, and is answered, refused, or
told that the connection is gone; `done` is what has really been carried out. A handler is
two steps: up to its first change (`Effect`), and what follows, which for an approve or a
connect may fail (`Finish`).

**`Migrations`.** `open` reads `user_version`, then runs the statements of every step above it,
each committed by itself, and stamps the version last. Two processes may do so at once,
and each may die or fail between any two statements.

**`MarkdownChunks`.** `to_chunks`: a line at a time is converted with what is in hand, which is
flushed when the result no longer fits; a line too long by itself is cut by characters.
A character is one that is reserved, an ordinary one, a line end or a backquote; what is
rendered is a length. The log in front of the first chunk (`stream.rs`, `finalize`) takes
from its room.

**The modules that are checked together.** `RoutingAndMedia`, `GateAndStream`,
`RenderAndScope`, `SinkAndChunks`, `FileTransfer`, `RegistryAndAdmin` and `PairingAndStore` each
put two or three modules that belong to one subject next to each other; the `MC` modules
and their `.cfg` give them a small instance. They are *not* compositions: the modules share
no state there. A variable `subject`, chosen initially, says which of them a behaviour is of;
the others stay in a state of rest in which no action that fairness is about is enabled, so
that the run checks exactly what separate runs would. The theorems `...IsComposed` say so: a
behaviour of the pair is one of each module, so that what is proved of a module holds in
the run.

Left out in all of them: logging, message texts, (de)serialization, and time other than
as a counter or as "may happen at any moment".

## 3. Runs

| Run | Modules | Shows |
|---|---|---|
| `turn_queue` | `TurnQueue`, `SerialService` | the refinement `ImplementsSerialService` (order, one at a time, back-pressure, and what may drop a job), and the liveness of `ShutdownReturns` and `AcceptedIsServed` |
| `session_routing` | `SessionRouting`, `InboundMedia` | `SessionsAreNotShared`, `EveryPromptIsGated`, `FailsOnlyWhenStruck`, `NewIsFinalUnlessRaced`, `StopIsContained`; `TurnsInSendingOrder`, `RefusedForCause` |
| `permission_gate` | `PermissionGate`, `EventStream` | `DecisionIsTheOwners`, `ShownIsAnswerable`, and the liveness of `ShownIsDecided`; `NoneIsSkipped`, and the liveness of `WireIsRead` |
| `render_and_scope` | `LiveRender`, `TurnScope` | `ReasoningStaysHidden`, `AnswerIsWhatCame`, `NarrationIsOnce`; `MemoIsTrue`, `NearIsSurfaced` |
| `live_sink` | `LiveSink`, `MarkdownChunks` | `BelievedIsShown`, `AnswerIsShown`, and the liveness of `TurnIsFinished`; `Lossless`, `WholeLinesFit` |
| `file_store` | `FileStore`, `SendFile`, `Outbox` | `ServedOnceAndWhole`, and the liveness of `UnfetchedIsReclaimed`; `ToldIsTrue`, `SoleOwnerReceives`; `WrittenOnceIsSentWhole`, and the liveness of `LandedIsUploaded` |
| `slot_registry` | `SlotRegistry`, `AdminChannel` | `FileIsTheTruth`, `InstanceIsFixed`, and the liveness of `OwnersAreServed`; `OutcomeIsTrue`, `SocketIsServed`, and the liveness of `CommandIsSettled` |
| `pairing` | `Pairing`, `Migrations` | `BoundByOwnLiveCode`, `SingleUseUnlessContended`; `SchemaIsTrue` |

What is a theorem (section 4) and no run's property is proved and takes no run's time: `SerialTurns`, `ServedInOrder`, `NothingForgotten` and `DrainServesAll` of
`TurnQueue`, `WalkIsShort` and `SurfacedIsOurs` of `TurnScope`, `LinesAreCurrent`,
`TalliesAreTrue` and `FailuresAreTold` of `LiveRender`, `FailsForCause` of `LiveSink`,
`NeverOverLimit` and `NoOrphan` of `FileStore`, `OneCodePerChat` of `Pairing`, `OneChatIsAsked`
of `PermissionGate`, and `TypeOK` of every module but `EventStream` and `MarkdownChunks`, where
it states what the variables hold and no run is spent on it. The other runs are
counterexamples to what a comment in the source says; each quotes it in `findings`:

| Run | The source says | The code |
|---|---|---|
| `session_new` | `/new` makes the next message start fresh (bot.rs:778) | a `/new` between a turn's read and write of the row is undone by the write |
| `permission_reply` | a tap unblocks the turn (permission.rs:7) | one lost reply deletes the row: dead buttons, blocked turn |
| `live_sink_identical` | an edit that changes nothing is never sent (stream.rs:229-231) | an edit whose reply was lost is tried again as it is, and refused; when it was the edit of `finalize`, the turn fails with an error reply, and the chunks after the first are never sent |
| `outbox_settled` | each path is delivered once it settles, every event resets "the per-path quiet timer" (outbox.rs:131-132) | there is one timer: a file that is written to without end keeps every other from being sent |

Properties named `...Unless...`, and `ShownIsAnswerable`, `BelievedIsShown` and
`FailsForCause`, are the strongest statements found to hold once the behaviour of the
matching counterexample is excluded (the last two say nothing of turns in which a reply
was lost), so that the rest of the guarantee is checked and not given up with it.

Other divergences met on the way have no run. The subscription is made "before firing
the prompt so no delta of this turn is missed" (stream.rs:84), but it connects when it
is first polled, after the prompt (stream.rs:107-112), and opencode does not emit again
what was missed before it was open; and as the select looks at the prompt first, what is
on the stream and unread when the prompt is answered is never handled, so that with no
failure at all the end of the events can be missing as well, or all of them (the answer
itself is taken from the prompt); an added slot "survives a restart" (bot.rs:95-96), but
one with the URL of another is added and written, and the next start refuses the
file (config.rs:499-503); codes are single-use (pairing.rs:1), but two approvals of one
code at the same time both bind (pairing.rs:119-128), and one whose deletion fails after it
has bound leaves the code for another (pairing.rs:128-129). The others follow from a few
lines: the reconciliation of deltas missed in a reconnection that events.rs:340-421
offers is called by nothing, so the live view has a gap until the final edit; tool
failures are "always shown" (render.rs:36), but under an answer that fills the live
message not before the final edit (stream.rs:359-368); after `/new` the routing row is
gone, so `/stop` answers that there is nothing to stop while the prompt runs on
(bot.rs:836-838, 862); an expired file is served until the next sweep
(mcp/store.rs:222-224, 228); a bound chat whose slot is not live is taken for
unauthorized and gets a pairing code, though bot.rs:129-131 says that it is authorized
whether or not its opencode has connected (auth.rs:31); the owner a slot declares is
bound to it again at every start, over a later approval (bot.rs:140); a message can be
refused though no turn is in flight, because the channel counts the job the new worker
has not yet received (bot.rs:44-46, 184); `/stop` leaves the pending rows behind
(bot.rs:860, execution-plan.md:414); nothing re-surfaces pending gates after a restart
(execution-plan.md:415-416); a gate deeper than `MAX_PARENT_DEPTH` is dropped though the
module doc says "at any depth" (permission.rs:20-22); two chats that draw the same code
at once both find it free and the later insert replaces the earlier (pairing.rs:81-92) —
the earlier user's code then enrols the later one.

And those of the modules `EventStream`, `InboundMedia`, `Outbox`, `SlotRegistry`, `SendFile`,
`AdminChannel` and `MarkdownChunks`, each of them a behaviour of its module:

* after a reconnection the turn does not use `SeenParts`, which exists so that a part
  already seen is not handled again (events.rs:19-22);
* a gate asked while the stream is down is never posted, and the turn waits for it until
  `/stop` (stream.rs:117-119);
* an outbox file is sent "once, and whole" (outbox.rs:15-16), but one that is rewritten
  during its upload, or whose writer pauses longer than the quiet period, goes out in part
  or twice;
* "fires whenever a file lands there" (outbox.rs:7-9), but a file that is renamed to its
  final name causes no event `is_write` lets through and is never sent;
* an upload that fails is logged and not made again (outbox.rs:185-193): the file that
  "fires" the watcher is not forwarded until it is written to once more;
* slots "must target distinct instances" (config.rs:499-503), but nothing asks for distinct
  names: two `[[slots]]` of one name load, both their startup tasks insert under it
  (lib.rs:297-308), and a live slot changes its instance;
* "Handler failures become `AdminResponse::Error`" (admin.rs:344), but an approve that has
  bound the chat and used the code is answered with an error when the user cannot be
  notified or the code not deleted (bot.rs:535-545, pairing.rs:129), and so is a connect
  that has written the file and fails at the binding;
* `proxy connect` retries a bounded number of times, and each of its requests has no
  timeout (client.rs:37-44, health.rs:30-31, lib.rs:343-358): an instance that takes the
  connection and does not answer keeps the command, and its handler, waiting;
* not only a "stale socket left by a previous process" is unlinked (admin.rs:16-17): a
  second daemon takes the path from the one that serves, and the first, on shutdown, from
  the second. `Overlap = TRUE` lets daemons overlap, and `SocketIsServed` fails;
* `chat_for_slot` "takes the **oldest**" binding (persistence.rs:232-233), but the owner of the
  configuration is stamped anew at every start, so after a restart another is the oldest;
* `send_file` goes to "the Telegram user you are working with" (mcp/mod.rs:142): with two
  chats bound to a slot it goes to one of them, whoever's turn it is;
* a file "announced to the model" stays downloadable for `ttl_secs` (config.rs:349-351), but
  the time runs from its download, before the turn that announces it is even queued;
* a chunk is "at most `limit` characters once rendered" and "a valid, sendable message"
  (markdown.rs:64-65), but a line that is cut is escaped afterwards and may not fit, and a
  chunk of line ends renders to nothing; a code block that is cut turns inside out, though
  markdown.rs:67-69 says that a cut run is literal on both sides.

### Bounds

* `turn_queue`: two chats of up to four messages, depth 2, three workers, one panic. With
  depth 2 a backlog of four is turn, full queue, one refused. Three workers let one chat
  lose its worker and get a new one while the other has its own.
* `session_routing`: two chats, two slots, queue 1, two messages each, two commands and
  one fault. Every race found needs one command and one turn's resolution, and a second
  turn to show the effect; the second slot and second command allow a re-binding.
* `permission_gate`: two chats, one gate each (one of a subagent), one turn each, one each
  of dropped stream, lost reply, refused statement and restart. Interference is between two owners on one
  stream; more gates of one chat are independent rows.
* `LiveRender`: two parts of two deltas, the second of them blank, of any kind, and two calls of one tool, every
  verbosity. Two deltas can have a part frame before, between and after them; two parts
  interleave and narrate; two calls of one tool share a tally and a failure line. Parts
  are symmetric, and so are calls.
* `LiveSink`: three versions of the view, answers of up to two chunks, two attempts, two
  texts Telegram cannot parse (one of the view, one of the answer), two lost replies, one
  refusal. Two chunks are the live message and what follows it; with two attempts a call
  is retried and given up; two lost replies hit a flush and the final edit.
* `TurnScope`: a root, three sessions, cap 2, one failure, all 6^4 relations up to symmetry
  and several gates one after another. Three sessions make a chain of cap + 1, a branch
  beside the root, or a cycle longer than the cap.
* `file_store`: two files, two takers, limit 2, chunk 2, sources up to 3: below, at and
  over the limit, with a chunk that crosses it.
* `slot_registry`: two names, two instances, two chats, two admins; the file declares one
  slot with an owner, or two of one name (then with one connect and both instances
  reachable at first); two connects, one outage or recovery, one restart. A hazard needs at
  most two runs of `ensure_connected_impl`, or one and a restart between its steps. The
  instance that a connect may add is reachable at first, and the second admin comes in
  only while the first is busy: which of them makes a connect matters to nothing else.
* `EventStream`: three events of the turn, one failure of the connection, one frame of noise:
  an event before the stream is open, one on it and one after the failure.
* `InboundMedia`: two texts and two files of one chat, in any order, queue depth 1, lifetime
  1, two ticks, both paths, the server bound or not. A file of lifetime 1 outlives a turn,
  or does not.
* `MarkdownChunks`: documents of up to five lines of five kinds (short, blank, a fence, one
  that only escaping makes too long, one that does so at exactly the limit), limit 12, a
  log of 0, 1 or 4 characters. Five lines make a block with a chunk edge inside.
* `Outbox`: two names for deliverables, one of them written twice and once in two pieces, and
  a hidden name, three versions written in all; quiet period 2, pauses of at most 1, one start, one failed upload. One file
  can be in upload while the other is written or settled. In `outbox_settled`: one file
  that is written and closed, and one whose writer goes on.
* `SendFile`: two chats that pair, a slot with an owner in the configuration and one
  without, one call of three attempts, two ticks, two starts.
* `AdminChannel`: two daemons one after the other, two commands, each over either transport,
  one failing call. What a daemon can do to the next is done by one to one.
* `Migrations`: two processes with two starts each, from every earlier version.
* `pairing`: two chats, two codes, two admins, lifetime 1, two codes issued, two ticks, one
  crash or failing statement; chats, codes and admins are symmetric.

The symmetric runs check no liveness. `CHECK_DEADLOCK FALSE` is set because every system
here may come to rest: messages, commands and time are bounded, and without input the
program waits.

### Fairness

* `TurnQueue`: the runtime polls a worker that can receive or exit, and `shutdown` when
  its future is ready or its timer fires. Nothing makes a turn return: `run_turn` has no
  timeout. `AcceptedIsServed` therefore carries the hypothesis `TurnsReturn`;
  `ShutdownReturns` does not, as the grace makes up for it.
* `PermissionGate`: requests on the way are answered, messages sent, a slot that is down
  is reconnected (the reconnect task tries for ever), and *the user keeps tapping* one of
  the buttons while they are shown. The last is an assumption on the environment, part
  of the statement: without a tap a gate rightly stays pending. There is no fairness of
  the stream, of `/stop` or of the agent.
* `LiveSink`: the ticker ticks, a call returns something (the Telegram client has a timeout),
  a sleep ends, and the task goes on. Neither the prompt nor the network owes anything.
* `FileStore`: the clock moves and the sweeper runs at its ticks. Takers and puts owe
  nothing.
* `SlotRegistry`: a startup task polls its instance, which answers as it is reachable, and
  then inserts; a connect that has the instance goes on to the end. `OwnersAreServed` assumes that every instance stays
  reachable, as a startup task gives up after its attempts.
* `EventStream`: the runtime polls a turn that can go on, opencode accepts connections, ends
  the turn it was prompted for and answers the prompt, and a user taps a gate that was
  posted. Nothing makes opencode emit, the
  connection fail or hold, or anybody send `/stop`.
* `Outbox`: `relay` runs, an upload returns, well or not, time passes, and an agent that has
  opened a file goes on with it (and, where `Endless` is `FALSE`, closes it in the end: one
  that never does is `outbox_settled`). Nothing makes it open, rename or remove one.
* `AdminChannel`: a process that runs goes on, the drain of `shutdown` ends, and a handler
  goes on where it waits for the database, for the bot's client or for a probe, which have
  timeouts. The wait of a connect for its instance has none (`AwaitsInstance`), and is owed
  nothing; `CommandIsSettled` names it as the one exception. Nothing starts, stops or kills a daemon, and no command
  has to connect.
* The other modules are checked for safety only.

## 4. Proofs

Checked by TLAPS for every value of the constants that satisfies the assumptions named in
the modules: nulls outside their sets, bounds that are natural numbers, a queue depth, a
number of attempts and a message limit above zero, declared slots that are valid, a log
that leaves room in a message. Each theorem below is proved from an inductive invariant,
by one step for every action; the facts on sequences and sets these steps share are lemmas.

Some definitions recur (the generations of a family, concatenation of pieces, the parser's
state along a document). They are recursive functions, and what is proved of them is proved
without an induction rule: were it false of some number there would be a least one
(`LeastNumber`, from the well-foundedness of the order of the natural numbers), and the
step from its predecessor contradicts that. The same argument shows that the function
exists at all, which its definition by `CHOOSE` does not say.

**`TurnQueueProofs`** — `TypeCorrect`, `TurnsAreSerial`, `NoJobForgotten`, `DrainIsComplete`,
`FirstComeFirstServed`, `QueuesAreSerialServers`. `SerialTurns` is not inductive: a new worker
is safe only because an absent or dead map entry means that the chat has no live worker.
`StructureInv` says that: while serving, the map names every live worker; once draining,
`shutdown` holds all their handles; afterwards none is live. `AccountInv` then says that the
accepted jobs of a chat are exactly those completed, lost, or with a live worker of the
chat. `OrderInv` says completed < running < waiting <= arrived. `QueuesAreSerialServers` is the
refinement of `SerialService`: `ServerInv` says that a chat's server is its one live worker,
so that accepting, receiving, finishing and panicking are steps of that server, and every
step that leaves the workers of a chat alone leaves its server alone; what a server holds
is what its worker has in flight or in its channel (`HeldByServer`), so that a panic and the
end of the grace drop just that, and a drain that ends finds every server empty.

**`LiveRenderProofs`**, of `LiveRender` — `TypeCorrect`, `NoReasoningIsShown`,
`NothingIsLostOrRepeated`, `NarrationIsEchoedOnce`, `FooterIsTrue`, `EveryFailureIsTold`,
`LogIsCurrent`. Every step is about text or about tools and leaves the other alone
(`ToolSteps`), so that each invariant is carried past half of the steps at once. Reasoning
stays hidden because the router puts only parts of kind text among those it shows
(`ProvenIsText`). `RouteInv` accounts for every delta: of a part that is known to be text what
has arrived is shown, of one whose kind is not known it is pending, in the order of arrival;
so the answer holds what came, once, in order, whenever the frames of the parts come. For
narration `EchoInv` says that each echo in the log goes further in the answer than the one
before it, between the last of them and the mark there is only blank text, and a new one
is followed by the line of a call. The footer is true because the counted
calls are exactly the finished ones (`TallyInv`); a tally then grows with a set by one
element. The log is current because a call has a line exactly when a frame of it has
arrived, and only one (`OneLine`).

The same module, of `TurnScope` — `WalksAreShort`, `MemoNeverLies`, `OnlyOursIsSurfaced`,
`NearIsFound`, for any sessions and any parent relation. `Family` is defined by closure, so
that membership passes up and down a parent link by minimality. The invariant is
`OneBranch`: in a walk, the session asked about, those passed and the cursor are all in the
family or all outside. Whatever the end of the walk settles is therefore true of each.
`NearIsFound` is the converse for a session at most the cap from the root: on its way up the
walk stands in a generation that the lookups left are enough for (`NearInv`), whatever
earlier walks have put into the memo.

**`LiveSinkProofs`**, of `LiveSink` — `TypeCorrect`, `BeliefIsTrue`, `NoFailureOfItsOwn`,
`TheAnswerIsShown`. `ReturnsCases` reduces what can come back of a call to an end that is
well, an end that is not, and going on. `BelievedIsShown` is kept by going on to `finalize` as
well (`BeliefInv`), and an edit that is tried while no reply was lost is of a text that
differs from what is believed (`EditInv`); so Telegram sees no edit that changes nothing,
and a turn fails only for a reason (`CauseInv`). `AnswerInv` follows the answer to the chat:
while streaming, a view that is believed to be shown is shown (`ViewInv`); in `finalize` the
chunks that are through are shown in order, and while no reply was lost nothing else
is, and a call is for the next one (`FinalInv`); at the end all of them are (`EndInv`). A
note is for a turn without an answer (`NoteInv`), and a text is plain only because Telegram
could not parse it (`ModeInv`).

The same module, of `MarkdownChunks` — `NothingIsCutAway`, `ChunksFit`. For the first the
invariant is `CutSoFar(k)`: the chunks and the buffer together are the first `k` lines of
the answer, and what the loop has not seen is the rest. A line that is cut by characters
is the concatenation of its parts (`HardSplitIsWhole`), for any line and any limit, a newline
being cut like any other character. For the second, `FitInv` says that what is buffered, and each
chunk of whole lines, leaves room for the log, which is put before one of them only at the
end; nothing is assumed of the renderer but that it yields a length
(`RenderedType`).

**`FileTransferProofs`** — of `FileStore`: `TypeCorrect`, `OnceAndWhole`, `LimitIsKept`,
`NoFileIsOrphaned`, with `ServedIsGone` as the strengthening: what has been served is no longer
owned by anyone, so no second taker can have it. Of `SendFile`: `ToolTellsTheTruth` and
`SoleChatReceives`. `Counted` says that an attempt delivers at most once and that, until a
reply is lost, only the attempt that succeeds delivers; `Alone` says that, while a chat has
its slot to itself, the recipient can be no other, restarts and their new stamps
included. Of `Outbox`: `OutboxSendsWhole`, whose hypothesis is part of the property: the
pauses within a file are shorter than the quiet period. A file is then flushed only after
it is closed (`Quiescent`, `Timed`), and once it is taken no event of it follows (`Once`).

**`PairingProofs`** — of `Pairing`: `TypeCorrect`, `OneActiveCode`, `BoundByOwnCode`, `SingleUse`.
`issue_code` deletes the chat's earlier row several statements before it inserts the new
one, so that there is one code per chat only because nothing gives the chat a row in
between: `CleanInv` says that from the deletion to the insertion it has none. An approval
binds what it looked up, which may be gone or issued anew by then; `IssuedInv` says that every
row, and every row in a connection's hands, was issued to its chat with the expiry it
carries. For `SingleUse`, `NumberedInv` says that an issue's number is of one row, and
`Careful` that an issue no two admins handled at a time, and whose admin was not cut off,
is spent only if no row of it is left, or the admin who spent it is about to delete it. Of `Migrations`: `SchemaStaysTrue`.
`Migrated` says that what is stamped is there, and that each process has the effect of the
statements it is past, whatever the other has done or begun again.

**`PermissionGateProofs`** — of `PermissionGate`: `TypeCorrect`, `OnlyTheOwnerIsAsked`,
`OnlyTheOwnerDecides`, `ShownButtonsWork`. Every event of a stream reaches every turn of the
instance, so the first rests on `PostedByOwner`: what a turn posts is a gate it owns. For the
second, a decision exists only in the callback that forwards it, and that callback was a
tap of the same kind (`ForwardsATap`). For the third, `Untouched`, `Settled` and `Recorded`
follow a gate from its row, which is written before its buttons, to the deletion after the
reply. Of `EventStream`: `BetweenTheEndsNoneIsSkipped`. While no connection has failed, the events
handled are those from the opening of the stream on, and the ones after them are all on
the wire, in order, noise aside; so a frame handled extends the run by one, and what the
turn discards at its end is the end of the events and nothing before it.

**`SessionRoutingProofs`** — of `SessionRouting`: `TypeCorrect`, `NoSessionIsShared`,
`NoPromptIsUngated`, `OnlyTheStruckFail`, `NewIsFinalButForTheRace`, `StopEndsItsOwn`. `Held(c)` is
every session id that a chat has run in, has in its row or in its turn. `Handover` says
what a step can do to it: an id passes from row to turn, from turn to row, from turn to
the history, or is new. As a new id is beyond every id so far, the chats' holdings stay
disjoint (`Private`). `GatedInv` follows an id from the request that creates it to the row: it
gets past `patch` only if the rules were accepted, so every id in a row, and every prompt,
is gated. A turn fails only when a fault struck it because the id it has resolved is known
to its instance until then (`StruckInv`). For `/new`, what a queued job knew to be retired
still is when it runs (`EarlierInv`), and without the race no row or resolving turn has a
retired id (`FreshInv`). For `/stop`, the dispatcher that awaits the abort is the one that
would send the chat's next message, and the aborted id is nobody else's (`StopInv`).

The same module, of `InboundMedia` — `TurnsAreInSendingOrder` and `RefusalsHaveCause`. A message
behind one still in its handler is not in its own (`InboxInv`), so the turns run and queued
are in the order of the inbox (`LineInv`). A file that a turn is to announce is in the
store, or was taken by that very turn, or is out of time (`KeptInv`).

**`SlotRegistryProofs`** — of `SlotRegistry`: `SlotRegistryTypeCorrect`, `TheFileIsTheTruth`,
`InstancesStay`. `RegistryInv` says what holds as long as no two connects have added a slot at
once: what was loaded, what is live and what is bound is in the file, and each task that
is under way carries, for its slot, the instance the slot has (`TidyExisting`,
`TidyDeclared`) or is the only one that adds, under a name that nobody has, having read the
file it will replace (`TidyNew`). `InstancesStay` needs less, and holds when two adds of
different names overlap: of a name that is not given twice, one task at most adds the slot,
what is live is what was loaded, and a task carries that instance (`FixedInv`). Of `AdminChannel`: `OutcomesAreTrue`, for any number of
overlapping daemons (an effect is carried out once, before its answer, and an error after
it is of a command with more to do), and `TheSocketIsServed`, for daemons that do not overlap: then at most
one lives (`OneAlive`), and its socket is at the path from its bind until it stops.

**The composition theorems.** `RenderIsComposed`, `SinkIsComposed`, `WaysAreComposed`,
`PairingIsComposed`, `GateIsComposed`, `RoutingIsComposed` and `RegistryIsComposed` say that a
behaviour of a run's specification is one of each of its modules. The theorems above are of
the modules' own specifications and carry over by these.

What the proofs changed in the models: the conditions of a `CASE` in `SessionRouting`'s
`Wipe` overlapped, so that its value was open where the code's is not; they are disjoint
now. Of the same meaning as before, but open to the provers, are `AnswerIsWhatCame` (the
deltas shown as a set, and their order, in place of a selected subsequence), the
generations of `TurnScope` (a function of its own), and in `MarkdownChunks` the parser (a
recursive function in place of a fold), the count of reserved characters and that of the
parts of a line (a minimum in place of a division).

A few leaves name their prover and its time (`SMTT(30)`, `ZenonT(40)`): they are proved well
within it, but near the default.

Only model-checked: what needs fairness or `ENABLED` (`ShutdownReturns`, `AcceptedIsServed`,
`ShownIsDecided`, `WireIsRead`, `TurnIsFinished`, `UnfetchedIsReclaimed`, `LandedIsUploaded`,
`OwnersAreServed`, `CommandIsSettled`); TLAPS has no rule for either here. Every invariant and
every other action property of a passing run is a theorem. The types of `EventStream` and
`MarkdownChunks` are proved only as far as these theorems need them: `SelectSeq`, which gives
what is sent again after a reconnection, has no facts in the provers' library. The four
counterexamples are TLC's.

## 5. Not modelled, and why

Inline markup, lists, quotes and tables of the Markdown conversion, the layout of the
live view, (de)serialization and the types of the opencode client, configuration
parsing, argument parsing and printing are sequential text functions that unit tests
cover well. The verbosity settings are one row written and read by itself, and the WAL
checkpoint at shutdown has no effect on what the tables say. HTTP, SQLite and Telegram
are modelled by what the code relies on: a request is answered, fails before it takes
effect, or takes effect. (A reply that is lost after opencode took it is, to
`handle_callback`, the same `Err`; the gate is then decided already.) SQLite statements
are atomic. opencode's own behaviour is marked external in the map.

## 6. Plan

1. Compositions that share state: `PermissionGate` with ownership resolved by `TurnScope`;
   `EventStream` feeding `PermissionGate` and `LiveRender`; `SessionRouting` over the interface of
   `SerialService`; `LiveSink` fed by `LiveRender` and `MarkdownChunks`, with the abstract
   specification that what the chat shows at the end is the answer.
2. Proofs: the types of `EventStream` and `MarkdownChunks`; the safety part of the
   compositions above, once they share state; the counterexamples' complements
   (`...Unless...`) with a weaker exclusion, where one is found.
