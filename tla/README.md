# A TLA+ model of teams-knowledge-sync

The repository holds two programs that copy Microsoft 365 data into local SQLite files and serve searches over them:

* `outlook-knowledge` (`cmd/outlook-knowledge`) copies mail, folder by folder, and calendars, window by window, with Graph *delta queries*; it runs as a daemon or as a command.
* `teams-knowledge` (`cmd/teams`) copies Teams channels and chats by re-reading an overlapping stretch of time; it runs as a command, serves MCP, and its daemon receives webhooks.

Both reduce to one question: *does the local copy follow the remote state, whatever fails and in whatever order things happen?* This directory states that question precisely, model-checks it with TLC and proves large parts of it with TLAPS.

## 1. Inventory

Component | State it keeps | Operations | Talks to | What is hard | What makes it correct
---|---|---|---|---|---
mail delta walk (`internal/mail/sync.go`, `internal/outlookstore/mailsync.go`) | `mail_sync_states`: next link, delta link, error; in memory: page, URL, start link | SyncFolder, SyncAll, SyncOne, ResetFolder | Graph, mail store | paging, checkpoints, lookups per message, lost answers, expired tokens, crashes, two processes on one file | no change is skipped by a committed link; resume skips only what is stored; deletions and moves arrive; everything arrives eventually
mail store (`outlookstore/mail.go`) | `mail_messages` and satellites, FTS | UpsertMailMessage, TombstoneMail, searches | SQLite | upsert and tombstone of one message from two folders | a row never goes back, a move does not lose the message
folder resolution (`mail/sync.go`) | `mail_folders` | ResolveFolders, ResolveFolder | Graph | a name that cannot be looked up, two names of one folder | excluded folders are never fetched, none is walked twice
mail classification (`mail/classify.go`) | none | Classify | - | priority of the rules | agrees with the configured rules
outlook daemon (`cmd/outlook-knowledge/main.go`) | ticker, signal | run loop | mail and calendar services | failure isolation, shutdown | a failure never ends the loop, a signal does
calendar sync (`calendar/sync.go`, `outlookstore/calendarsync.go`) | `calendar_sync_windows` | SyncAll, SyncWindows, SyncRange, reset | Graph, calendar store | events that move between windows, series masters, tombstones by window, a new month | what a link covers is stored; an event is live iff some window holds it
calendar windows (`calendar/window.go`) | none | Windows | clock | month rollover, half-open bounds | windows tile the configured range
calendar store (`outlookstore/calendar.go`) | `calendar_events` and satellites | UpsertEvent, TombstoneEvent, EventBounds, HasEvent | SQLite | check-then-act on bounds | as the mail store
Teams sync (`sync/sync.go`) | `sync_states`: last success | SyncTeam, SyncChats, SyncChannel, SyncChat, FetchURL | Graph, Teams store | success time against overlap, paging order, failure isolation, exclusion | the success time never passes a change that is not stored
Teams store (`store/store.go`) | `containers`, `messages`, `sync_states`, `chat_exclusions`, `notification_events` | upserts, RecordSyncSuccess, RecordSyncFailure, ExcludeChat | SQLite | NULL columns, statements without a transaction | a failure leaves the state readable
Graph client (`graph/client.go`) | none | Do, GetPage, Page, PageUntil | token cache, HTTP | retries, waits longer than a token lives, empty answers | an answer or an error in bounded attempts, each with a token of its own
token cache (`auth/auth.go`) | encrypted file, key in the OS store | Login, AccessToken, Logout | OS, Entra | processes that share both, a crash while writing | a token that was saved can be read; a refresh token is not lost; no request carries an expired token
webhook (`notify/webhook.go`) | `notification_events` | handle | Graph, store | duplicates, unbounded queue | every accepted notification is queued
rest: `mcpserver`, `teamsurl`, `text`, `config`, `domain`, the command lines | none of their own | - | - | - | pure or read-only; not modelled

The hazards of the code, each at its line with the properties that watch it, are listed in `PROJECT.json` under `hazards`; an entry without a property says why it has none.

## 2. The modules

Module | Models | Uses
---|---|---
`MailDelta` | the delta walk of mail folders, with all of its failures | -
`DeltaReplica` | abstract: a copy that follows a source through feeds with cursors | implemented by `MailDelta`
`CalendarWindows` | how the horizon is cut into windows (pure operators) | -
`CalendarSync` | the windowed delta walk of a calendar, its event rows and series masters | `CalendarWindows`
`TeamsSync` | the overlap synchronisation of channels and chats, exclusion, `FetchURL` | -
`TokenCache` | the token file and its key, shared by processes | -
`OutlookDaemon` | the daemon's loop, folder resolution, each Graph call with retries and tokens | `TokenCache`
`MC...` | instances for TLC | the module of that name
`...Proofs` | theorems (section 8) | the module of that name; `MailReplicaProofs` continues `MailDeltaProofs`, `TeamsOverlapProofs` continues `TeamsSuccessProofs` and that `TeamsSyncProofs`

`OutlookDaemon` is where the components meet: it runs mail and calendar one after the other over one token cache; in it the walk of a folder or a calendar is one Graph call, and `MailDelta` and `CalendarSync` say what that walk does. Conversely those two modules see a Graph call as one step that succeeds, fails or answers 410.

What is left, in order of worth: the matching rules of `Classify` as operators; an abstract specification for calendars like the one mail has. Every invariant and every action property of the passing runs is proved.

## 3. `MailDelta` and `DeltaReplica`

### What it models

State | Code
---|---
`clock`, `box`, `gone`, `floor` | the mailbox behind Graph (external)
`rows` | `mail_messages`: folder, content (as the number of the change it shows), `deleted_at` (`live`), whether its attachments are all there (`whole`)
`lost` | history, which the program does not keep: the version of each message last applied with a lookup's answer lost
`sync` | `mail_sync_states`: `next_link`, `delta_link`, and whether the folder has failed since its last success (`last_error`, `consecutive_failures`)
`pc`, `queue`, `folder`, `base`, `url`, `page`, `link`, `mayReset` | the locals of `SyncAll` and `syncFolderDelta`: folders to do, `st.DeltaLink`, `pageURL`, `page.Value`, the page's links, `allowReset`

Every step that another process could observe, or after which a process could die, is an action: reading the state (`Begin`), one `GetPage` (`FetchPage`, `FetchEmptyBody`, `FetchGone`, `FetchGoneAgain`, `FetchFails`), one item (`ApplyItem`, `LookupLost`, `ItemFails`), the checkpoint (`SaveMailNextLink`), the commit (`CommitMailDeltaLink`), or the failure of a cursor's read, reset or write (`CursorFails`). `Crash` may happen anywhere. `SyncAll`, `SyncOne` and `SyncFull` are the entry points of the daemon and of `mail sync`. Processes in `Daemons` and `Clis` interleave freely over one database.

`storeMatched` makes Graph calls of its own for a message: `fetchHeaders` before it decides that a message does not match, when the payload has no headers and some rule is about headers, and `fetchAttachments` before it stores one that has attachments. In `ApplyItem` they are answered in full, in `ItemFails` one of them returns an error, and in `LookupLost` one is answered by a 2xx whose body was lost, which `graph.do` takes for an empty answer without an error (`graph/client.go:102-109`): a message that matches by its headers is then not stored, and a message with attachments is stored without them (not `whole`); both ways the walk goes on and commits. Which of the lookups a message takes is part of its content (`asks`).

Graph is modelled from what the code expects of it: a delta query since a link lists every message of the folder that changed after the link and an `@removed` entry for every message that left; a full listing (no link) has no `@removed` entry; pages show a message as it is when the page is fetched; the delta link of the last page covers everything up to the moment the walk was opened; any link may expire (410 Gone).

### Abstractions

* The content of a message is the number of its last change; the satellite tables, rewritten in the same transaction, belong to it. What `Classify` says of the whole message, headers included, and which lookups it takes are part of the message (`Content`); what it says without the headers is the code's business (`LookupLost`). The lookups of one message and its upsert are one step: a message's headers and attachments do not change under its version.
* Left out: the lookback cutoff (messages that are too old for the first listing), partial payloads, changes of the configured addresses, the columns that only report. `RecordMailSyncFailure` itself does not fail; a database error elsewhere is an `error` fault.
* Folders come resolved (`OutlookDaemon` resolves them) and in any order; `--full` drops all cursors in one step.
* `faults` counts disturbances and `clock` counts changes of the mailbox; `MaxFaults` and `MaxClock` bound them and are the only bounds. `Faults` selects which kinds an instance admits.

### Properties

* `NothingMissed`: a committed delta link never covers a change that the rows do not show, the versions whose own lookup lost its answer apart (`Spoiled`). This is what makes a delta query that starts there complete, and says that one lost lookup takes no other message with it, and that the message itself is complete again when it is next listed.
* `ResumeSkipsNothing`: the same for a stored nextLink, the messages it will still list apart.
* `RowsOnlyAdvance` (one process): no row is replaced by an older version.
* `DeltaLosesNoDeletion`: while a folder has a delta link, no step loses a deletion, whatever fails.
* `EventuallyMirrored`, `FailuresClear`: after the last change and the last failure, the database gets every wanted message that is not `Spoiled`, and no folder stays in error.
* `IsReplica`: one process implements `DeltaReplica`.
* `MailInv`: the inductive invariant of section 8.
* `DeletionsReflected`, `MovedMessageKept`: what the documents and comments say, and the code does not do (section 7).

`DeltaReplica` is what a reader of the database may rely on, with no pages, links or errors in it: a source of keys in feeds, a copy, a cursor per feed. A cursor may only move to where the copy shows everything but what was spoilt (`Commit`), a stored version is not older than the one it replaces and never undoes what a cursor promises (`Store`), only a version that no cursor is past can be spoilt (`Spoil`), and a cursor can be forgotten (`Forget`). The mapping sends a message that does not match, and a tombstone, outside all feeds, takes the committed delta links as cursors and `lost` as what was spoilt.

The exception for `Spoiled` versions is the code's: one lookup of headers that loses its answer has a message that matches by its headers counted as unmatched (`mail/sync.go:262-268`), and the delta link is committed past it, so that no delta query lists it again before it changes. The comment at `mail/sync.go:260-261` wants the headers fetched "before deciding the message is unmatched"; here the decision is made without them. Without the exception `NothingMissed` fails in six steps, with one message, one folder and one fault, and a lost answer about attachments leaves a message without them just as lastingly.

One more difference met while modelling, which no order of events is needed for: a stored message that *stops* matching keeps its old row, since `storeMatched` returns before it touches it (`mail/sync.go:267`), while `docs/initial-mail-plan.md:1021` expects the local state to follow; the properties therefore speak of wanted messages.

Fairness is weak fairness of `Work(p)` for each daemon: its loop (`daemonCmd`) has no exit but a signal, and each of its steps returns. Nothing is assumed of the mailbox, of the faults or of command-line runs.

## 4. `CalendarWindows` and `CalendarSync`

### What they model

`CalendarWindows` is `Windows` of `window.go`: back from the current month in pieces of `historical_months_per_window`, the two months from it on in pieces of `recent_months_per_window` with the last one clipped, forward in pieces of `future_months_per_window`, as long as they meet the horizon. Months are all `MonthLen` ticks long; the code has their real lengths from `AddDate`, always from a first of a month.

State | Code
---|---
`now` | the wall clock, from which `EnsureWindows` computes the windows
`clock`, `cal`, `left`, `floor` | the calendar behind Graph (external): each event's range, last change and existence; when it last left each window; which links have expired
`rows`, `masters` | `calendar_events`: range, change shown, `deleted_at` (`live`); the series masters among them
`sync` | `calendar_sync_windows`, one row per window
`run` | the locals of `SyncWindows`, `syncWindowDelta` and `SyncRange`: windows to do, `fetchedMasters`, page, links, `allowReset`
`unfetched` | history: masters whose fetch failed

The walk of a window is that of a mail folder with three differences. A removal notice names an event, not a window: it may be for an event that has only moved, so `EventBounds` reads the stored range, and `TombstoneCalendarEvent` tombstones in a second transaction if the range meets the window (`Owned`). An occurrence brings its series master: `StoreEvent` stores the occurrence and asks for the master, `FetchSeriesMaster` fetches it unless this walk has asked before or it is stored (`HasEvent`), and its failure is only logged. And the windows themselves move with the month (`NewMonth`). `SyncRange` (`calendar sync --from --to`) lists a calendarView page by page and upserts, without any state.

Graph additionally may send a removal notice for events that changed outside the window (`Strays`). `Broken` windows answer every request with an error; they stand for a failure that does not go away. `Expire` (410) is bounded by `MaxClock` only.

### Abstractions

* As in `MailDelta`: content as the number of a change, links as numbers, the attendees, categories and text index of an event as part of its row. One calendar: `calendar_id` is part of every key, so calendars do not meet.
* A range is a pair of ticks of a small set `Bounds`, half-open as in the code; an instant (`start = end`) is one of them, because the comparisons of `applyDeltaItem` treat it differently from Graph's.
* A `SyncRange` counts as one disturbance, whether it fails or not, so that an instance may bound how many there are.

### Properties

* `NothingMissed`, `ResumeSkipsNothing`: as for mail, although the notice of one window and the new copy in another arrive in either order.
* `MastersFollow`: a stored event that a link covers has its master, unless its one fetch failed: a crash between the two does not lose it, because the page comes again.
* `DeltaLosesNoDeletion`: no step loses a deletion or move of a window that has a link, an instant at the window's start apart, which the strict comparison gives to no window.
* `RowsOnlyAdvance`: one process never stores an older version, the pages of a `SyncRange` included.
* `HorizonTiled`: every tick of the horizon is in exactly one window, on each day of the month and for a range of sizes (and for all of them: section 8).
* `EventuallyMirrored`: after the last change and the last failure every event of the horizon that is not in a broken window is stored as it is.
* `DeletionsReflected`, `OwnerTombstones`: what a document and a comment say, and the code does not do (section 7).

Fairness: a process that has started goes on (`WF` of `Continue`), and the daemon's ticker fires again (`WF` of `SyncWindows` for daemons).

## 5. `TeamsSync`

### What it models

State | Code
---|---
`time`, `written`, `shown`, `changes` | the messages behind Graph: when each was last changed, and which change Graph shows (external)
`rows` | `messages`: which change the row shows
`sync` | `sync_states`: no row, a row whose `last_success_at` is NULL, or both times; and whether the last run failed
`excluded` | `chat_exclusions`
`groups`, `queue` | what is left of the command: teams (and the chats, which come last), containers of the current team
`walk`, `page`, `pc` | the locals of `syncResource` and of `PageUntil`: `started`, `since`, the items of the page that are not upserted yet

A run goes `SyncContainer` (note the time), `ReadState` (GetSyncState and the lower bound), `ListPage`, `UpsertMessage` for each message, `RepliesPage` for the replies behind a `replies@odata.nextLink`, `ThreadDone` (stop, next page or end), `RecordSyncSuccess`. Each of them can fail: `StateUnreadable`, `StateFails`, `RunFails` (with `RecordSyncFailure`, whose own error the code ignores), `ExcludeChat`, `ListEmptyBody`, `RepliesEmptyBody`, `GroupFails`, `Crash`. `FetchURL` of the command line or of the MCP server runs as a process of its own over the same rows.

The code compares times, so the model has them: a tick is the grain of the compared timestamps. Graph lists threads from the newest to the oldest, replies included, and splits pages, and the replies in them, anywhere; a thread that changes after the walk passed it is not listed again. A change shows up to `Lag` ticks after its timestamp: delay in Graph and skew between the clocks. A process holds fetched items for at most `Hold` ticks.

### Abstractions

* The content of a message is the time of its last change; deleting a message is a change.
* Left out: the `containers` table (no decision of a sync reads `is_enabled`), configured `exclude_ids` and disabled teams (they are not in `Chats` and `Teams`), the parent id that `FetchURL` writes, and the waiting and retrying inside one Graph call (see section 6).
* `ExcludeChat`, its preceding failure record included, is one step, and so is `IsChatExcluded` with the start of the run.
* `MaxTime`, `MaxChanges` and `MaxFaults` are the bounds. `Lookback` is kept as a number, in ticks.
* `Lag + Hold < Overlap` is assumed: the code's 24 hours against delays of seconds or minutes. The run itself may take any time.

### Properties

* `SuccessCovers`: with one sync process, once a run succeeded, what was at rest before it started is stored. The success time is the start of the run, so the next run reads again everything that moved in the meantime; a run that failed or died leaves the old time.
* `OverlapHeals`: with any number of processes and `FetchURL`s, the same for messages older than the overlap. `UpsertMessage` compares no version, so a slower process may store an older copy; the overlap is what repairs it.
* `ExcludedUntouched`: one process leaves a chat alone from the moment it excludes it.
* `OthersFollow`: after the last failure the success time of every container that was synced once and is not excluded follows the clock, whatever became of the others.
* `FailuresClear`: a failed container succeeds again. The code does not have it (section 7).

Messages in `InReach` are those the first successful run could see. `OverlapHeals` needs, besides, that no run is longer than `Lookback - Overlap` (`RunsShort`). Of two first runs of one container that overlap, the later one reaches less far back and may record its success over the row of the earlier one; were the earlier one so slow that the lookback of the later no longer reaches its start, what was written in between is skipped by both. With a lookback of 2, an overlap of 1 and slow runs TLC finds exactly that. The defaults are 365 days and 24 hours; in `teams_overlap` `Lookback` is 4, `Overlap` 2 and time ends at 3, so that no run can be longer.

Two limits of these properties are the code's. `SyncTeam` returns at the first channel that fails (`sync/sync.go:57`), so a channel that always fails hides those that Graph lists after it, where `docs/initial-plan.md:316` and `:320` want errors isolated; `OthersFollow` is checked with one channel next to chats, which are isolated from each other. And a 2xx answer without a body ends a list as if it were complete (`graph/client.go:102-105`), so the success time passes what was not fetched, where `issues/done/20260710-add-teams-overlap-sync.md:50` wants completed pages only; `SuccessCovers`, `OverlapHeals` and the violation of `FailuresClear` are checked without the fault `emptyBody`, the first two because they would not hold with it. Of the Teams runs only `teams_chats` has it.

Fairness: a command that was started goes on (`WF` of `Work`), the operator repeats `sync all` (`SF` of `SyncCommand`: the command is disabled while it runs), and Graph shows a change in the end (`WF` of `Show`). The order in which Graph lists containers is left open and may be the same for ever, which is what a stable list does.

## 6. `TokenCache` and `OutlookDaemon`

### What they model

State | Code
---|---
`keyring`, `made` | the key in the credential store, as a number; how many were made
`file`, `writers` | `token.cache`: none, torn (whatever `decrypt` refuses), or sealed with a key and holding a token (an access token that is fresh, stale or missing, with or without a refresh token); who has it open
`user` | each process inside `auth.go`: its step, whether it is in `Save`, the key and the token in its memory
`stage`, `left` | the daemon: `exclude` and `include` (ResolveFolders), `mail`, `list` and `calendar` (SyncAll of each), `select`, `stopped`; items still to do
`item`, `tries`, `waiting` | the Graph call under way and the loop of `Client.do`
`excluded`, `resolved` | the locals of `ResolveFolders`
`looping`, `tick`, `signal` | whether the ticker and the signal channel exist (they are made after the first run), and what is in them
`clean`, `sound`, `unlooked`, `clear` | history: whom no other process has come across in `Save`, whether that held for the last `Save`, excluded names whose lookup failed or lost its answer, whether every call of the run was answered in full; in a token, whether the login it goes back to brought a refresh token (`granted`)

Nothing locks the key or the file, so each is a step of its own: `GetKey`, `SetKey` (over whatever is there by now), `Load`, `Refreshed` or `RefreshLost`, `Truncate` and `Write` (the two halves of `os.WriteFile`), `Logout` and `RemoveFile`. A file that two processes write may be the one, or torn; what is written to a removed file is gone. `exchange` ignores the errors of reading and parsing a 2xx answer, so one whose body was lost is a token of empty strings that has expired: `AccessToken` saves it, with the refresh token it had, and returns the empty access token without an error (`RefreshLost`), and `Login` saves it and reports success (`LoginLost`). A login may also be answered without a refresh token (`LoginGranted`). `auth login`, `logout` and `status` run in shells next to the daemon (`Command`, `Granted`, `Shell`).

A Graph call begins with `Call`, asks for a token, and ends with `Answered`, `AnsweredEmpty` (a 2xx answer whose body was lost), `Rejected` (Graph does not accept an empty or expired token, nor a folder without an id), `Refused` (any other error), `NoAccess` or, after `Busy` (429 or 5xx) and `Again` for each retry, with `GiveUp`. `Return` does what the result does in the stage the daemon is at: an excluded name that cannot be looked up is passed over (`LookedUp`), an included one is left out (`Resolve`), an answer that lost its body gives either of them the empty id (`Found`), which is a folder of its own to `ResolveFolders` (`NoId`), a folder or calendar that fails is counted (`Synced`), a failing list of calendars ends that half, and one that lost a page goes on with the calendars it has (`Listed`); `AddressesFail` and `FolderFails` end the mail half. `Interrupt` is a signal before the channel is there, which ends the process; `Restart` is a kill.

### Abstractions

* The walk of a folder or calendar is one Graph call: for what the daemon does, its other calls are alike.
* Access tokens expire together, and only in a wait or at `select` (`Expiry`): the code itself allows two minutes for everything else, by refreshing a token that is about to expire.
* The polling of `Login` is one wait; a failing credential store, file system or endpoint is one `token` disturbance (`TokenFails`). A token answer that can be parsed is taken to hold an access token and the time it lives; a body is lost as a whole, since `json.Unmarshal` stores nothing of a text that is cut off.
* `MaxFaults` and `MaxCommands` bound disturbances and commands; signals and ticks are not bounded.

### Properties

* `CacheSurvives`: the token of a `Save` that no other key, `Save` or `Logout` came across can be decrypted, until the next one. What two processes can do to each other is in the model; the property says that nothing else can harm the file.
* `RefreshKept`: no refresh loses the refresh token of a login that brought one, whatever the answers leave out or lose, and whoever else saves a token meanwhile.
* `TokensAreFresh`: no request carries an expired token, however long a `Retry-After` was, and one without a token is sent only by the attempt whose own refresh lost its answer: an empty token is never taken from the file.
* `FoldersAsConfigured`: a folder is walked at most once in a run, and an excluded one only if for every name that excludes it the lookup of this run failed or lost its answer. The exception is the code's: `ResolveFolders` passes over a name it cannot look up (`mail/sync.go:70-72`), and takes an answer that lost its body for the id `""` (`getFolder`), although its comment says "Excluded folders are never fetched." (`mail/sync.go:65`); a folder excluded by one name and included by another is then walked in that run.
* `KeepsRunning`: both halves of the run come again and again whatever fails, unless the daemon is stopped.
* `SignalStops`: a signal ends the daemon even when its runs last longer than the interval, so that a tick is always due as well.
* `Recovers`: from when on the cache stays sound, with a refresh token in it, runs in which every call succeeds come again: no failure is remembered, an empty access token in the file included. A file that is torn, that nobody can decrypt, or that a login left without a refresh token is not gotten over by the daemon itself; from a login that puts that right the property speaks again.

Fairness: the daemon goes on (`WF` of `Work`), its ticker ticks and is answered (`WF` of `Tick` and `Run`), a command goes on (`WF` of `Shell`), and `Stop` has strong fairness, because Go's `select` chooses at random among what is ready: with runs longer than the interval `Stop` is enabled again and again, never continuously.

## 7. Runs

Run | Instance | Shows
---|---|---
`mail_single` | 2 messages, 2 folders, one `mail sync` at a time, all faults, clock 3, 2 faults | the type invariant and the four safety properties, with resets, crashes, errors, lost bodies of pages and of lookups, `--full` and moves between the folders
`mail_daemon` | 2 messages that may start and stop matching, 2 folders, one daemon, clock 2, 2 faults | the two liveness properties and `IsReplica`
`mail_expiry_deletion` | 1 message, 1 folder, one expiry | violation of `DeletionsReflected`: the reinitialization after 410 never hears of a deletion (a crash within the first listing does the same: `Faults <- OnlyCrashes`)
`mail_two_processes` | 1 message, 2 folders, daemon and command, no fault | violation of `MovedMessageKept`: a page read before the move is applied after it
`calendar_single` | 1 event of a series, months of 2 ticks, 3 windows at each of 2 months, a range and an instant, 2 broken windows in the past, one process that is daemon or command, all faults, clock 3, 1 fault | the calendar properties that hold, safety and liveness
`calendar_rollover` | 1 event, a month that goes by, no fault | violation of `DeletionsReflected`: the windows of the new month that have other bounds (here all; with the default sizes all but one) start from nothing and hear of no deletion
`calendar_two_processes` | 1 event, daemon and command, no fault | violation of `OwnerTombstones`: between the check of the bounds and the tombstone the other process stores the moved event
`teams_success` | a channel with a thread of 2 messages and one of 1, time 4, 2 changes, overlap 1, 1 error or crash | `SuccessCovers` with pages, inline replies and linked replies split in every way, and runs that fail or die halfway
`teams_overlap` | 1 message of a chat, 2 sync processes and a `FetchURL`, time 3, 1 change, overlap 2, hold 1, 1 error | `OverlapHeals` against late stale copies and overlapping runs
`teams_chats` | a channel with a thread of 2, a chat with a message and an empty chat, time 2, 1 change, overlap 2, lag 1, 1 fault of any kind | `TypeOK`, `ExcludedUntouched` and `OthersFollow`
`teams_first_failure` | 2 chats, 1 error | violation of `FailuresClear`: the NULL row a first failure leaves
`outlook_daemon` | the daemon and one shell, one folder included by its well-known name and its id and excluded by another name, one calendar, 1 retry, 2 disturbances, 1 command, logged in or not | the properties of section 6

Why the bounds are enough. *Mail*: two messages make a page boundary, an item that fails after another was applied, and a walk that repeats; two folders a move in both orders; two faults an expiry within the walk that an expiry restarted, and a crash after a failure. That more of them cannot do more harm is proved for the safety properties. *Calendar*: rows of different events share nothing but the cursors, whose paging the mail runs exercise with two messages; one event is enough for a move between windows, a notice that comes late, an instant on a boundary, and a master that waits; two months are enough for all windows to be replaced and for a window of the past to be refused in both; that more events, months, windows or faults can do no more harm is proved for the safety properties. *Teams*: three messages make a thread with a reply behind a second thread, which is what the stop condition of a channel needs; one message of a chat is enough for the overlap, since the filter and the race concern one row; time exceeds the overlap by enough for a message to fall out of it. *Daemon*: one folder with three names has every combination of found, passed over, excluded and seen; one retry has an attempt with a token from before the wait and one after the last attempt; two disturbances let a second process or a second failure meet the trace of the first. In every family the mutated definitions that `PROJECT.json` lists break each property within these bounds.

One process at a time is the documented use of mail and calendar; with two, `NothingMissed` and `RowsOnlyAdvance` do not hold either, which the two-process runs show at their most visible consequence. Deadlock is checked in every run but `outlook_daemon`, where the daemon really stops, and never found.

## 8. Proofs

All theorems hold for every set of messages, folders, chats, events, processes and users, every bound and every combination of faults, from the `ASSUME`s of their modules (`MailAssumption`, `MonthAssumption`, `CalendarAssumption`, `TeamsAssumption`, `DaemonAssumption`) and what is named here.

`MailDeltaProofs`:

* `TypeCorrect`: `Spec => []TypeOK`.
* `DeltaLinkCoversRows`: with at most one process (`OneProcess`), `Spec => []NothingMissed`, lost lookups among the faults: the exception is for the version whose own lookup was lost, never for another message or a later version.
* `ResumeIsSafe`: with at most one process, `Spec => []ResumeSkipsNothing`, in the same sense.
* `NoDeletionLost`: with at most one process, `Spec => DeltaLosesNoDeletion`.

`NothingMissed` is not inductive: when a link is committed it must already be known that the rows cover it, and that knowledge is spread over the memory of the walk. `MailInv` carries it: by the stored links (`NothingMissed`, `ResumeSkipsNothing`), by the link read at the start and the URL about to be fetched, and by the page being applied, the items not applied yet apart (`WalkCovers`). The second difficulty is that a page shows the past: applying an item could put back an older version of a message that some link already covers. `Fresh` says why it cannot: an item in memory is either what the mailbox still holds, or its message has changed since and no link issued so far covers that change; the second case is lost once another process may commit a newer link, which is why one process is assumed. The proof has one lemma per action (`Inv...`) and combines them in `InvNext`.

`DeltaLosesNoDeletion` is about what is no longer in the folder, of which `MailInv` says nothing. `DeletionInv` follows the departures: a walk that began at one number and is on its way to another has dealt with the departures in between, but for the messages it has still to list or to apply (`Heard`, for the stored nextLink, for the URL about to be fetched and for the page being applied); and an item in memory that shows a message in a folder it has left is older than a departure that no link has passed, so storing it loses nothing (`PageHeard`). A walk opened by a delta link lists every departure since that link; one opened by the init URL lists none, which is why the property starts from a folder that has a link.

`MailReplicaProofs`, with at most one process:

* `RowsNeverGoBack`: `Spec => RowsOnlyAdvance`. `VersionInv` adds to `MailInv` that no row is newer than the mailbox or than the page in memory, and that a page lists a message once.
* `OneProcessIsReplica`: `Spec => IsReplica`. Each action is mapped to `Change`, `Pass`, `Store`, `Spoil`, `Commit`, `Forget` or a stutter; the commit needs `WalkCovers`, the store needs `VersionInv`, and that only a version no cursor is past can be spoilt needs `AheadInv`: a message on the page that shows its present version changed after the committed delta link of its folder.

`TeamsSyncProofs`:

* `TypeCorrect`: `Spec => []TypeOK`.
* `ExcludedStayUntouched`: with one sync process and no `FetchURL` (`OneSyncer`), `Spec => ExcludedUntouched`. It rests on `ExclusionInv`: what a process has fetched belongs to the container of its run (`PagesAtHome`), an idle process holds no page, and nobody works on an excluded chat. With two processes the last part fails, since one may exclude a chat the other is in the middle of.

`TeamsSuccessProofs`, with one sync process, no `FetchURL` and no lost answers (`OneSyncer`, `NoLostBody`):

* `SuccessVouches`: `Spec => []SuccessCovers`. The invariant `SuccessInv` says of a run under way that every message it will vouch for is stored, in memory, or in a thread still ahead in the list (`RunCovers`); that what is in memory of a thread at rest is what was written, and that the thread has the place in the list its messages give it (`EntryHolds`); and that what does not show yet is younger than `Lag` (`GraphInv`). The heart is `ThreadReachesSince`: a message that is wanted and not stored is in a thread that changed after the lower bound of the run, because what the last success did not vouch for changed less than `Lag` before it, and the overlap is longer than that. So such a thread passes the filter of a chat (`AheadIsCandidate`) and is not behind the thread at which the list of a channel is left (`NothingBehindStop`).

`TeamsOverlapProofs`, with any number of processes, no lost answers, and short runs (`RunsShort`, an assumption about the behaviour, not about the constants):

* `TheOverlapHeals`: `Spec /\ []RunsShort => []OverlapHeals`. `StaleIsYoung`: a copy that differs from its message was fetched within `Lag` of the change it lacks and is held for `Hold` at most, so it can be stored only while the message is younger than the overlap; whatever is older stays stored once it is. What a run vouches for divides into what its own list brings (`RunOwes`) and what it leaves out because an earlier success vouched for it (`Behind`); the second part must survive the successes of the other processes, which is where `RunsShort` is needed.

`CalendarSyncProofs`, with any number of processes:

* `TypeCorrect`: `Spec => []TypeOK`.
* `WindowsTile`: `Windows` tiles the horizon, for every length of a month, time, horizon and size of window, a size that means the default included. A tick falls into one of three stretches (before the current month, the two months from it on, after them), and within a stretch into exactly one slot (`Slot`, `OneSlot`), which is a window (`SomePiece`) and the only one (`Pieces`, `OnePiece`).
* `HorizonAlwaysTiled`: hence `Spec => []HorizonTiled`.
* `MastersAlwaysFollow`: `Spec => []MastersFollow`. `MasterInv`: whatever a stored link stands for has its master or had it refused; whatever a walk relies on has it, or the walk still awaits it. No other process spoils that, since masters are never removed and a link is only committed with what its own walk has seen.

and with at most one process (`OneProcess`):

* `RowsNeverGoBack`: `Spec => RowsOnlyAdvance`, by `VersionInv`.
* `DeltaLinkCoversRows` and `ResumeIsSafe`: `Spec => []NothingMissed` and `Spec => []ResumeSkipsNothing`, by `RowInv`.
* `NoDeletionLost`: `Spec => DeltaLosesNoDeletion`, by `DeletionInv`.

Neither `MastersFollow` nor `NothingMissed` is inductive, for the reason given for mail, so what links and walks stand for is named once, as sets of events: `Claims` of a number, `Promised` by the delta links, `Resumable` from the stored nextLinks, both together `Cursors`, and what a walk has `Walked`. A change of the calendar takes its event out of all of them, because the change is numbered beyond every link (`ClaimsShrink`), and a step of a process adds to `Cursors` only what it has `Walked` (`CursorsFollow`, `WalksFollow`). `MasterInv` and `RowInv` then say of the same sets that their events have masters, and that their rows are current. `LinkInv` lies under all of it, for any number of processes: every link was handed out by the calendar (`LinksIssued`), and an item in memory shows its event as it is, or the link that came with it does not cover the change (`PagesHonest`).

Two things are harder than in mail. A removal notice takes two steps, the check of the bounds and the tombstone: in between the event is `doomed`, `RowInv` says that a doomed row does not show its event, and `DeletionInv` counts the event with what the walk has still to apply. And an instant on the first tick of a window is given to no window by the strict comparison of `applyDeltaItem`; the property excepts it, and so does `Settled`, of which `DeletionInv` is made in the way described for mail.

The steps of a process are first reduced to their effects on the database and on its own memory (`Effect`, `StepsTaken`); each invariant then has one step per effect, and one lemma for the calendar.

`OutlookDaemonProofs`:

* `TypeCorrect`: `Spec => []TypeOK`.
* `SavedTokenReadable`: `Spec => []CacheSurvives`. `CacheInv` follows an undisturbed `Save` through its steps: it holds the key of the credential store, or is about to make the first one, and once it has truncated the file it is the only writer.
* `RefreshTokenKept`: `Spec => []RefreshKept`; whoever refreshes has a refresh token, and whoever is about to save has one if the login brought one (`RefreshInv`).
* `RequestsAreFresh`: `Spec => []TokensAreFresh`; between two waits the daemon's token is fresh from the moment it is read or granted, or empty after an answer that was lost (`FreshInv`).
* `ConfiguredFolders`: `Spec => []FoldersAsConfigured`; when the include list begins every excluded name has been looked up, with its folder excluded or the name among the `unlooked` (`FoldersInv`).

Only model-checked: all liveness (`EventuallyMirrored`, `FailuresClear`, `OthersFollow`, `KeepsRunning`, `SignalStops`, `Recovers`), which is outside what the prover can do. The proofs for one process do not carry over to two: the runs `mail_two_processes` and `calendar_two_processes` show what goes wrong then.

## 9. Not modelled

* **Mail classification**: a pure function of one message and the registered addresses, made of string comparison and case folding; its own tests go through the cases. `MailDelta` takes its verdict on the whole message as part of the message, and models what becomes of it when the headers are not there.
* **Calendar event mapping**: field-by-field conversion (time zones, recurrence, attendees, body to text) without state.
* **Webhook**: answers a validation token, compares the client state and appends the payload to a table that nothing in the repository reads; there is no consumer whose promise could be checked, and a delivery repeated by Graph is a second row.
* **Teams URL parser, text normalisation, configuration, domain types**: pure, or read once at the start; their results are constants and values of the modules.
* **Searches, agenda, threads, status, the other MCP handlers**: they only read.
