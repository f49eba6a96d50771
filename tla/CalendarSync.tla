---------------------------- MODULE CalendarSync ----------------------------
(***************************************************************************)
(* The windowed delta synchronisation of one calendar: the walk of         *)
(* internal/calendar/sync.go over Graph's calendarView delta, the tables   *)
(* of internal/outlookstore it writes, and the processes that run it.      *)
(* Calendars do not interact: calendar_id is part of every key.            *)
(*                                                                         *)
(* Graph is external and abstracted as in MailDelta: one clock numbers the *)
(* changes, a delta link stands for "every change up to number upto", a    *)
(* nextLink for a walk with the events of todo still to be listed.         *)
(***************************************************************************)
EXTENDS CalendarWindows

CONSTANTS
    PastTicks, FutureTicks,   \* calendar.range
    RecentMonths, HistMonths, FutureMonths,   \* calendar.sync_windows
    Events,     \* events calendarView can list
    Masters,    \* series masters, which it cannot
    None,       \* no master
    Series,     \* event -> its master, or None
    Bounds,     \* the ranges an event may occupy
    Daemons,    \* processes in daemonCmd's loop
    Clis,       \* processes of "calendar sync"; one that is in both sets stands
                \* for whichever of them runs at a time
    Broken,     \* windows that Graph answers with an error every time
    Faults,     \* the disturbances this instance admits
    FirstTick,  \* the time at the start
    LastTick, MaxClock, MaxFaults   \* bounds

Procs == Daemons \cup Clis
FaultKinds == {"error", "master", "emptyBody", "expire", "crash", "full", "range"}
NoWindow == Window(0, 0)

\* EnsureWindows: the windows of the time t.
EnsureWindows(t) ==
    Windows(t, PastTicks, FutureTicks, RecentMonths, HistMonths, FutureMonths)
Schedule == {[at |-> t, windows |-> EnsureWindows(t)] : t \in FirstTick .. LastTick}
AllWindows == UNION {plan.windows : plan \in Schedule}

ASSUME CalendarAssumption ==
    /\ None \notin Masters
    /\ Series \in [Events -> Masters \cup {None}]
    /\ \A b \in Bounds : b = Window(b.start, b.end) /\ b.start <= b.end
    /\ Broken \subseteq AllWindows
    /\ Faults \subseteq FaultKinds
    /\ {PastTicks, FutureTicks} \subseteq Nat \ {0}
    /\ {RecentMonths, HistMonths, FutureMonths} \subseteq Int
    /\ {FirstTick, LastTick, MaxClock, MaxFaults} \subseteq Nat
    /\ FirstTick <= LastTick

VARIABLES
    now,      \* the wall clock, in ticks
    clock,    \* number of the last change of the calendar
    cal,      \* event -> its range, its last change, does it exist
    left,     \* window -> event -> number of its last departure
    floor,    \* window -> links up to this number answer 410 Gone
    rows,     \* calendar_events
    masters,  \* the series masters among them
    sync,     \* calendar_sync_windows
    run,      \* the memory of each process
    faults,   \* disturbances so far
    unfetched \* history: masters whose fetch has failed

graph == <<now, clock, cal, left, floor>>
store == <<rows, masters, sync>>
history == <<faults, unfetched>>
vars == <<graph, store, run, history>>

CurrentWindows == UNION {plan.windows : plan \in {q \in Schedule : q.at = now}}

-----------------------------------------------------------------------------
(* Data *)

Event == [at : Bounds, ver : Nat, live : BOOLEAN]
Item == [id : Events, at : Bounds, ver : Nat, live : BOOLEAN]

\* A row; ver = 0 is no row, a tombstone is a row that is not live.
Row == [at : Bounds \cup {NoWindow}, ver : Nat, live : BOOLEAN]
NoRow == [at |-> NoWindow, ver |-> 0, live |-> FALSE]

Link == [paging : BOOLEAN, upto : Nat, todo : SUBSET Events]
DeltaLink(n) == [paging |-> FALSE, upto |-> n, todo |-> {}]
NoLink == DeltaLink(0)

\* A row of calendar_sync_windows; one that EnsureCalendarWindow has just made is
\* the same as none.
WindowState == [next : Link, delta : Nat, failing : BOOLEAN]
NoState == [next |-> NoLink, delta |-> 0, failing |-> FALSE]

Steps == {"idle", "begin", "fetch", "apply", "tombstone", "list", "store"}

\* The locals of SyncWindows, syncWindowDelta and SyncRange.
Memory == [pc : Steps, queue : SUBSET AllWindows, window : AllWindows \cup Bounds \cup {NoWindow},
           base : Nat, url : Link, page : SUBSET Item, link : Link,
           mayReset : BOOLEAN, fetched : SUBSET Masters,
           awaited : SUBSET Masters, doomed : SUBSET Events]
Idle == [pc |-> "idle", queue |-> {}, window |-> NoWindow,
         base |-> 0, url |-> NoLink, page |-> {}, link |-> NoLink,
         mayReset |-> FALSE, fetched |-> {}, awaited |-> {}, doomed |-> {}]

TypeOK ==
    /\ now \in Nat
    /\ clock \in Nat
    /\ cal \in [Events -> Event]
    /\ left \in [AllWindows -> [Events -> Nat]]
    /\ floor \in [AllWindows -> Nat]
    /\ rows \in [Events -> Row]
    /\ masters \subseteq Masters
    /\ sync \in [AllWindows -> WindowState]
    /\ run \in [Procs -> Memory]
    /\ faults \in Nat
    /\ unfetched \subseteq Masters
    /\ \A p \in Procs :
         /\ run[p].pc \in {"begin", "fetch", "apply", "tombstone"} => run[p].window \in AllWindows
         /\ run[p].pc = "tombstone" <=> run[p].doomed # {}
         /\ run[p].pc = "idle" => run[p] = [Idle EXCEPT !.queue = run[p].queue]

Init ==
    /\ now = FirstTick
    /\ clock = 1
    /\ cal \in [Events -> [at : Bounds, ver : {1}, live : {TRUE}]]
    /\ left = [w \in AllWindows |-> [e \in Events |-> 0]]
    /\ floor = [w \in AllWindows |-> 0]
    /\ rows = [e \in Events |-> NoRow]
    /\ masters = {}
    /\ sync = [w \in AllWindows |-> NoState]
    /\ run = [p \in Procs |-> Idle]
    /\ faults = 0
    /\ unfetched = {}

Disturb(kind) ==
    /\ kind \in Faults
    /\ faults < MaxFaults
    /\ faults' = faults + 1

-----------------------------------------------------------------------------
(* Graph and the calendar (external) *)

\* calendarView lists what overlaps the window, and an instant at its start.
InView(ev, w) ==
    /\ ev.live
    /\ ev.at.start < w.end
    /\ ev.at.end > w.start \/ ev.at = Window(w.start, w.start)

\* An event is edited, moved, deleted or brought back.
CalendarChange(e, b, alive) ==
    /\ clock < MaxClock
    /\ alive \/ (cal[e].live /\ b = cal[e].at)
    /\ clock' = clock + 1
    /\ cal' = [cal EXCEPT ![e] = [at |-> b, ver |-> clock + 1, live |-> alive]]
    /\ left' = [w \in AllWindows |->
                  IF InView(cal[e], w) /\ ~InView(cal'[e], w)
                  THEN [left[w] EXCEPT ![e] = clock + 1] ELSE left[w]]
    /\ UNCHANGED <<now, floor, store, run, history>>

\* A month goes by.
NewMonth ==
    /\ now + MonthLen <= LastTick
    /\ now' = now + MonthLen
    /\ UNCHANGED <<clock, cal, left, floor, store, run, history>>

\* The server forgets the links of a window handed out so far.
Expire(w) ==
    /\ "expire" \in Faults
    /\ \E u \in {sync[w].next, DeltaLink(sync[w].delta)}
               \cup UNION {{run[p].url, run[p].link} : p \in {q \in Procs : run[q].window = w}} :
           u.upto > floor[w]
    /\ clock < MaxClock
    /\ clock' = clock + 1
    /\ floor' = [floor EXCEPT ![w] = clock]
    /\ UNCHANGED <<now, cal, left, store, run, history>>

Expired(w, u) == u.upto > 0 /\ u.upto <= floor[w]

\* What a delta query since number n reports; a full listing has no @removed.
Changed(w, n) ==
    {e \in Events : IF InView(cal[e], w) THEN cal[e].ver > n
                                         ELSE n > 0 /\ left[w][e] > n}

\* Events that changed outside the window, for which Graph may add a removal.
Strays(w, n) ==
    {e \in Events : n > 0 /\ cal[e].ver > n /\ ~InView(cal[e], w)}

ItemOf(e) == [id |-> e, at |-> cal[e].at, ver |-> cal[e].ver, live |-> cal[e].live]

\* The walks a URL may denote.
WalksOf(w, u) ==
    IF u.paging THEN {u}
    ELSE {[paging |-> TRUE, upto |-> clock, todo |-> Changed(w, u.upto) \cup more] :
             more \in SUBSET Strays(w, u.upto)}

-----------------------------------------------------------------------------
(* Entry points *)

\* Mutant of Return: fetchedMasters outlives the walk.
ReturnKeepsFetched(p) ==
    run' = [run EXCEPT ![p] = [Idle EXCEPT !.queue = run[p].queue,
                                           !.fetched = run[p].fetched]]

\* syncWindowDelta returns: its locals are gone.
Return(p) == run' = [run EXCEPT ![p] = [Idle EXCEPT !.queue = run[p].queue]]

RecordCalendarWindowFailure(w) == sync' = [sync EXCEPT ![w].failing = TRUE]

ResetState(st) == [st EXCEPT !.next = NoLink, !.delta = 0]

\* SyncWindows on the windows of the current time (EnsureWindows), from SyncAll
\* or from "calendar sync".
SyncWindows(p) ==
    /\ run[p] = Idle
    /\ run' = [run EXCEPT ![p].queue = CurrentWindows]
    /\ UNCHANGED <<graph, store, history>>

\* "calendar sync --full": ResetCalendarWindows, then SyncWindows.
SyncFull(p) ==
    /\ run[p] = Idle
    /\ Disturb("full")
    /\ sync' = [w \in AllWindows |-> ResetState(sync[w])]
    /\ run' = [run EXCEPT ![p].queue = CurrentWindows]
    /\ UNCHANGED <<graph, rows, masters, unfetched>>

\* The loop of SyncWindows takes the next window, the earliest first.
SyncWindow(p, w) ==
    /\ run[p].pc = "idle"
    /\ w \in run[p].queue
    /\ \A v \in run[p].queue : w.start <= v.start
    /\ run' = [run EXCEPT ![p].pc = "begin",
                          ![p].queue = @ \ {w},
                          ![p].window = w,
                          ![p].mayReset = TRUE]
    /\ UNCHANGED <<graph, store, history>>

\* "calendar sync --from --to": SyncRange opens a calendarView of the range b.
SyncRange(p, b) ==
    /\ run[p] = Idle
    /\ Disturb("range")
    /\ run' = [run EXCEPT ![p].pc = "list",
                          ![p].window = b,
                          ![p].url.todo = {e \in Events : InView(cal[e], b)}]
    /\ UNCHANGED <<graph, store, unfetched>>

-----------------------------------------------------------------------------
(* syncWindowDelta *)

\* GetCalendarWindowState and the choice of pageURL: nextLink, deltaLink, or
\* calendarDeltaURL.
Begin(p) ==
    /\ run[p].pc = "begin"
    /\ LET st == sync[run[p].window] IN
         run' = [run EXCEPT ![p].pc = "fetch",
                            ![p].base = st.delta,
                            ![p].url = IF st.next.paging THEN st.next
                                       ELSE DeltaLink(st.delta)]
    /\ UNCHANGED <<graph, store, history>>

\* GetPage succeeds: a part of the walk, with a link to the rest of it, to a last
\* empty page, or to the next delta query.
FetchPage(p) ==
    /\ run[p].pc = "fetch"
    /\ run[p].window \notin Broken
    /\ ~Expired(run[p].window, run[p].url)
    /\ \E walk \in WalksOf(run[p].window, run[p].url), more \in BOOLEAN :
       \E listed \in SUBSET walk.todo :
         /\ listed = {} => walk.todo = {} /\ ~more
         /\ more \/ listed = walk.todo
         /\ more => listed # walk.todo \/ ~run[p].url.paging
         /\ run' = [run EXCEPT ![p].pc = "apply",
                               ![p].page = {ItemOf(e) : e \in listed},
                               ![p].link = [walk EXCEPT !.paging = more,
                                                        !.todo = @ \ listed]]
    /\ UNCHANGED <<graph, store, history>>

\* A 2xx answer whose body was lost is an empty page without links.
FetchEmptyBody(p) ==
    /\ run[p].pc = "fetch"
    /\ Disturb("emptyBody")
    /\ run' = [run EXCEPT ![p].pc = "apply", ![p].link = NoLink]
    /\ UNCHANGED <<graph, store, unfetched>>

\* 410 Gone: the window's links are dropped and syncWindowDelta runs once more.
FetchGone(p) ==
    /\ run[p].pc = "fetch"
    /\ Expired(run[p].window, run[p].url)
    /\ run[p].mayReset
    /\ sync' = [sync EXCEPT ![run[p].window] = ResetState(@)]
    /\ run' = [run EXCEPT ![p] = [Idle EXCEPT !.pc = "begin",
                                              !.queue = run[p].queue,
                                              !.window = run[p].window]]
    /\ UNCHANGED <<graph, rows, masters, history>>

\* Mutant of FetchRefused: the error ends the loop over the windows.
RefusedEndsRun(p) ==
    /\ run[p].pc = "fetch"
    /\ \/ run[p].window \in Broken
       \/ Expired(run[p].window, run[p].url) /\ ~run[p].mayReset
    /\ RecordCalendarWindowFailure(run[p].window)
    /\ run' = [run EXCEPT ![p] = Idle]
    /\ UNCHANGED <<graph, rows, masters, history>>

\* A window that Graph refuses every time, or a second 410: recorded, and on to
\* the next one.
FetchRefused(p) ==
    /\ run[p].pc = "fetch"
    /\ \/ run[p].window \in Broken
       \/ Expired(run[p].window, run[p].url) /\ ~run[p].mayReset
    /\ RecordCalendarWindowFailure(run[p].window)
    /\ Return(p)
    /\ UNCHANGED <<graph, rows, masters, history>>

\* Any other error of GetPage.
FetchFails(p) ==
    /\ run[p].pc = "fetch"
    /\ Disturb("error")
    /\ RecordCalendarWindowFailure(run[p].window)
    /\ Return(p)
    /\ UNCHANGED <<graph, rows, masters, unfetched>>

\* The item is a removal notice of window w.
Removed(item, w) == ~InView(item, w)

UpsertCalendarEvent(item) ==
    rows' = [rows EXCEPT ![item.id] = [at |-> item.at, ver |-> item.ver, live |-> TRUE]]

\* storeEvent of a listed event, and which master it asks for next: one that this
\* walk has not asked for.
StoreEvent(p) ==
    /\ run[p].pc \in {"apply", "store"}
    /\ run[p].awaited = {}
    /\ \E item \in run[p].page :
         /\ ~Removed(item, run[p].window)
         /\ UpsertCalendarEvent(item)
         /\ run' = [run EXCEPT ![p].page = @ \ {item},
                               ![p].awaited = {Series[item.id]} \ ({None} \cup run[p].fetched)]
    /\ UNCHANGED <<graph, masters, sync, history>>

\* Mutant of HasEvent: an event of the series is enough.
HasOccurrence(m) == \E e \in Events : Series[e] = m /\ rows[e].ver > 0

HasEvent(m) == m \in masters

\* A master that is not stored is fetched; if that fails the error is only logged.
FetchSeriesMaster(p) ==
    /\ run[p].awaited # {}
    /\ run' = [run EXCEPT ![p].awaited = {}, ![p].fetched = @ \cup run[p].awaited]
    /\ \/ /\ \A m \in run[p].awaited : HasEvent(m)
          /\ UNCHANGED <<masters, history>>
       \/ /\ \E m \in run[p].awaited : ~HasEvent(m)
          /\ \/ masters' = masters \cup run[p].awaited /\ UNCHANGED history
             \/ /\ Disturb("master")
                /\ unfetched' = unfetched \cup run[p].awaited
                /\ UNCHANGED masters
    /\ UNCHANGED <<graph, rows, sync>>

\* Mutant of Owned: the bounds are not checked.
Anyone(row, w) == row.ver > 0

\* The test of applyDeltaItem on what EventBounds returned.
Owned(row, w) == row.ver > 0 /\ row.at.start < w.end /\ row.at.end > w.start

\* applyDeltaItem, a removal notice: EventBounds says whether to tombstone.
EventBounds(p) ==
    /\ run[p].pc = "apply"
    /\ run[p].awaited = {}
    /\ \E item \in run[p].page :
         /\ Removed(item, run[p].window)
         /\ LET own == Owned(rows[item.id], run[p].window) IN
              run' = [run EXCEPT ![p].page = @ \ {item},
                                 ![p].pc = IF own THEN "tombstone" ELSE "apply",
                                 ![p].doomed = IF own THEN {item.id} ELSE {}]
    /\ UNCHANGED <<graph, store, history>>

\* Mutant of TombstoneCalendarEvent: the row is deleted.
DeleteCalendarEvent(p) ==
    /\ run[p].pc = "tombstone"
    /\ rows' = [e \in Events |-> IF e \in run[p].doomed THEN NoRow ELSE rows[e]]
    /\ run' = [run EXCEPT ![p].pc = "apply", ![p].doomed = {}]
    /\ UNCHANGED <<graph, masters, sync, history>>

\* TombstoneCalendarEvent: a second transaction; the row keeps its bounds.
TombstoneCalendarEvent(p) ==
    /\ run[p].pc = "tombstone"
    /\ rows' = [e \in Events |-> IF e \in run[p].doomed
                                 THEN [rows[e] EXCEPT !.live = FALSE] ELSE rows[e]]
    /\ run' = [run EXCEPT ![p].pc = "apply", ![p].doomed = {}]
    /\ UNCHANGED <<graph, masters, sync, history>>

\* Mutant of PageApplied: the link is written before the items are applied.
PageFetched(p) == run[p].pc = "apply"

PageApplied(p) == run[p].pc = "apply" /\ run[p].page \cup run[p].awaited = {}

\* Mutant of ItemFails: the failed item is skipped.
ItemSkipped(p) ==
    /\ run[p].pc = "apply"
    /\ Disturb("error")
    /\ \E item \in run[p].page : run' = [run EXCEPT ![p].page = @ \ {item}]
    /\ UNCHANGED <<graph, store, unfetched>>

\* An item fails: its parsing, a transaction, EventBounds or HasEvent.  The rest of
\* the page is dropped.
ItemFails(p) ==
    /\ run[p].pc \in {"apply", "tombstone"}
    /\ ~PageApplied(p)
    /\ Disturb("error")
    /\ RecordCalendarWindowFailure(run[p].window)
    /\ Return(p)
    /\ UNCHANGED <<graph, rows, masters, unfetched>>

SaveCalendarWindowNextLink(p) ==
    /\ PageApplied(p)
    /\ run[p].link.paging
    /\ sync' = [sync EXCEPT ![run[p].window].next = run[p].link]
    /\ run' = [run EXCEPT ![p].pc = "fetch", ![p].url = run[p].link, ![p].link = NoLink]
    /\ UNCHANGED <<graph, rows, masters, history>>

\* The last page is applied; without a delta link the one read at the start stays.
CommitCalendarWindowDeltaLink(p) ==
    /\ PageApplied(p)
    /\ ~run[p].link.paging
    /\ sync' = [sync EXCEPT ![run[p].window] =
                  [next    |-> NoLink,
                   delta   |-> IF run[p].link.upto > 0 THEN run[p].link.upto
                                                       ELSE run[p].base,
                   failing |-> FALSE]]
    /\ Return(p)
    /\ UNCHANGED <<graph, rows, masters, history>>

\* Reading the state, calendarDeltaURL, or writing a link fails: the error is
\* returned and not recorded.
CursorFails(p) ==
    /\ Disturb("error")
    /\ \/ run[p].pc = "begin"
       \/ run[p].pc = "fetch" /\ Expired(run[p].window, run[p].url) /\ run[p].mayReset
       \/ PageApplied(p)
    /\ Return(p)
    /\ UNCHANGED <<graph, store, unfetched>>

\* The process is killed; what is left is the database.
Crash(p) ==
    /\ run[p] # Idle
    /\ Disturb("crash")
    /\ run' = [run EXCEPT ![p] = Idle]
    /\ UNCHANGED <<graph, store, unfetched>>

-----------------------------------------------------------------------------
(* SyncRange: pages of a calendarView, upserted; no state is kept, and an error *)
(* ends the command.                                                            *)

RangePage(p) ==
    /\ run[p].pc = "list"
    /\ \E listed \in SUBSET run[p].url.todo :
         /\ listed = {} => run[p].url.todo = {}
         /\ run' = [run EXCEPT ![p].pc = "store",
                               ![p].page = {ItemOf(e) : e \in {l \in listed : InView(cal[l], run[p].window)}},
                               ![p].url.todo = @ \ listed]
    /\ UNCHANGED <<graph, store, history>>

RangeNext(p) ==
    /\ run[p].pc = "store"
    /\ run[p].page \cup run[p].awaited = {}
    /\ IF run[p].url.todo = {} THEN run' = [run EXCEPT ![p] = Idle]
       ELSE run' = [run EXCEPT ![p].pc = "list"]
    /\ UNCHANGED <<graph, store, history>>

\* (The command has been counted as a disturbance already.)
RangeFails(p) ==
    /\ run[p].pc \in {"list", "store"}
    /\ run' = [run EXCEPT ![p] = Idle]
    /\ UNCHANGED <<graph, store, history>>

-----------------------------------------------------------------------------
(* The system *)

\* What a process that has started does next.
Continue(p) ==
    \/ \E w \in run[p].queue : SyncWindow(p, w)
    \/ Begin(p)
    \/ FetchPage(p) \/ FetchGone(p) \/ FetchRefused(p)
    \/ StoreEvent(p) \/ FetchSeriesMaster(p) \/ EventBounds(p) \/ TombstoneCalendarEvent(p)
    \/ SaveCalendarWindowNextLink(p)
    \/ CommitCalendarWindowDeltaLink(p)
    \/ RangePage(p) \/ RangeNext(p)

Failure(p) ==
    \/ FetchEmptyBody(p) \/ FetchFails(p)
    \/ ItemFails(p) \/ CursorFails(p) \/ RangeFails(p)
    \/ Crash(p)

Command(p) == SyncWindows(p) \/ SyncFull(p) \/ (\E b \in Bounds : SyncRange(p, b))

Calendar ==
    \/ \E e \in Events, b \in Bounds, alive \in BOOLEAN : CalendarChange(e, b, alive)
    \/ NewMonth
    \/ \E w \in AllWindows : Expire(w)

Next ==
    \/ Calendar
    \/ \E p \in Procs : Continue(p) \/ Failure(p)
    \/ \E p \in Daemons : SyncWindows(p)
    \/ \E p \in Clis : Command(p)

Spec == Init /\ [][Next]_vars

\* A process that has started goes on, and the daemon's ticker fires again.
Fairness ==
    /\ \A p \in Procs : WF_vars(Continue(p))
    /\ \A p \in Daemons : WF_vars(SyncWindows(p))
FairSpec == Spec /\ Fairness

-----------------------------------------------------------------------------
(* Properties *)

Current(e) ==
    /\ rows[e].live
    /\ rows[e].at = cal[e].at
    /\ rows[e].ver = cal[e].ver

Covered(w, n, todo) ==
    \A e \in Events \ todo : InView(cal[e], w) /\ cal[e].ver <= n => Current(e)

\* What a window's delta link covers is stored: the next delta query, which
\* reports only later changes, misses nothing, though a neighbour's removal
\* notice for an event that moved comes before or after the event itself.
\* (syncWindowDelta's commit after every page; applyDeltaItem's bounds check.)
NothingMissed == \A w \in AllWindows : Covered(w, sync[w].delta, {})

\* A walk resumed from the stored nextLink skips only what is stored.
\* (SaveCalendarWindowNextLink after the page's items.)
ResumeSkipsNothing ==
    \A w \in AllWindows :
        sync[w].next.paging => Covered(w, sync[w].next.upto, sync[w].next.todo)

\* A stored event that a delta link covers has its master, unless the one fetch
\* that a walk allows itself failed: not when a crash or an error separated the
\* event from its master.  (storeEvent, fetchedMasters, HasEvent.)
MastersFollow ==
    \A e \in Events, w \in AllWindows :
        InView(cal[e], w) /\ cal[e].ver <= sync[w].delta
            => Series[e] \in {None} \cup masters \cup unfetched

TiledTicks == {t \in FirstTick .. LastTick :
    \A past \in 1 .. 5, future \in 1 .. 9, recent \in 0 .. 3, hist \in 1 .. 2 :
        Tiles(t, past, future, recent, hist, hist)}

\* Every tick of the horizon is in exactly one window, whatever the day of the
\* month, the horizon and the sizes of the windows.  (Windows: "contiguous
\* month-aligned windows", the half-open ranges of EnsureWindows.)
HorizonTiled == now \in TiledTicks

\* The row is live in window w, the event is not, and w's delta link is past its
\* departure: no removal notice will come.
DeletionLost(w, e) ==
    /\ InView(rows[e], w)
    /\ ~InView(cal[e], w)
    /\ sync[w].delta > 0
    /\ left[w][e] <= sync[w].delta

\* While a window has a delta link no deletion and no move is lost, whatever
\* fails; an instant at the window's start apart, which applyDeltaItem's strict
\* comparison gives to no window.  (applyDeltaItem, TombstoneCalendarEvent.)
DeltaLosesNoDeletion ==
    [][\A w \in AllWindows, e \in Events :
         sync[w].delta > 0 /\ DeletionLost(w, e)' =>
             DeletionLost(w, e) \/ rows'[e].at = Window(w.start, w.start)]_vars

\* No step replaces a row by an older version of its event, the pages of a
\* SyncRange included.  (UpsertCalendarEvent takes any payload.)
RowsOnlyAdvance == [][\A e \in Events : rows'[e].ver >= rows[e].ver]_vars

\* Deletions reach the database.  (The acceptance list of the calendar delta
\* issue; a window that a new month brings starts with a full listing, which has
\* no removal notice for what was deleted since its predecessor's last walk.)
DeletionsReflected ==
    \A w \in CurrentWindows, e \in Events : ~DeletionLost(w, e)

\* A row that shows the event as it is, in a window that covers it, is live.
\* (applyDeltaItem: "only the owning window tombstones it".)
OwnerTombstones ==
    \A w \in AllWindows, e \in Events :
        InView(cal[e], w) /\ cal[e].ver <= sync[w].delta /\ rows[e].ver = cal[e].ver
            => rows[e].live

\* Once the calendar and the faults are quiet, every event of the horizon outside
\* the windows that Graph always refuses is stored as it is: those windows do not
\* stop the others, and no instant of the horizon is without a window.
\* (SyncWindows: a failure "does not stop the remaining windows".)
EventuallyMirrored ==
    <>[](\A e \in Events :
           /\ InView(cal[e], Window(now - PastTicks, now + FutureTicks))
           /\ \A w \in Broken : ~InView(cal[e], w)
           => Current(e))

=============================================================================
