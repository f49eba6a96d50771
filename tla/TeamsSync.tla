------------------------------ MODULE TeamsSync ------------------------------
(***************************************************************************)
(* The overlap synchronisation of teams-knowledge: internal/sync/sync.go   *)
(* over the tables of internal/store, as the command line ("sync all",     *)
(* "sync team", "sync chats", "message fetch") and the MCP server          *)
(* (fetch_message) run it.                                                 *)
(*                                                                         *)
(* There is no delta feed here.  A channel or chat is read again from its  *)
(* last success time minus an overlap, newest first.  Time is a variable:  *)
(* one tick is the grain of the timestamps that are compared.  The content *)
(* of a message is abstracted to the time of its last change.  A change    *)
(* may show in Graph up to Lag ticks after its timestamp, and a process    *)
(* keeps fetched items in memory for up to Hold ticks.                     *)
(***************************************************************************)
EXTENDS Integers, FiniteSets

CONSTANTS
    Messages,   \* message ids
    Teams,      \* teams of the configuration
    Channels,   \* channels of these teams
    Chats,      \* chats of the user
    TeamOf,     \* channel -> team
    Home,       \* message -> its channel or chat
    Root,       \* message -> the first message of its thread; of a chat, itself
    MyChats,    \* stands for the chats next to the teams in "sync all"
    Nowhere,    \* no container
    Syncers,    \* processes that run "sync ..."
    Fetchers,   \* processes that run FetchURL
    Lookback,   \* InitialLookbackDays
    Overlap,    \* OverlapDuration
    Lag,        \* how long a change may stay invisible
    Hold,       \* how long fetched items may wait in memory
    Faults,     \* the disturbances this instance admits (FaultKinds)
    MaxTime,    \* bound on time
    MaxChanges, \* bound on the number of changes
    MaxFaults   \* bound on the number of disturbances

Procs == Syncers \cup Fetchers
Containers == Channels \cup Chats
Groups == Teams \cup {MyChats}
FaultKinds == {"error", "emptyBody", "crash", "forbidden"}

ASSUME TeamsAssumption ==
    /\ Channels \cap Chats = {}
    /\ Syncers \cap Fetchers = {}
    /\ MyChats \notin Teams
    /\ Nowhere \notin Channels \cup Chats
    /\ TeamOf \in [Channels -> Teams]
    /\ Home \in [Messages -> Containers]
    /\ Root \in [Messages -> Messages]
    /\ \A m \in Messages : Root[Root[m]] = Root[m] /\ Home[Root[m]] = Home[m]
    /\ \A m \in Messages : Home[m] \in Chats => Root[m] = m
    /\ Lookback \in Nat /\ Overlap \in Nat /\ Lag \in Nat /\ Hold \in Nat
    /\ Lag + Hold < Overlap
    /\ Faults \subseteq FaultKinds
    /\ MaxTime \in Nat
    /\ MaxChanges \in Nat
    /\ MaxFaults \in Nat

VARIABLES
    \* Teams, behind Graph
    time,
    written,   \* message -> time of its last change, 0 before it exists
    shown,     \* message -> time of the change that Graph shows
    changes,   \* changes so far
    \* the database
    rows,      \* messages: the change the row shows, 0 without a row
    sync,      \* sync_states
    excluded,  \* chat_exclusions
    \* the memory of each process
    pc,
    groups,    \* teams, and the chats, that this command has still to sync
    queue,     \* containers of the current team, or chats, still to sync
    walk,      \* locals of syncResource and of the paging
    page,      \* fetched threads that are not applied yet
    \* the environment
    faults     \* disturbances so far

teams == <<time, written, shown, changes>>
database == <<rows, sync, excluded>>
command == <<groups, queue>>
vars == <<teams, database, pc, command, walk, page, faults>>

-----------------------------------------------------------------------------
(* Data *)

\* A row of sync_states.  "none": no row.  "null": a row without a
\* last_success_at, which RecordSyncFailure inserted.  "ok": both times are set.
State == [status : {"none", "null", "ok"}, success : Int, full : Int, failing : BOOLEAN]
NoState == [status |-> "none", success |-> 0, full |-> 0, failing |-> FALSE]

Copy == [id : Messages, at : Nat]

\* A fetched thread: the messages still to upsert, the replies behind
\* replies@odata.nextLink, whether there is such a link, the times of the messages
\* that came with the page, and the times that gave the thread its place.
Entry == [root : Messages, msgs : SUBSET Copy, rest : SUBSET Messages,
          more : BOOLEAN, ats : SUBSET Nat, place : SUBSET Nat]

\* The run of one container.  lowest holds the times of the last thread listed,
\* final says that no page is left, held is when the items in memory were fetched.
Walk == [cont : Containers \cup {Nowhere}, started : Int, since : Int,
         listed : SUBSET Messages, lowest : SUBSET Nat, final : BOOLEAN, held : Int]
NoWalk == [cont |-> Nowhere, started |-> 0, since |-> 0,
           listed |-> {}, lowest |-> {}, final |-> FALSE, held |-> 0]

Steps == {"idle", "begin", "list", "apply", "done"}

TypeOK ==
    /\ time \in Nat
    /\ written \in [Messages -> Nat]
    /\ shown \in [Messages -> Nat]
    /\ changes \in Nat
    /\ rows \in [Messages -> Nat]
    /\ sync \in [Containers -> State]
    /\ excluded \in SUBSET Chats
    /\ pc \in [Procs -> Steps]
    /\ groups \in [Procs -> SUBSET Groups]
    /\ queue \in [Procs -> SUBSET Containers]
    /\ walk \in [Procs -> Walk]
    /\ page \in [Procs -> SUBSET Entry]
    /\ faults \in Nat
    /\ \A p \in Procs : pc[p] # "idle" => walk[p].cont \in Containers

Init ==
    /\ time = 1
    /\ written \in [Messages -> {0, 1}]
    /\ \A m \in Messages : written[m] = 1 => written[Root[m]] = 1
    /\ shown = written
    /\ changes = 0
    /\ rows = [m \in Messages |-> 0]
    /\ sync = [c \in Containers |-> NoState]
    /\ excluded = {}
    /\ pc = [p \in Procs |-> "idle"]
    /\ groups = [p \in Procs |-> {}]
    /\ queue = [p \in Procs |-> {}]
    /\ walk = [p \in Procs |-> NoWalk]
    /\ page = [p \in Procs |-> {}]
    /\ faults = 0

Disturb(kind) ==
    /\ kind \in Faults
    /\ faults < MaxFaults
    /\ faults' = faults + 1

-----------------------------------------------------------------------------
(* Teams and time (external) *)

\* Time does not pass a change's Lag, nor the Hold of items in memory.
Tick ==
    /\ time < MaxTime
    /\ \A m \in Messages : written[m] # shown[m] => time < written[m] + Lag
    /\ \A p \in Procs : page[p] # {} => time < walk[p].held + Hold
    /\ time' = time + 1
    /\ UNCHANGED <<written, shown, changes, database, pc, command, walk, page, faults>>

\* A message is posted, edited or deleted; a reply needs its thread.
Write(m) ==
    /\ changes < MaxChanges
    /\ changes' = changes + 1
    /\ written[m] < time
    /\ m = Root[m] \/ shown[Root[m]] > 0
    /\ written' = [written EXCEPT ![m] = time]
    /\ UNCHANGED <<time, shown, database, pc, command, walk, page, faults>>

\* Graph shows the change.
Show(m) ==
    /\ shown[m] # written[m]
    /\ shown' = [shown EXCEPT ![m] = written[m]]
    /\ UNCHANGED <<time, written, changes, database, pc, command, walk, page, faults>>

CopyOf(m) == [id |-> m, at |-> shown[m]]

Thread(r) == {m \in Messages : Root[m] = r /\ shown[m] > 0}
Threads(c) == {r \in Messages : Home[r] = c /\ Root[r] = r /\ shown[r] > 0}
Times(M) == {shown[m] : m \in M}

\* The newest time of A is not before the newest of B.
NotBefore(A, B) == \A b \in B : \E a \in A : b <= a

\* The threads the next page draws from.  Lists run from the newest thread to the
\* oldest: one that changes after the walk passed its old place is not listed
\* again in this walk.  The list of a chat is filtered by "gt since".
Candidates(c, w) ==
    {r \in Threads(c) \ w.listed :
        /\ w.listed = {} \/ NotBefore(w.lowest, Times(Thread(r)))
        /\ c \in Chats => shown[r] > w.since}

\* A thread as a page shows it: its first message, the replies in the page
\* (inline), and a replies@odata.nextLink if there are more.
EntryOf(r, inline) ==
    LET here == {r} \cup (Thread(r) \cap inline) IN
    [root |-> r,
     msgs |-> {CopyOf(m) : m \in here},
     rest |-> Thread(r) \ here,
     more |-> Thread(r) # here,
     ats  |-> Times(here),
     place |-> Times(Thread(r))]

-----------------------------------------------------------------------------
(* Commands *)

\* Mutant of Return: the loop goes on after the run.
ReturnMissing(p) ==
    /\ walk' = [walk EXCEPT ![p] = NoWalk]
    /\ UNCHANGED <<pc, page>>

\* The run of a container is over.
Return(p) ==
    /\ pc' = [pc EXCEPT ![p] = "idle"]
    /\ walk' = [walk EXCEPT ![p] = NoWalk]
    /\ page' = [page EXCEPT ![p] = {}]

Members(g) == IF g = MyChats THEN Chats ELSE {c \in Channels : TeamOf[c] = g}

\* "sync all", "sync team g" or "sync chats".
SyncCommand(p, G) ==
    /\ p \in Syncers
    /\ pc[p] = "idle" /\ queue[p] = {} /\ groups[p] = {}
    /\ groups' = [groups EXCEPT ![p] = G]
    /\ UNCHANGED <<teams, database, pc, queue, walk, page, faults>>

\* SyncTeam or SyncChats starts to list the containers; chats come last.
SyncGroup(p, g) ==
    /\ pc[p] = "idle" /\ queue[p] = {}
    /\ g \in groups[p]
    /\ g = MyChats => groups[p] = {MyChats}
    /\ groups' = [groups EXCEPT ![p] = @ \ {g}]
    /\ queue' = [queue EXCEPT ![p] = Members(g)]
    /\ UNCHANGED <<teams, database, pc, walk, page, faults>>

\* Listing the containers fails, or ends early.
GroupFails(p) ==
    /\ pc[p] = "idle" /\ queue[p] # {}
    /\ Disturb("error") \/ Disturb("emptyBody")
    /\ queue' = [queue EXCEPT ![p] = {}]
    /\ UNCHANGED <<teams, database, pc, groups, walk, page>>

\* SyncChats leaves out an excluded chat.
SkipExcluded(p, c) ==
    /\ pc[p] = "idle"
    /\ c \in queue[p] \cap excluded
    /\ queue' = [queue EXCEPT ![p] = @ \ {c}]
    /\ UNCHANGED <<teams, database, pc, groups, walk, page, faults>>

\* Mutant of SyncContainer: without the IsChatExcluded test.
SyncExcludedToo(p, c) ==
    /\ pc[p] = "idle"
    /\ c \in queue[p]
    /\ queue' = [queue EXCEPT ![p] = @ \ {c}]
    /\ pc' = [pc EXCEPT ![p] = "begin"]
    /\ walk' = [walk EXCEPT ![p] = [NoWalk EXCEPT !.cont = c, !.started = time]]
    /\ UNCHANGED <<teams, database, groups, page, faults>>

\* SyncChannel or SyncChat: syncResource notes the time.
SyncContainer(p, c) ==
    /\ pc[p] = "idle"
    /\ c \in queue[p] \ excluded
    /\ queue' = [queue EXCEPT ![p] = @ \ {c}]
    /\ pc' = [pc EXCEPT ![p] = "begin"]
    /\ walk' = [walk EXCEPT ![p] = [NoWalk EXCEPT !.cont = c, !.started = time]]
    /\ UNCHANGED <<teams, database, groups, page, faults>>

\* Mutant of Fail: SyncChats returns the error of a chat, as SyncTeam does.
FailEndsCommand(p) ==
    /\ Return(p)
    /\ queue' = [queue EXCEPT ![p] = {}]

\* A channel that fails ends SyncTeam; a chat that fails does not end SyncChats.
Fail(p) ==
    /\ Return(p)
    /\ queue' = [queue EXCEPT ![p] = IF walk[p].cont \in Channels THEN {} ELSE @]

\* RecordSyncFailure: an UPDATE of the row, or an INSERT without success times.  Its
\* own error is ignored.
RecordSyncFailure(c) ==
    \/ sync' = [sync EXCEPT ![c].status = IF @ = "none" THEN "null" ELSE @,
                            ![c].failing = TRUE]
    \/ UNCHANGED sync

-----------------------------------------------------------------------------
(* syncResource *)

\* Mutant of Since: no overlap.
SinceSuccess(st, started) ==
    IF st.status = "ok" THEN st.success ELSE started - Lookback

\* The lower bound of the run.
Since(st, started) ==
    IF st.status = "ok" THEN st.success - Overlap ELSE started - Lookback

\* GetSyncState.
ReadState(p) ==
    /\ pc[p] = "begin"
    /\ LET st == sync[walk[p].cont] IN
         /\ st.status # "null"
         /\ walk' = [walk EXCEPT ![p].since = Since(st, walk[p].started)]
    /\ pc' = [pc EXCEPT ![p] = "list"]
    /\ UNCHANGED <<teams, database, command, page, faults>>

\* GetSyncState scans a NULL last_success_at into a string: an error that is
\* returned before anything is fetched, and not recorded.
StateUnreadable(p) ==
    /\ pc[p] = "begin"
    /\ sync[walk[p].cont].status = "null"
    /\ Fail(p)
    /\ UNCHANGED <<teams, database, groups, faults>>

\* The query of GetSyncState or of RecordSyncSuccess fails: not recorded.
StateFails(p) ==
    /\ p \in Syncers
    /\ pc[p] \in {"begin", "done"}
    /\ Disturb("error")
    /\ Fail(p)
    /\ UNCHANGED <<teams, database, groups>>

\* The next page of the container: some of the newest candidates.
ListPage(p) ==
    /\ pc[p] = "list"
    /\ LET candidates == Candidates(walk[p].cont, walk[p]) IN
       \E S \in SUBSET candidates : \E last \in S :
         /\ \A r \in S : NotBefore(Times(Thread(r)), Times(Thread(last)))
         /\ \A r \in candidates \ S : NotBefore(Times(Thread(last)), Times(Thread(r)))
         /\ \E inline \in SUBSET (UNION {Thread(r) \ {r} : r \in S}) :
              page' = [page EXCEPT ![p] = {EntryOf(r, inline) : r \in S}]
         /\ walk' = [walk EXCEPT ![p].listed = @ \cup S,
                                 ![p].lowest = Times(Thread(last)),
                                 ![p].final = (S = candidates),
                                 ![p].held = time]
    /\ pc' = [pc EXCEPT ![p] = "apply"]
    /\ UNCHANGED <<teams, database, command, faults>>

\* The list has nothing (more) to show.
ListEmpty(p) ==
    /\ pc[p] = "list"
    /\ Candidates(walk[p].cont, walk[p]) = {}
    /\ pc' = [pc EXCEPT ![p] = "done"]
    /\ UNCHANGED <<teams, database, command, walk, page, faults>>

\* graph.do takes a 2xx answer whose body was lost for an empty page.
ListEmptyBody(p) ==
    /\ pc[p] = "list"
    /\ Disturb("emptyBody")
    /\ pc' = [pc EXCEPT ![p] = "done"]
    /\ UNCHANGED <<teams, database, command, walk, page>>

\* The page is worked through from the newest thread to the oldest.
Current(p, e) == \A x \in page[p] : NotBefore(e.place, x.place)

Replace(p, e, new) == page' = [page EXCEPT ![p] = (@ \ {e}) \cup {new}]

\* UpsertMessage: one row per message, whatever it held before; the first message
\* of a thread comes before its replies.
UpsertMessage(p) ==
    /\ pc[p] = "apply"
    /\ \E e \in page[p] : \E msg \in e.msgs :
         /\ Current(p, e)
         /\ (\E x \in e.msgs : x.id = e.root) => msg.id = e.root
         /\ rows' = [rows EXCEPT ![msg.id] = msg.at]
         /\ Replace(p, e, [e EXCEPT !.msgs = @ \ {msg}])
    /\ UNCHANGED <<teams, sync, excluded, pc, command, walk, faults>>

\* The replies behind the thread's nextLink.
RepliesPage(p) ==
    /\ pc[p] = "apply"
    /\ \E e \in page[p] :
         /\ Current(p, e)
         /\ e.msgs = {} /\ e.rest # {}
         /\ Replace(p, e, [e EXCEPT !.msgs = {CopyOf(m) : m \in e.rest}, !.rest = {}])
    /\ UNCHANGED <<teams, database, pc, command, walk, faults>>

\* The answer with these replies was lost.
RepliesEmptyBody(p) ==
    /\ pc[p] = "apply"
    /\ Disturb("emptyBody")
    /\ \E e \in page[p] :
         /\ Current(p, e)
         /\ e.msgs = {} /\ e.rest # {}
         /\ Replace(p, e, [e EXCEPT !.rest = {}])
    /\ UNCHANGED <<teams, database, pc, command, walk>>

\* Mutant of ThreadBefore: replies behind a nextLink do not count.
ThreadBeforeInline(e, w) == \A a \in e.ats : a < w.since

\* The condition under which the list of a channel is left: threadBefore, on the
\* messages of the page, unless there was a nextLink.
ThreadBefore(e, w) == ~e.more /\ \A a \in e.ats : a < w.since

\* A thread is done: on to the next one, the next page or the end.
ThreadDone(p) ==
    /\ pc[p] = "apply"
    /\ \E e \in page[p] :
         /\ Current(p, e)
         /\ e.msgs = {} /\ e.rest = {}
         /\ LET stop == walk[p].cont \in Channels /\ ThreadBefore(e, walk[p]) IN
              /\ page' = [page EXCEPT ![p] = IF stop THEN {} ELSE @ \ {e}]
              /\ pc' = [pc EXCEPT ![p] =
                          IF stop \/ (page[p] = {e} /\ walk[p].final) THEN "done"
                          ELSE IF page[p] = {e} THEN "list" ELSE "apply"]
    /\ UNCHANGED <<teams, database, command, walk, faults>>

\* RecordSyncSuccess: the success time is the time the run started.
SucceededState(st, started) ==
    [status  |-> "ok",
     success |-> started,
     full    |-> IF st.status = "ok" THEN st.full ELSE started,
     failing |-> FALSE]

\* Mutant of RecordSyncSuccess: the success time is the time the run ended.
RecordCompletion(p) ==
    /\ p \in Syncers
    /\ pc[p] = "done"
    /\ sync' = [sync EXCEPT ![walk[p].cont] = SucceededState(@, time)]
    /\ Return(p)
    /\ UNCHANGED <<teams, rows, excluded, command, faults>>

\* The end of syncResource.
RecordSyncSuccess(p) ==
    /\ p \in Syncers
    /\ pc[p] = "done"
    /\ sync' = [sync EXCEPT ![walk[p].cont] = SucceededState(@, walk[p].started)]
    /\ Return(p)
    /\ UNCHANGED <<teams, rows, excluded, command, faults>>

\* Graph or the database fails while the container is listed or applied.
RunFails(p) ==
    /\ p \in Syncers
    /\ pc[p] \in {"list", "apply"}
    /\ Disturb("error")
    /\ RecordSyncFailure(walk[p].cont)
    /\ Fail(p)
    /\ UNCHANGED <<teams, rows, excluded, groups>>

\* Graph answers InsufficientPrivileges: SyncChats excludes the chat.
ExcludeChat(p) ==
    /\ p \in Syncers
    /\ pc[p] = "list"
    /\ walk[p].cont \in Chats
    /\ Disturb("forbidden")
    /\ RecordSyncFailure(walk[p].cont)
    /\ excluded' = excluded \cup {walk[p].cont}
    /\ Fail(p)
    /\ UNCHANGED <<teams, rows, groups>>

-----------------------------------------------------------------------------
(* FetchURL *)

\* One message, and the replies of a channel's thread; no sync state is touched.
FetchURL(p, m) ==
    /\ p \in Fetchers
    /\ pc[p] = "idle"
    /\ shown[m] > 0
    /\ page' = [page EXCEPT ![p] =
                  {[root |-> m,
                    msgs |-> {CopyOf(m)},
                    rest |-> Thread(m) \ {m},
                    more |-> TRUE,
                    ats  |-> {shown[m]},
                    place |-> {shown[m]}]}]
    /\ walk' = [walk EXCEPT ![p] =
                  [NoWalk EXCEPT !.cont = Home[m], !.final = TRUE, !.held = time]]
    /\ pc' = [pc EXCEPT ![p] = "apply"]
    /\ UNCHANGED <<teams, database, command, faults>>

FetchReturns(p) ==
    /\ p \in Fetchers
    /\ pc[p] = "done"
    /\ Return(p)
    /\ UNCHANGED <<teams, database, command, faults>>

FetchFails(p) ==
    /\ p \in Fetchers
    /\ pc[p] # "idle"
    /\ Disturb("error")
    /\ Return(p)
    /\ UNCHANGED <<teams, database, command>>

\* The process is killed; what is left is the database.
Crash(p) ==
    /\ pc[p] # "idle" \/ queue[p] # {} \/ groups[p] # {}
    /\ Disturb("crash")
    /\ Return(p)
    /\ groups' = [groups EXCEPT ![p] = {}]
    /\ queue' = [queue EXCEPT ![p] = {}]
    /\ UNCHANGED <<teams, database>>

-----------------------------------------------------------------------------
(* The system *)

\* What a process does next when nothing disturbs it.
Work(p) ==
    \/ \E g \in Groups : SyncGroup(p, g)
    \/ \E c \in Containers : SkipExcluded(p, c) \/ SyncContainer(p, c)
    \/ ReadState(p)
    \/ StateUnreadable(p)
    \/ ListPage(p)
    \/ ListEmpty(p)
    \/ UpsertMessage(p)
    \/ RepliesPage(p)
    \/ ThreadDone(p)
    \/ RecordSyncSuccess(p)
    \/ FetchReturns(p)

Failure(p) ==
    \/ GroupFails(p)
    \/ StateFails(p)
    \/ ListEmptyBody(p)
    \/ RepliesEmptyBody(p)
    \/ RunFails(p)
    \/ ExcludeChat(p)
    \/ FetchFails(p)
    \/ Crash(p)

Operator(p) ==
    \/ \E G \in {Groups} \cup {{g} : g \in Groups} : SyncCommand(p, G)
    \/ \E m \in Messages : FetchURL(p, m)

Service == Tick \/ \E m \in Messages : Write(m) \/ Show(m)

Next ==
    \/ Service
    \/ \E p \in Procs : Work(p) \/ Failure(p) \/ Operator(p)

Spec == Init /\ [][Next]_vars

\* A command that was started runs on, "sync all" is run again and again, and
\* Graph shows every change in the end.
Fairness ==
    /\ \A m \in Messages : WF_vars(Show(m))
    /\ \A p \in Syncers : WF_vars(Work(p)) /\ SF_vars(SyncCommand(p, Groups))
FairSpec == Spec /\ Fairness

-----------------------------------------------------------------------------
(* Properties *)

\* For a run that started at s the thread of m is at rest: none of its changes is
\* so young that it may have come to show, or to be written, since then.
AtRest(m, s) == \A x \in Messages : Root[x] = Root[m] => written[x] + Lag < s

\* Message m is within the reach of the first successful run of its container.
InReach(m) == written[m] > sync[Home[m]].full - Lookback

Synced(c) == sync[c].status = "ok"

\* A success time vouches for the rows: with one sync process, whatever showed in
\* Graph before the run started is stored as it was written, threads that changed
\* during the run apart, which the next run reads again.  (syncResource records
\* the start of the run, and only after every page was applied.)
SuccessCovers ==
    \A m \in Messages :
        LET st == sync[Home[m]] IN
        /\ Synced(Home[m]) /\ InReach(m)
        /\ AtRest(m, st.success)
        => rows[m] = written[m]

\* The same with any number of processes, for what is older than the overlap: a
\* stale copy that a slower process wrote over a row is repaired before the
\* overlap leaves it behind.  (No run may be longer than Lookback - Overlap.)
OverlapHeals ==
    \A m \in Messages :
        LET st == sync[Home[m]] IN
        /\ Synced(Home[m]) /\ InReach(m)
        /\ written[m] <= st.success - Overlap
        /\ AtRest(m, st.success)
        => rows[m] = written[m]

\* With one sync process, no run touches the messages of a chat once it is excluded.
\* (SyncChats asks IsChatExcluded before each chat.)
ExcludedUntouched ==
    [][\A m \in Messages : Home[m] \in excluded => rows'[m] = rows[m]]_vars

\* After the last failure the success time of every container that has been synced
\* once follows the clock, whatever became of the others.  (The plan: an error of one
\* channel or chat does not stop the whole synchronisation.)
OthersFollow ==
    <>[](\A c \in Containers :
           Synced(c) /\ c \notin excluded => sync[c].success = time)

\* A container that failed, and that is not excluded, succeeds again once failures
\* stop.  (The plan: what a failure leaves behind is an error and a start time
\* that has not moved, for the next run.)
FailuresClear ==
    <>[](\A c \in Containers \ excluded : ~sync[c].failing)

=============================================================================
