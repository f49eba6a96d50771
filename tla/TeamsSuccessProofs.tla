-------------------------- MODULE TeamsSuccessProofs --------------------------
(***************************************************************************)
(* What the overlap is for, proved: a success time of TeamsSync vouches    *)
(* for the rows, with one sync process and no lost answer, for every set   *)
(* of messages and containers, every overlap longer than the lag, and      *)
(* every bound.                                                            *)
(***************************************************************************)
EXTENDS TeamsSyncProofs

\* No 2xx answer lost its body on the way.
NoLostBody == "emptyBody" \notin Faults

Running(p) == pc[p] \in {"list", "apply", "done"}

-----------------------------------------------------------------------------
(* The inductive invariant *)

\* Graph: a change shows within Lag, and only what was written shows or is stored.
GraphInv ==
    /\ time >= 1
    /\ \A m \in Messages : written[m] # shown[m] => time <= written[m] + Lag
    /\ \A m \in Messages : written[m] = 0 => shown[m] = 0 /\ rows[m] = 0
    /\ \A m \in Messages : written[m] > 0 => written[Root[m]] > 0

\* The times of the sync states and of the runs.
SuccessPast == \A c \in Containers : Synced(c) => sync[c].success <= time

RunTimes(p) ==
    /\ pc[p] # "idle" =>
          /\ walk[p].started <= time
          /\ Synced(walk[p].cont) => sync[walk[p].cont].success <= walk[p].started
    /\ pc[p] = "begin" => walk[p].listed = {}
    /\ Running(p) => walk[p].since = Since(sync[walk[p].cont], walk[p].started)

\* A fetched thread: it is of this container, a message at rest was fetched as
\* it was written, and the thread has the place its messages gave it.
EntryHolds(e, w) ==
    /\ \A msg \in e.msgs :
          /\ Root[msg.id] = e.root /\ Home[msg.id] = w.cont
          /\ written[msg.id] > 0
          /\ AtRest(msg.id, w.started) => msg.at = written[msg.id]
    /\ \A m \in e.rest : Root[m] = e.root /\ Home[m] = w.cont /\ written[m] > 0
    /\ ~e.more => e.ats = e.place
    /\ NotBefore(e.place, w.lowest)
    /\ AtRest(e.root, w.started) => e.place = Times(Thread(e.root))
    /\ e.root \in w.listed

PageHolds(p) ==
    /\ pc[p] # "apply" => page[p] = {}
    /\ \A e \in page[p] : EntryHolds(e, walk[p])

\* The messages a success of this run vouches for.
Wanted(m, w) ==
    /\ Home[m] = w.cont
    /\ AtRest(m, w.started)
    /\ IF Synced(w.cont) THEN InReach(m) ELSE written[m] > w.started - Lookback

Fetched(m, P) == \E e \in P : m \in e.rest \/ \E msg \in e.msgs : msg.id = m

\* The thread of m is still to be listed.
Ahead(m, w) ==
    /\ Root[m] \notin w.listed
    /\ w.listed = {} \/ NotBefore(w.lowest, Times(Thread(Root[m])))

PagesLeft(p) == pc[p] = "list" \/ (pc[p] = "apply" /\ ~walk[p].final)

\* Every message that the run will vouch for is stored, in memory, or still ahead.
RunCovers(p) ==
    Running(p) =>
        \A m \in Messages : Wanted(m, walk[p]) =>
            \/ rows[m] = written[m]
            \/ Fetched(m, page[p])
            \/ PagesLeft(p) /\ Ahead(m, walk[p])

ProcInv(p) == RunTimes(p) /\ PageHolds(p) /\ RunCovers(p)

SuccessInv ==
    /\ TypeOK
    /\ GraphInv
    /\ SuccessPast
    /\ SuccessCovers
    /\ \A p \in Procs : ProcInv(p)

-----------------------------------------------------------------------------
(* Threads at rest *)

LEMMA RestOfRoot ==
    ASSUME NEW m \in Messages, NEW s \in Int
    PROVE  Root[m] \in Messages /\ (AtRest(Root[m], s) <=> AtRest(m, s))
  BY TeamsAssumption DEF AtRest

\* Graph shows a thread at rest as it was written.
LEMMA RestShows ==
    ASSUME TypeOK, GraphInv, NEW s \in Int, s <= time,
           NEW m \in Messages, AtRest(m, s),
           NEW x \in Messages, Root[x] = Root[m]
    PROVE  shown[x] = written[x]
  BY TeamsAssumption DEF TypeOK, GraphInv, AtRest

\* A message rests earlier than the containers' runs reach back to, or later.
LEMMA RestEarlier ==
    ASSUME TypeOK, NEW m \in Messages, NEW s \in Int, NEW t \in Int, s <= t, AtRest(m, s)
    PROVE  AtRest(m, t)
  BY TeamsAssumption DEF TypeOK, AtRest

\* The thread of a message that shows is listed under its container.
LEMMA ThreadMembers ==
    ASSUME NEW r \in Messages, NEW c, r \in Threads(c), NEW x \in Thread(r)
    PROVE  x \in Messages /\ Root[x] = r /\ Home[x] = c /\ shown[x] > 0
  BY TeamsAssumption DEF Threads, Thread

\* With time, messages at rest stay as they are.
LEMMA RestStable ==
    ASSUME TypeOK, TypeOK', GraphInv, GraphInv', time <= time',
           \A x \in Messages : written'[x] = written[x] \/ written'[x] >= time,
           NEW m \in Messages, NEW s \in Int, s <= time, AtRest(m, s)'
    PROVE  /\ AtRest(m, s)
           /\ \A x \in Messages : Root[x] = Root[m] =>
                 written'[x] = written[x] /\ shown'[x] = shown[x]
  <1>1. \A x \in Messages : Root[x] = Root[m] => written'[x] + Lag < s
    BY DEF AtRest
  <1>2. \A x \in Messages : Root[x] = Root[m] => written'[x] = written[x]
    BY <1>1, TeamsAssumption DEF TypeOK
  <1>3. AtRest(m, s)
    BY <1>1, <1>2 DEF AtRest
  <1>4. \A x \in Messages : Root[x] = Root[m] => shown[x] = written[x]
    BY <1>3, RestShows
  <1>5. \A x \in Messages : Root[x] = Root[m] => shown'[x] = written'[x]
    BY <1>1, TeamsAssumption DEF TypeOK, GraphInv
  <1>6. QED
    BY <1>2, <1>3, <1>4, <1>5

LEMMA ThreadStable ==
    ASSUME NEW r \in Messages,
           \A x \in Messages : Root[x] = r => shown'[x] = shown[x]
    PROVE  Times(Thread(r))' = Times(Thread(r))
  <1>1. Thread(r)' = Thread(r)
    BY DEF Thread
  <1>2. \A x \in Thread(r) : shown'[x] = shown[x]
    BY DEF Thread
  <1>3. QED
    BY <1>1, <1>2 DEF Times

-----------------------------------------------------------------------------
(* Steps of Graph and of time *)

\* What Tick, Write and Show do to the messages.
LEMMA GraphAges ==
    ASSUME TypeOK, GraphInv, Service
    PROVE  /\ time <= time'
           /\ \A x \in Messages : written'[x] = written[x] \/ written'[x] >= time
           /\ UNCHANGED <<rows, sync, pc, walk, page>>
  <1>1. CASE Tick
    BY <1>1 DEF TypeOK, Tick, database
  <1>2. ASSUME NEW m \in Messages, Write(m)
        PROVE  /\ time <= time'
               /\ \A x \in Messages : written'[x] = written[x] \/ written'[x] >= time
               /\ UNCHANGED <<rows, sync, pc, walk, page>>
    BY <1>2 DEF TypeOK, Write, database
  <1>3. ASSUME NEW m \in Messages, Show(m)
        PROVE  /\ time <= time'
               /\ \A x \in Messages : written'[x] = written[x] \/ written'[x] >= time
               /\ UNCHANGED <<rows, sync, pc, walk, page>>
    BY <1>3 DEF TypeOK, Show, database
  <1>4. QED
    BY <1>1, <1>2, <1>3 DEF Service

LEMMA GraphKept == ASSUME TypeOK, GraphInv, Service PROVE GraphInv'
  <1>1. CASE Tick
    BY <1>1, TeamsAssumption DEF TypeOK, GraphInv, Tick, database
  <1>2. ASSUME NEW m \in Messages, Write(m) PROVE GraphInv'
    <2>1. /\ written' = [written EXCEPT ![m] = time]
          /\ time' = time /\ shown' = shown /\ rows' = rows
          /\ m = Root[m] \/ shown[Root[m]] > 0
      BY <1>2 DEF Write, database
    <2>2. written[Root[m]] > 0 \/ Root[m] = m
      <3>1. Root[m] \in Messages
        BY TeamsAssumption
      <3>2. QED
        BY <2>1, <3>1 DEF TypeOK, GraphInv
    <2>3. \A x \in Messages : written'[x] = IF x = m THEN time ELSE written[x]
      BY <2>1 DEF TypeOK
    <2>4. \A x \in Messages : written'[x] # shown'[x] => time' <= written'[x] + Lag
      BY <2>1, <2>3, TeamsAssumption DEF TypeOK, GraphInv
    <2>5. \A x \in Messages : written'[x] > 0 => written'[Root[x]] > 0
      BY <2>2, <2>3, TeamsAssumption DEF TypeOK, GraphInv
    <2>6. QED
      BY <2>1, <2>3, <2>4, <2>5 DEF TypeOK, GraphInv
  <1>3. ASSUME NEW m \in Messages, Show(m) PROVE GraphInv'
    BY <1>3 DEF TypeOK, GraphInv, Show, database
  <1>4. QED
    BY <1>1, <1>2, <1>3 DEF Service

\* A fetched thread is as good as before.
LEMMA EntryAges ==
    ASSUME TypeOK, TypeOK', GraphInv, GraphInv', time <= time',
           \A x \in Messages : written'[x] = written[x] \/ written'[x] >= time,
           NEW w \in Walk, w.started <= time,
           NEW e \in Entry, EntryHolds(e, w)
    PROVE  EntryHolds(e, w)'
  <1>1. w.started \in Int /\ e.root \in Messages /\ e.rest \in SUBSET Messages
    BY DEF Walk, Entry
  <1>2. \A msg \in e.msgs : msg.id \in Messages
    BY DEF Entry, Copy
  <1>3. \A x \in Messages : written[x] > 0 => written'[x] > 0
    BY DEF TypeOK, GraphInv
  <1>4. ASSUME NEW msg \in e.msgs, AtRest(msg.id, w.started)'
        PROVE  msg.at = written'[msg.id]
    <2>1. AtRest(msg.id, w.started) /\ written'[msg.id] = written[msg.id]
      BY <1>1, <1>2, <1>4, RestStable
    <2>2. QED
      BY <2>1 DEF EntryHolds
  <1>5. ASSUME AtRest(e.root, w.started)' PROVE e.place = Times(Thread(e.root))'
    <2>1. CASE \E m \in Messages : Root[m] = e.root
      <3>1. Root[e.root] = e.root
        BY <2>1, TeamsAssumption
      <3>2. /\ AtRest(e.root, w.started)
            /\ \A x \in Messages : Root[x] = e.root => shown'[x] = shown[x]
        BY <1>1, <1>5, <3>1, RestStable
      <3>3. Times(Thread(e.root))' = Times(Thread(e.root))
        BY <1>1, <3>2, ThreadStable
      <3>4. QED
        BY <3>2, <3>3 DEF EntryHolds
    <2>2. CASE ~\E m \in Messages : Root[m] = e.root
      <3>1. \A x \in Messages : Root[x] = e.root => shown'[x] = shown[x]
        BY <2>2
      <3>2. Times(Thread(e.root))' = Times(Thread(e.root))
        BY <1>1, <3>1, ThreadStable
      <3>3. AtRest(e.root, w.started)
        BY <1>1, <1>5, RestStable
      <3>4. QED
        BY <3>2, <3>3 DEF EntryHolds
    <2>3. QED
      BY <2>1, <2>2
  <1>6. QED
    BY <1>1, <1>2, <1>3, <1>4, <1>5 DEF EntryHolds, NotBefore

\* What a run still has to do does not change.
LEMMA RunAges ==
    ASSUME TypeOK, TypeOK', GraphInv, GraphInv', time <= time',
           \A x \in Messages : written'[x] = written[x] \/ written'[x] >= time,
           UNCHANGED <<rows, sync, pc, walk, page>>,
           NEW p \in Procs, RunTimes(p), RunCovers(p)
    PROVE  RunCovers(p)'
  <1> DEFINE w == walk[p]
  <1>1. SUFFICES ASSUME Running(p), NEW m \in Messages, Wanted(m, w)'
                 PROVE  \/ rows[m] = written'[m]
                        \/ Fetched(m, page[p])
                        \/ PagesLeft(p) /\ Ahead(m, w)'
    BY DEF RunCovers, Running, PagesLeft, Fetched
  <1>2. w \in Walk /\ w.started \in Int /\ w.started <= time
    BY <1>1 DEF TypeOK, Walk, RunTimes, Running
  <1>3. w' = w /\ AtRest(m, w.started)' /\ Home[m] = w.cont
    BY <1>1 DEF Wanted
  <1>4. /\ AtRest(m, w.started)
        /\ \A x \in Messages : Root[x] = Root[m] =>
              written'[x] = written[x] /\ shown'[x] = shown[x]
    BY <1>2, <1>3, RestStable
  <1>5. written'[m] = written[m]
    BY <1>4
  <1>6. Wanted(m, w)
    BY <1>1, <1>3, <1>4, <1>5 DEF Wanted, Synced, InReach
  <1>7. Times(Thread(Root[m]))' = Times(Thread(Root[m]))
    BY <1>4, RestOfRoot, ThreadStable, TeamsAssumption
  <1>8. Ahead(m, w) => Ahead(m, w)'
    BY <1>3, <1>7 DEF Ahead, NotBefore
  <1>9. QED
    BY <1>1, <1>5, <1>6, <1>8 DEF RunCovers

LEMMA SuccessService ==
    ASSUME SuccessInv, Service PROVE SuccessInv'
  <1>1. TypeOK /\ TypeOK' /\ GraphInv /\ GraphInv'
    BY TypeService, GraphKept DEF SuccessInv
  <1>2. /\ time <= time'
        /\ \A x \in Messages : written'[x] = written[x] \/ written'[x] >= time
        /\ UNCHANGED <<rows, sync, pc, walk, page>>
    BY <1>1, GraphAges
  <1>3. SuccessPast'
    BY <1>1, <1>2 DEF SuccessInv, SuccessPast, Synced, TypeOK, State
  <1>4. SuccessCovers'
    <2>1. SUFFICES ASSUME NEW m \in Messages, Synced(Home[m])', InReach(m)',
                          AtRest(m, sync[Home[m]].success)'
                   PROVE  rows[m] = written'[m]
      BY <1>2 DEF SuccessCovers
    <2> DEFINE s == sync[Home[m]].success
    <2>2. s \in Int /\ s <= time /\ s' = s
      BY <1>1, <1>2, <2>1, TeamsAssumption DEF SuccessInv, SuccessPast, Synced, TypeOK, State
    <2>3. AtRest(m, s)'
      BY <2>1
    <2> HIDE DEF s
    <2>4. AtRest(m, s) /\ written'[m] = written[m]
      <3>1. \A t \in Int : t <= time /\ AtRest(m, t)' =>
               AtRest(m, t) /\ written'[m] = written[m]
        BY <1>1, <1>2, RestStable
      <3>2. QED
        BY <2>2, <2>3, <3>1 DEF AtRest
    <2>5. Synced(Home[m]) /\ InReach(m)
      BY <1>2, <2>1, <2>4 DEF Synced, InReach
    <2>6. rows[m] = written[m]
      BY <2>4, <2>5 DEF s, SuccessInv, SuccessCovers
    <2>7. QED
      BY <2>4, <2>6
  <1>5. ASSUME NEW p \in Procs PROVE ProcInv(p)'
    <2>1. RunTimes(p) /\ PageHolds(p) /\ RunCovers(p)
      BY DEF SuccessInv, ProcInv
    <2>2. RunTimes(p)'
      <3>1. walk[p] \in Walk
        BY <1>1 DEF TypeOK
      <3>2. walk[p].started \in Int
        BY <3>1 DEF Walk
      <3>3. pc[p] # "idle" => walk[p].started <= time'
        BY <1>1, <1>2, <2>1, <3>2 DEF RunTimes, TypeOK
      <3>4. QED
        BY <1>2, <2>1, <3>3 DEF RunTimes, Running, Synced
    <2>3. PageHolds(p)'
      <3>1. ASSUME NEW e \in page[p] PROVE EntryHolds(e, walk[p])'
        <4>1. e \in Entry /\ walk[p] \in Walk /\ pc[p] # "idle"
          BY <1>1, <2>1 DEF TypeOK, PageHolds
        <4>2. walk[p].started <= time /\ EntryHolds(e, walk[p])
          BY <2>1, <4>1 DEF RunTimes, PageHolds
        <4> DEFINE w == walk[p]
        <4>3. w \in Walk /\ w.started <= time /\ EntryHolds(e, w) /\ w' = w
          BY <1>2, <4>1, <4>2
        <4>4. PICK v \in Walk : v = w
          BY <4>3
        <4>5. EntryHolds(e, v) /\ v.started <= time
          BY <4>3, <4>4
        <4>6. EntryHolds(e, v)'
          BY <1>1, <1>2, <4>1, <4>5, EntryAges
        <4>7. v = w'
          BY <4>3, <4>4
        <4>8. QED
          BY <4>6, <4>7 DEF EntryHolds, AtRest
      <3>2. QED
        BY <1>2, <2>1, <3>1 DEF PageHolds
    <2>4. RunCovers(p)'
      BY <1>1, <1>2, <2>1, RunAges
    <2>5. QED
      BY <2>2, <2>3, <2>4 DEF ProcInv
  <1>6. QED
    BY <1>1, <1>3, <1>4, <1>5 DEF SuccessInv

-----------------------------------------------------------------------------
(* The ends of a run, and the steps between runs *)

\* Steps that change no message, no row and no success time.
LEMMA DatabaseStays ==
    ASSUME SuccessInv, TypeOK', UNCHANGED <<time, written, shown, rows>>,
           \A c \in Containers :
               /\ Synced(c)' = Synced(c)
               /\ sync'[c].success = sync[c].success /\ sync'[c].full = sync[c].full
    PROVE  GraphInv' /\ SuccessPast' /\ SuccessCovers'
  <1>1. GraphInv'
    BY DEF SuccessInv, GraphInv
  <1>2. SuccessPast'
    BY DEF SuccessInv, SuccessPast
  <1>3. SuccessCovers'
    <2>1. \A m \in Messages : Home[m] \in Containers
      BY TeamsAssumption
    <2>2. \A m \in Messages : InReach(m)' = InReach(m)
      BY <2>1 DEF InReach
    <2>3. \A m \in Messages :
              AtRest(m, sync[Home[m]].success)' = AtRest(m, sync[Home[m]].success)
      BY <2>1 DEF AtRest
    <2>4. QED
      BY <2>1, <2>2, <2>3 DEF SuccessInv, SuccessCovers
  <1>4. QED
    BY <1>1, <1>2, <1>3

\* With one process, it is enough to look at the one that takes the step.
LEMMA StepOfTheOne ==
    ASSUME OneSyncer, SuccessInv, TypeOK', NEW p \in Procs, ProcInv(p)',
           UNCHANGED <<time, written, shown, rows, sync>>
    PROVE  SuccessInv'
  <1>1. GraphInv' /\ SuccessPast' /\ SuccessCovers'
    BY DatabaseStays DEF Synced
  <1>2. \A q \in Procs : q = p
    BY DEF OneSyncer
  <1>3. \A q \in Procs : ProcInv(q)'
    BY <1>2
  <1>4. QED
    BY <1>1, <1>3 DEF SuccessInv

LEMMA ReturnLeavesIdle ==
    ASSUME OneSyncer, TypeOK, NEW p \in Procs, Return(p)
    PROVE  \A q \in Procs : ProcInv(q)'
  <1>1. ASSUME NEW q \in Procs PROVE pc'[q] = "idle" /\ page'[q] = {}
    BY DEF OneSyncer, TypeOK, Return
  <1>2. QED
    BY <1>1 DEF ProcInv, RunTimes, PageHolds, RunCovers, Running

\* A failure or a crash vouches for nothing new.
LEMMA SuccessFailure ==
    ASSUME OneSyncer, SuccessInv, TypeOK', NEW p \in Procs,
           StateUnreadable(p) \/ StateFails(p) \/ RunFails(p) \/ ExcludeChat(p)
               \/ Crash(p)
    PROVE  SuccessInv'
  <1>1. TypeOK /\ Return(p) /\ UNCHANGED <<time, written, shown, rows>>
    BY DEF SuccessInv, StateUnreadable, StateFails, RunFails, ExcludeChat, Crash,
           Fail, teams, database
  <1>2. \A q \in Procs : ProcInv(q)'
    BY <1>1, ReturnLeavesIdle
  <1>3. ASSUME NEW c \in Containers
        PROVE  /\ Synced(c)' = Synced(c)
               /\ sync'[c].success = sync[c].success /\ sync'[c].full = sync[c].full
    <2>1. CASE UNCHANGED sync
      BY <2>1 DEF Synced
    <2>2. ASSUME NEW x \in Containers,
                 sync' = [sync EXCEPT ![x].status = IF @ = "none" THEN "null" ELSE @,
                                      ![x].failing = TRUE]
          PROVE  /\ Synced(c)' = Synced(c)
                 /\ sync'[c].success = sync[c].success /\ sync'[c].full = sync[c].full
      <3>1. sync \in [Containers -> State]
        BY <1>1 DEF TypeOK
      <3>2. QED
        BY <2>2, <3>1 DEF Synced, State
    <2>3. walk[p].cont \in Containers \/ UNCHANGED sync
      BY <1>1 DEF TypeOK, StateUnreadable, StateFails, RunFails, ExcludeChat, Crash,
           database
    <2>4. UNCHANGED sync \/ RecordSyncFailure(walk[p].cont)
      BY DEF StateUnreadable, StateFails, RunFails, ExcludeChat, Crash, database
    <2>5. QED
      BY <2>1, <2>2, <2>3, <2>4 DEF RecordSyncFailure
  <1>4. GraphInv' /\ SuccessPast' /\ SuccessCovers'
    BY <1>1, <1>3, DatabaseStays
  <1>5. QED
    BY <1>2, <1>4 DEF SuccessInv

\* A success vouches for what the run wanted, and all of it is stored.
LEMMA SuccessRecorded ==
    ASSUME OneSyncer, SuccessInv, TypeOK', NEW p \in Procs, RecordSyncSuccess(p)
    PROVE  SuccessInv'
  <1> DEFINE w == walk[p]
             c == walk[p].cont
  <1>1. /\ TypeOK /\ Return(p) /\ UNCHANGED <<time, written, shown, rows>>
        /\ pc[p] = "done"
        /\ sync' = [sync EXCEPT ![c] = SucceededState(sync[c], w.started)]
    BY DEF SuccessInv, RecordSyncSuccess, teams
  <1>2. w \in Walk /\ c \in Containers /\ w.started \in Int /\ w.started <= time
    BY <1>1 DEF TypeOK, Walk, SuccessInv, ProcInv, RunTimes
  <1>3. \A x \in Containers :
            sync'[x] = IF x = c THEN SucceededState(sync[c], w.started) ELSE sync[x]
    BY <1>1, <1>2 DEF TypeOK
  <1>4. /\ sync'[c].status = "ok" /\ sync'[c].success = w.started
        /\ sync'[c].full = IF Synced(c) THEN sync[c].full ELSE w.started
    BY <1>2, <1>3 DEF SucceededState, Synced
  <1>5. \A q \in Procs : ProcInv(q)'
    BY <1>1, ReturnLeavesIdle
  <1>6. GraphInv'
    BY <1>1 DEF SuccessInv, GraphInv
  <1>7. SuccessPast'
    BY <1>1, <1>2, <1>3, <1>4 DEF SuccessInv, SuccessPast, Synced
  <1>8. SuccessCovers'
    <2>1. SUFFICES ASSUME NEW m \in Messages, Synced(Home[m])', InReach(m)',
                          AtRest(m, sync[Home[m]].success)'
                   PROVE  rows[m] = written[m]
      BY <1>1 DEF SuccessCovers
    <2>2. CASE Home[m] = c
      <3>1. Wanted(m, w)
        <4>1. AtRest(m, w.started)
          BY <1>1, <1>4, <2>1, <2>2 DEF AtRest
        <4>2. written[m] > (IF Synced(c) THEN sync[c].full ELSE w.started) - Lookback
          BY <1>1, <1>4, <2>1, <2>2 DEF InReach
        <4>3. QED
          BY <2>2, <4>1, <4>2 DEF Wanted, InReach
      <3>2. RunCovers(p) /\ page[p] = {}
        BY <1>1 DEF SuccessInv, ProcInv, PageHolds
      <3>3. QED
        BY <1>1, <3>1, <3>2 DEF RunCovers, Running, Fetched, PagesLeft
    <2>3. CASE Home[m] # c
      <3>1. Home[m] \in Containers
        BY TeamsAssumption
      <3>2. sync'[Home[m]] = sync[Home[m]]
        BY <1>3, <2>3, <3>1
      <3>3. Synced(Home[m]) /\ InReach(m) /\ AtRest(m, sync[Home[m]].success)
        BY <1>1, <2>1, <3>2 DEF Synced, InReach, AtRest
      <3>4. QED
        BY <3>3 DEF SuccessInv, SuccessCovers
    <2>4. QED
      BY <2>2, <2>3
  <1>9. QED
    BY <1>5, <1>6, <1>7, <1>8 DEF SuccessInv

\* Steps of a process that runs nothing.
LEMMA SuccessCommand ==
    ASSUME OneSyncer, SuccessInv, TypeOK', NEW p \in Procs,
           \/ \E G \in SUBSET Groups : SyncCommand(p, G)
           \/ \E g \in Groups : SyncGroup(p, g)
           \/ \E c \in Containers : SkipExcluded(p, c)
           \/ GroupFails(p)
    PROVE  SuccessInv'
  <1>1. /\ UNCHANGED <<time, written, shown, rows, sync, pc, walk, page>>
        /\ pc[p] = "idle"
    BY DEF SyncCommand, SyncGroup, SkipExcluded, GroupFails, teams, database
  <1>2. page[p] = {}
    BY <1>1 DEF SuccessInv, ProcInv, PageHolds
  <1>3. ProcInv(p)'
    BY <1>1, <1>2 DEF ProcInv, RunTimes, PageHolds, RunCovers, Running
  <1>4. QED
    BY <1>1, <1>3, StepOfTheOne

LEMMA SuccessStarts ==
    ASSUME OneSyncer, SuccessInv, TypeOK', NEW p \in Procs, NEW c \in Containers,
           SyncContainer(p, c)
    PROVE  SuccessInv'
  <1> DEFINE w == [NoWalk EXCEPT !.cont = c, !.started = time]
  <1>1. /\ UNCHANGED <<time, written, shown, rows, sync, page>>
        /\ pc[p] = "idle" /\ pc' = [pc EXCEPT ![p] = "begin"]
        /\ walk' = [walk EXCEPT ![p] = w]
    BY DEF SyncContainer, teams, database
  <1>2. page[p] = {} /\ TypeOK
    BY <1>1 DEF SuccessInv, ProcInv, PageHolds
  <1>3. w.cont = c /\ w.started = time /\ w.listed = {}
    BY DEF NoWalk
  <1> HIDE DEF w
  <1>4. pc'[p] = "begin" /\ walk'[p] = w
    BY <1>1, <1>2 DEF TypeOK
  <1>5. Synced(c) => sync[c].success <= time
    BY DEF SuccessInv, SuccessPast
  <1>6. time <= time
    BY <1>2 DEF TypeOK
  <1>7. RunTimes(p)'
    BY <1>1, <1>3, <1>4, <1>5, <1>6 DEF RunTimes, Running, Synced
  <1>8. PageHolds(p)' /\ RunCovers(p)'
    BY <1>1, <1>2, <1>4 DEF PageHolds, RunCovers, Running
  <1>9. QED
    BY <1>1, <1>7, <1>8, StepOfTheOne DEF ProcInv

-----------------------------------------------------------------------------
(* The steps of a run *)

LEMMA WalkReads ==
    ASSUME NEW v \in Walk, NEW s \in Int
    PROVE  /\ [v EXCEPT !.since = s] \in Walk
           /\ [v EXCEPT !.since = s].since = s
           /\ [v EXCEPT !.since = s].cont = v.cont
           /\ [v EXCEPT !.since = s].started = v.started
           /\ [v EXCEPT !.since = s].listed = v.listed
  BY DEF Walk

LEMMA SuccessReads ==
    ASSUME OneSyncer, SuccessInv, TypeOK', NEW p \in Procs, ReadState(p)
    PROVE  SuccessInv'
  <1> DEFINE d == Since(sync[walk[p].cont], walk[p].started)
             w == [walk[p] EXCEPT !.since = d]
  <1>1. /\ UNCHANGED <<time, written, shown, rows, sync, page>>
        /\ pc[p] = "begin" /\ pc' = [pc EXCEPT ![p] = "list"]
        /\ walk' = [walk EXCEPT ![p] = w]
    BY DEF ReadState, SuccessInv, TypeOK, teams, database, command
  <1>2. TypeOK /\ RunTimes(p) /\ page[p] = {}
    BY <1>1 DEF SuccessInv, ProcInv, PageHolds
  <1>3. walk[p] \in Walk /\ walk[p].cont \in Containers
    BY <1>1, <1>2 DEF TypeOK
  <1>4. d \in Int
    BY <1>2, <1>3, TeamsAssumption DEF TypeOK, State, Walk, Since
  <1>5. /\ w.since = d /\ w.cont = walk[p].cont
        /\ w.started = walk[p].started /\ w.listed = {}
    <2>1. \A s \in Int :
             /\ [walk[p] EXCEPT !.since = s].since = s
             /\ [walk[p] EXCEPT !.since = s].cont = walk[p].cont
             /\ [walk[p] EXCEPT !.since = s].started = walk[p].started
             /\ [walk[p] EXCEPT !.since = s].listed = walk[p].listed
      BY <1>3, WalkReads
    <2>2. walk[p].listed = {}
      BY <1>1, <1>2 DEF RunTimes
    <2> HIDE DEF d
    <2>3. QED
      BY <1>4, <2>1, <2>2
  <1>6. d = Since(sync[w.cont], w.started)
    BY <1>5
  <1> HIDE DEF w, d
  <1>7. pc'[p] = "list" /\ walk'[p] = w /\ page'[p] = {} /\ sync' = sync /\ time' = time
    BY <1>1, <1>2 DEF TypeOK
  <1>8. /\ w.started <= time
        /\ Synced(w.cont) => sync[w.cont].success <= w.started
    BY <1>1, <1>2, <1>5 DEF RunTimes
  <1>9. RunTimes(p)'
    BY <1>5, <1>6, <1>7, <1>8 DEF RunTimes, Running, Synced
  <1>10. PageHolds(p)'
    BY <1>7 DEF PageHolds
  <1>11. RunCovers(p)'
    BY <1>5, <1>7 DEF RunCovers, PagesLeft, Ahead
  <1>12. QED
    BY <1>1, <1>9, <1>10, <1>11, StepOfTheOne DEF ProcInv

\* Why the overlap is long enough.  A message that the run wants and that is not
\* stored is in a thread with a message that changed after the lower bound: the last
\* success did not vouch for the thread, and what it missed changed less than Lag
\* before it.
LEMMA ThreadReachesSince ==
    ASSUME SuccessInv, NEW p \in Procs, Running(p),
           NEW m \in Messages, Wanted(m, walk[p]), rows[m] # written[m]
    PROVE  /\ \E x \in Thread(Root[m]) : shown[x] > walk[p].since
           /\ \A x \in Messages : Root[x] = Root[m] => shown[x] = written[x]
           /\ m \in Thread(Root[m])
           /\ Root[m] \in Threads(walk[p].cont)
  <1> DEFINE w == walk[p]
             st == sync[walk[p].cont]
  <1>1. TypeOK /\ GraphInv /\ RunTimes(p)
    BY DEF SuccessInv, ProcInv
  <1>2. w \in Walk /\ w.cont \in Containers /\ w.started \in Int /\ w.started <= time
    BY <1>1 DEF TypeOK, Walk, RunTimes, Running
  <1>3. st \in State /\ w.since = Since(st, w.started)
    BY <1>1, <1>2 DEF TypeOK, RunTimes
  <1>4. Home[m] = w.cont /\ AtRest(m, w.started)
    BY DEF Wanted
  <1>5. \A x \in Messages : Root[x] = Root[m] => shown[x] = written[x]
    BY <1>1, <1>2, <1>4, RestShows
  <1>6. written[m] > 0 /\ written[Root[m]] > 0 /\ Root[m] \in Messages
        /\ Root[Root[m]] = Root[m] /\ Home[Root[m]] = Home[m]
    <2>1. Root[m] \in Messages /\ Root[Root[m]] = Root[m] /\ Home[Root[m]] = Home[m]
      BY TeamsAssumption
    <2>2. written[m] > 0
      BY <1>1 DEF TypeOK, GraphInv
    <2>3. QED
      BY <1>1, <2>1, <2>2 DEF GraphInv
  <1>7. m \in Thread(Root[m]) /\ Root[m] \in Threads(w.cont)
    BY <1>4, <1>5, <1>6 DEF Thread, Threads
  <1>8. \E x \in Thread(Root[m]) : shown[x] > w.since
    <2>1. CASE ~Synced(w.cont)
      <3>1. written[m] > w.started - Lookback
        BY <2>1 DEF Wanted
      <3>2. w.since = w.started - Lookback
        BY <1>3, <2>1 DEF Since, Synced
      <3>3. QED
        BY <1>5, <1>7, <3>1, <3>2
    <2>2. CASE Synced(w.cont)
      <3>1. InReach(m)
        BY <2>2 DEF Wanted
      <3>2. ~AtRest(m, st.success)
        BY <1>4, <2>2, <3>1 DEF SuccessInv, SuccessCovers
      <3>3. PICK x \in Messages : Root[x] = Root[m] /\ ~(written[x] + Lag < st.success)
        BY <3>2 DEF AtRest
      <3>4. w.since = st.success - Overlap /\ st.success \in Int
        BY <1>3, <2>2 DEF Since, Synced, State
      <3>5. written[x] \in Nat /\ written[m] \in Nat
        BY <1>1 DEF TypeOK
      <3>6. written[x] > w.since
        <4>1. Lag \in Nat /\ Overlap \in Nat /\ Hold \in Nat /\ Lag + Hold < Overlap
          BY TeamsAssumption
        <4>2. QED
          BY <3>3, <3>4, <3>5, <4>1
      <3>7. CASE written[x] > 0
        BY <1>5, <3>3, <3>6, <3>7 DEF Thread
      <3>8. CASE ~(written[x] > 0)
        <4>1. w.since \in Int
          BY <1>2 DEF Walk
        <4>2. written[m] > w.since
          BY <1>6, <3>5, <3>6, <3>8, <4>1
        <4>3. QED
          BY <1>5, <1>7, <4>2
      <3>9. QED
        BY <3>7, <3>8
    <2>3. QED
      BY <2>1, <2>2
  <1>9. QED
    BY <1>5, <1>7, <1>8

\* The parts of the invariant, for a run that goes on from w to v while Graph and
\* the sync states stay.
LEMMA EntrySame ==
    ASSUME NEW e, NEW w, UNCHANGED <<written, shown>>
    PROVE  EntryHolds(e, w)' <=> EntryHolds(e, w)
  BY DEF EntryHolds, AtRest, Times, Thread

LEMMA WantedSame ==
    ASSUME NEW m, NEW w, NEW v, UNCHANGED <<written, sync>>,
           v.cont = w.cont, v.started = w.started
    PROVE  Wanted(m, v)' <=> Wanted(m, w)
  BY DEF Wanted, AtRest, Synced, InReach

LEMMA AheadSame ==
    ASSUME NEW m, NEW w, UNCHANGED shown
    PROVE  Ahead(m, w)' <=> Ahead(m, w)
  BY DEF Ahead, Times, Thread, NotBefore

LEMMA TimesSame ==
    ASSUME OneSyncer, SuccessInv, NEW p \in Procs, pc[p] # "idle",
           NEW v, walk'[p] = v, v.cont = walk[p].cont, v.started = walk[p].started,
           v.since = walk[p].since, Running(p), pc'[p] # "begin",
           UNCHANGED <<time, sync>>
    PROVE  RunTimes(p)'
  BY DEF SuccessInv, ProcInv, RunTimes, Running, Synced

\* What is still ahead of a run, and wanted, is on the list.
LEMMA AheadIsCandidate ==
    ASSUME SuccessInv, NEW p \in Procs, Running(p),
           NEW m \in Messages, Wanted(m, walk[p]), rows[m] # written[m],
           Ahead(m, walk[p])
    PROVE  Root[m] \in Candidates(walk[p].cont, walk[p])
  <1> DEFINE r == Root[m]
  <1>1. r \in Threads(walk[p].cont) /\ m \in Thread(r)
    BY ThreadReachesSince
  <1>2. PICK x \in Thread(r) : shown[x] > walk[p].since
    BY ThreadReachesSince
  <1>3. walk[p].cont \in Chats => shown[r] > walk[p].since
    <2>1. SUFFICES ASSUME walk[p].cont \in Chats PROVE x = r
      BY <1>2
    <2>2. Home[x] = walk[p].cont /\ Root[x] = r /\ x \in Messages
      BY <1>1, <1>2, ThreadMembers DEF Threads
    <2>3. QED
      BY <2>1, <2>2, TeamsAssumption
  <1>4. QED
    BY <1>1, <1>3 DEF Ahead, Candidates

LEMMA SuccessListEnds ==
    ASSUME OneSyncer, SuccessInv, TypeOK', NEW p \in Procs, ListEmpty(p)
    PROVE  SuccessInv'
  <1>1. /\ UNCHANGED <<time, written, shown, rows, sync, walk, page>>
        /\ pc[p] = "list" /\ pc' = [pc EXCEPT ![p] = "done"]
        /\ Candidates(walk[p].cont, walk[p]) = {}
    BY DEF ListEmpty, teams, database, command
  <1>2. TypeOK /\ Running(p) /\ RunCovers(p) /\ page[p] = {}
    BY <1>1 DEF SuccessInv, ProcInv, PageHolds, Running
  <1>3. pc'[p] = "done" /\ walk'[p] = walk[p] /\ page'[p] = {}
    BY <1>1, <1>2 DEF TypeOK
  <1>4. RunTimes(p)'
    BY <1>1, <1>2, <1>3, TimesSame
  <1>5. PageHolds(p)'
    BY <1>3 DEF PageHolds
  <1>6. \A m \in Messages : Wanted(m, walk[p]) => rows[m] = written[m]
    BY <1>1, <1>2, AheadIsCandidate DEF RunCovers, Fetched
  <1>7. RunCovers(p)'
    BY <1>1, <1>6 DEF RunCovers, Wanted, AtRest, Synced, InReach
  <1>8. QED
    BY <1>1, <1>4, <1>5, <1>7, StepOfTheOne DEF ProcInv

\* A thread as it is listed.
LEMMA EntryListed ==
    ASSUME TypeOK, GraphInv, NEW w \in Walk, w.started <= time,
           NEW r \in Threads(w.cont), r \in w.listed,
           NotBefore(Times(Thread(r)), w.lowest), NEW inline
    PROVE  /\ EntryHolds(EntryOf(r, inline), w)
           /\ \A m \in Thread(r) : Fetched(m, {EntryOf(r, inline)})
  <1> DEFINE here == {r} \cup (Thread(r) \cap inline)
             e == EntryOf(r, inline)
  <1>1. r \in Messages /\ r \in Thread(r)
    BY DEF Threads, Thread
  <1>2. here \subseteq Thread(r)
    BY <1>1
  <1>3. /\ e.root = r /\ e.msgs = {CopyOf(m) : m \in here}
        /\ e.rest = Thread(r) \ here /\ e.more = (Thread(r) # here)
        /\ e.ats = Times(here) /\ e.place = Times(Thread(r))
    BY DEF EntryOf
  <1> HIDE DEF here, e
  <1>4. \A m \in Thread(r) :
            m \in Messages /\ Root[m] = r /\ Home[m] = w.cont /\ written[m] > 0
    <2>1. \A m \in Thread(r) :
              m \in Messages /\ Root[m] = r /\ Home[m] = w.cont /\ shown[m] > 0
      BY <1>1, ThreadMembers
    <2>2. QED
      BY <2>1 DEF TypeOK, GraphInv
  <1>5. ASSUME NEW msg \in e.msgs
        PROVE  /\ Root[msg.id] = r /\ Home[msg.id] = w.cont /\ written[msg.id] > 0
               /\ AtRest(msg.id, w.started) => msg.at = written[msg.id]
    <2>1. PICK m \in Thread(r) : msg.id = m /\ msg.at = shown[m]
      BY <1>2, <1>3 DEF CopyOf
    <2>2. AtRest(m, w.started) => shown[m] = written[m]
      BY <1>4, RestShows DEF Walk
    <2>3. QED
      BY <1>4, <2>1, <2>2
  <1>6. ~e.more => e.ats = e.place
    BY <1>3
  <1>7. EntryHolds(e, w)
    BY <1>3, <1>4, <1>5, <1>6 DEF EntryHolds
  <1>8. ASSUME NEW m \in Thread(r) PROVE Fetched(m, {e})
    <2>1. CASE m \in here
      <3>1. CopyOf(m) \in e.msgs /\ CopyOf(m).id = m
        BY <1>3, <2>1 DEF CopyOf
      <3>2. QED
        BY <3>1 DEF Fetched
    <2>2. CASE m \notin here
      BY <1>3, <2>2 DEF Fetched
    <2>3. QED
      BY <2>1, <2>2
  <1>9. QED
    BY <1>7, <1>8 DEF e

LEMMA SuccessLists ==
    ASSUME OneSyncer, SuccessInv, TypeOK', NEW p \in Procs, ListPage(p)
    PROVE  SuccessInv'
  <1> DEFINE w == walk[p]
             candidates == Candidates(w.cont, w)
  <1>1. /\ UNCHANGED <<time, written, shown, rows, sync>>
        /\ pc[p] = "list" /\ pc' = [pc EXCEPT ![p] = "apply"]
    BY DEF ListPage, teams, database, command
  <1>2. TypeOK /\ GraphInv /\ Running(p) /\ RunTimes(p) /\ RunCovers(p) /\ page[p] = {}
    BY <1>1 DEF SuccessInv, ProcInv, PageHolds, Running
  <1>3. w \in Walk /\ w.cont \in Containers /\ w.started <= time
    BY <1>1, <1>2 DEF TypeOK, RunTimes
  <1>4. PICK S \in SUBSET candidates, last \in candidates :
            /\ last \in S
            /\ \A r \in S : NotBefore(Times(Thread(r)), Times(Thread(last)))
            /\ \A r \in candidates \ S :
                  NotBefore(Times(Thread(last)), Times(Thread(r)))
            /\ \E inline \in SUBSET (UNION {Thread(r) \ {r} : r \in S}) :
                 page' = [page EXCEPT ![p] = {EntryOf(r, inline) : r \in S}]
            /\ walk' = [walk EXCEPT ![p].listed = @ \cup S,
                                    ![p].lowest = Times(Thread(last)),
                                    ![p].final = (S = candidates),
                                    ![p].held = time]
    BY Zenon DEF ListPage
  <1>5. PICK inline \in SUBSET (UNION {Thread(r) \ {r} : r \in S}) :
            page' = [page EXCEPT ![p] = {EntryOf(r, inline) : r \in S}]
    BY <1>4
  <1>6. PICK v : v = walk'[p]
    OBVIOUS
  <1>7. /\ v.cont = w.cont /\ v.started = w.started /\ v.since = w.since
        /\ v.listed = w.listed \cup S /\ v.lowest = Times(Thread(last))
        /\ v.final <=> S = candidates
    <2> DEFINE end == (S = candidates)
    <2>1. v = [w EXCEPT !.listed = @ \cup S, !.lowest = Times(Thread(last)),
                        !.final = end, !.held = time]
      BY <1>2, <1>4, <1>6 DEF TypeOK
    <2> HIDE DEF end
    <2>2. v.final = end /\ v.cont = w.cont /\ v.started = w.started /\ v.since = w.since
          /\ v.listed = w.listed \cup S /\ v.lowest = Times(Thread(last))
      BY <1>3, <2>1 DEF Walk
    <2>3. QED
      BY <2>2 DEF end
  <1>8. pc'[p] = "apply" /\ walk'[p] = v /\ page'[p] = {EntryOf(r, inline) : r \in S}
    BY <1>1, <1>2, <1>5, <1>6 DEF TypeOK
  <1>9. v \in Walk
    BY <1>8 DEF TypeOK
  <1>10. RunTimes(p)'
    BY <1>1, <1>2, <1>7, <1>8, TimesSame
  <1>11. \A r \in S :
             /\ EntryHolds(EntryOf(r, inline), v)
             /\ \A m \in Thread(r) : Fetched(m, {EntryOf(r, inline)})
    <2>1. \A r \in S : r \in Threads(v.cont) /\ r \in v.listed
      BY <1>7 DEF Candidates
    <2>2. v.started <= time
      BY <1>3, <1>7
    <2>3. QED
      BY <1>2, <1>4, <1>7, <1>9, <2>1, <2>2, EntryListed
  <1>12. PageHolds(p)'
    <2>1. ASSUME NEW e \in page'[p] PROVE EntryHolds(e, v)'
      BY <1>1, <1>8, <1>11, <2>1, EntrySame
    <2>2. QED
      BY <1>8, <2>1 DEF PageHolds, EntryHolds, AtRest
  <1>13. RunCovers(p)'
    <2>1. SUFFICES ASSUME NEW m \in Messages, Wanted(m, w), rows[m] # written[m]
                   PROVE  Fetched(m, page'[p]) \/ (~v.final /\ Ahead(m, v))
      <3>1. ASSUME NEW m \in Messages, Wanted(m, walk[p])'
            PROVE  Wanted(m, w)
        BY <1>1, <1>7, <1>8, <3>1 DEF Wanted, AtRest, Synced, InReach
      <3>2. ASSUME NEW m \in Messages, ~v.final, Ahead(m, v)
            PROVE  (PagesLeft(p) /\ Ahead(m, walk[p]))'
        BY <1>1, <1>8, <3>2 DEF PagesLeft, Ahead, Times, Thread, NotBefore
      <3>3. QED
        BY <1>1, <2>1, <3>1, <3>2 DEF RunCovers, Fetched
    <2>2. Ahead(m, w)
      BY <1>2, <2>1 DEF RunCovers, Fetched
    <2>3. Root[m] \in candidates /\ m \in Thread(Root[m])
      BY <1>2, <2>1, <2>2, AheadIsCandidate, ThreadReachesSince
    <2>4. CASE Root[m] \in S
      <3>1. Fetched(m, {EntryOf(Root[m], inline)})
        BY <1>11, <2>3, <2>4
      <3>2. QED
        BY <1>8, <2>4, <3>1 DEF Fetched
    <2>5. CASE Root[m] \notin S
      BY <1>4, <1>7, <2>2, <2>3, <2>5 DEF Ahead
    <2>6. QED
      BY <2>4, <2>5
  <1>14. QED
    BY <1>1, <1>10, <1>12, <1>13, StepOfTheOne DEF ProcInv

LEMMA SuccessUpserts ==
    ASSUME OneSyncer, SuccessInv, TypeOK', NEW p \in Procs, UpsertMessage(p)
    PROVE  SuccessInv'
  <1>1. /\ UNCHANGED <<time, written, shown, sync, pc, walk>>
        /\ pc[p] = "apply"
    BY DEF UpsertMessage, teams, command
  <1>2. TypeOK /\ GraphInv /\ Running(p) /\ RunTimes(p) /\ RunCovers(p) /\ PageHolds(p)
    BY <1>1 DEF SuccessInv, ProcInv, Running
  <1>3. PICK e \in page[p] : \E msg \in e.msgs :
            /\ rows' = [rows EXCEPT ![msg.id] = msg.at]
            /\ Replace(p, e, [e EXCEPT !.msgs = @ \ {msg}])
    BY DEF UpsertMessage
  <1>4. PICK msg \in e.msgs :
            /\ rows' = [rows EXCEPT ![msg.id] = msg.at]
            /\ Replace(p, e, [e EXCEPT !.msgs = @ \ {msg}])
    BY <1>3
  <1>5. PICK w : w = walk[p]
    OBVIOUS
  <1>6. e \in Entry /\ EntryHolds(e, w)
    BY <1>2, <1>5 DEF TypeOK, PageHolds
  <1>7. msg \in Copy /\ msg.id \in Messages /\ w \in Walk /\ w.started \in Int
        /\ w.started <= time /\ w.cont \in Containers
    BY <1>1, <1>2, <1>5, <1>6 DEF Entry, Copy, Walk, TypeOK, RunTimes
  <1> DEFINE new == [e EXCEPT !.msgs = @ \ {msg}]
  <1>8. /\ new.root = e.root /\ new.msgs = e.msgs \ {msg} /\ new.rest = e.rest
        /\ new.more = e.more /\ new.ats = e.ats /\ new.place = e.place
    BY <1>6 DEF Entry
  <1>9. page'[p] = (page[p] \ {e}) \cup {new} /\ walk'[p] = w
    BY <1>1, <1>2, <1>4, <1>5 DEF TypeOK, Replace
  <1> HIDE DEF new
  <1>10. \A m \in Messages : rows'[m] = IF m = msg.id THEN msg.at ELSE rows[m]
    BY <1>2, <1>4, <1>7 DEF TypeOK
  <1>11. /\ Home[msg.id] = w.cont /\ written[msg.id] > 0
         /\ AtRest(msg.id, w.started) => msg.at = written[msg.id]
    BY <1>6 DEF EntryHolds
  <1>12. GraphInv'
    BY <1>1, <1>2, <1>10, <1>11 DEF GraphInv
  <1>13. SuccessPast'
    BY <1>1 DEF SuccessInv, SuccessPast, Synced
  <1>14. SuccessCovers'
    <2>1. SUFFICES ASSUME NEW m \in Messages, Synced(Home[m]), InReach(m),
                          AtRest(m, sync[Home[m]].success)
                   PROVE  rows'[m] = written[m]
      BY <1>1 DEF SuccessCovers, Synced, InReach, AtRest
    <2>2. rows[m] = written[m]
      BY <2>1 DEF SuccessInv, SuccessCovers
    <2>3. CASE m = msg.id
      <3>1. sync[w.cont].success <= w.started /\ sync[w.cont].success \in Int
        BY <1>1, <1>2, <1>5, <1>7, <1>11, <2>1, <2>3 DEF RunTimes, TypeOK, State
      <3>2. AtRest(m, w.started)
        BY <1>2, <1>7, <1>11, <2>1, <2>3, <3>1, RestEarlier
      <3>3. QED
        BY <1>10, <1>11, <2>3, <3>2
    <2>4. QED
      BY <1>10, <2>2, <2>3
  <1>15. RunTimes(p)'
    BY <1>1, <1>2 DEF RunTimes, Running, Synced
  <1>16. PageHolds(p)'
    <2>1. EntryHolds(new, w)
      BY <1>6, <1>8 DEF EntryHolds
    <2>2. ASSUME NEW x \in page'[p] PROVE EntryHolds(x, w)
      BY <1>2, <1>5, <1>9, <2>1 DEF PageHolds
    <2>3. ASSUME NEW x \in page'[p] PROVE EntryHolds(x, w)'
      BY <1>1, <2>2, EntrySame
    <2>4. QED
      BY <1>1, <1>9, <2>3 DEF PageHolds, EntryHolds, AtRest
  <1>17. RunCovers(p)'
    <2>1. SUFFICES ASSUME NEW m \in Messages, Wanted(m, walk[p]), rows'[m] # written[m],
                          ~(PagesLeft(p) /\ Ahead(m, walk[p]))
                   PROVE  Fetched(m, page'[p])
      <3>1. \A m \in Messages : Wanted(m, walk[p])' => Wanted(m, walk[p])
        BY <1>1 DEF Wanted, AtRest, Synced, InReach
      <3>2. \A m \in Messages :
                PagesLeft(p) /\ Ahead(m, walk[p]) => (PagesLeft(p) /\ Ahead(m, walk[p]))'
        BY <1>1 DEF PagesLeft, Ahead, Times, Thread, NotBefore
      <3>3. QED
        BY <1>1, <2>1, <3>1, <3>2 DEF RunCovers, Fetched
    <2>2. AtRest(m, w.started)
      BY <1>5, <2>1 DEF Wanted
    <2>3. m # msg.id
      BY <1>10, <1>11, <2>1, <2>2
    <2>4. rows[m] # written[m]
      BY <1>10, <2>1, <2>3
    <2>5. PICK x \in page[p] : m \in x.rest \/ \E y \in x.msgs : y.id = m
      BY <1>2, <2>1, <2>4 DEF RunCovers, Fetched
    <2>6. CASE x = e
      BY <1>8, <1>9, <2>3, <2>5, <2>6 DEF Fetched
    <2>7. CASE x # e
      BY <1>9, <2>5, <2>7 DEF Fetched
    <2>8. QED
      BY <2>6, <2>7
  <1>18. \A q \in Procs : ProcInv(q)'
    BY <1>15, <1>16, <1>17 DEF ProcInv, OneSyncer
  <1>19. QED
    BY <1>12, <1>13, <1>14, <1>18 DEF SuccessInv

LEMMA SuccessReplies ==
    ASSUME OneSyncer, SuccessInv, TypeOK', NEW p \in Procs, RepliesPage(p)
    PROVE  SuccessInv'
  <1>1. /\ UNCHANGED <<time, written, shown, rows, sync, pc, walk>>
        /\ pc[p] = "apply"
    BY DEF RepliesPage, teams, database, command
  <1>2. TypeOK /\ GraphInv /\ Running(p) /\ RunTimes(p) /\ RunCovers(p) /\ PageHolds(p)
    BY <1>1 DEF SuccessInv, ProcInv, Running
  <1>3. PICK e \in page[p] :
            /\ e.msgs = {}
            /\ Replace(p, e, [e EXCEPT !.msgs = {CopyOf(m) : m \in e.rest}, !.rest = {}])
    BY DEF RepliesPage
  <1>4. PICK w : w = walk[p]
    OBVIOUS
  <1>5. e \in Entry /\ EntryHolds(e, w) /\ e.rest \in SUBSET Messages
    BY <1>2, <1>4 DEF TypeOK, PageHolds, Entry
  <1>6. w \in Walk /\ w.started \in Int /\ w.started <= time
    BY <1>1, <1>2, <1>4 DEF Walk, TypeOK, RunTimes
  <1> DEFINE copies == {CopyOf(m) : m \in e.rest}
             new == [e EXCEPT !.msgs = copies, !.rest = {}]
  <1>7. page'[p] = (page[p] \ {e}) \cup {new} /\ walk'[p] = w
    BY <1>1, <1>2, <1>3, <1>4 DEF TypeOK, Replace
  <1> HIDE DEF copies
  <1>8. /\ new.root = e.root /\ new.msgs = copies /\ new.rest = {}
        /\ new.more = e.more /\ new.ats = e.ats /\ new.place = e.place
    BY <1>5 DEF Entry
  <1> HIDE DEF new
  <1>9. ASSUME NEW msg \in copies
        PROVE  /\ Root[msg.id] = e.root /\ Home[msg.id] = w.cont /\ written[msg.id] > 0
               /\ AtRest(msg.id, w.started) => msg.at = written[msg.id]
    <2>1. PICK m \in e.rest : msg.id = m /\ msg.at = shown[m]
      BY DEF copies, CopyOf
    <2>2. m \in Messages
      BY <1>5, <2>1
    <2>3. AtRest(m, w.started) => shown[m] = written[m]
      BY <1>2, <1>6, <2>2, RestShows
    <2>4. QED
      BY <1>5, <2>1, <2>3 DEF EntryHolds
  <1>10. RunTimes(p)'
    BY <1>1, <1>2 DEF RunTimes, Running, Synced
  <1>11. PageHolds(p)'
    <2>1. EntryHolds(new, w)
      BY <1>5, <1>8, <1>9 DEF EntryHolds
    <2>2. ASSUME NEW x \in page'[p] PROVE EntryHolds(x, w)
      BY <1>2, <1>4, <1>7, <2>1 DEF PageHolds
    <2>3. ASSUME NEW x \in page'[p] PROVE EntryHolds(x, w)'
      BY <1>1, <2>2, EntrySame
    <2>4. QED
      BY <1>1, <1>7, <2>3 DEF PageHolds, EntryHolds, AtRest
  <1>12. RunCovers(p)'
    <2>1. SUFFICES ASSUME NEW m \in Messages, Fetched(m, page[p])
                   PROVE  Fetched(m, page'[p])
      <3>1. \A m \in Messages : Wanted(m, walk[p])' => Wanted(m, walk[p])
        BY <1>1 DEF Wanted, AtRest, Synced, InReach
      <3>2. \A m \in Messages :
                PagesLeft(p) /\ Ahead(m, walk[p]) => (PagesLeft(p) /\ Ahead(m, walk[p]))'
        BY <1>1 DEF PagesLeft, Ahead, Times, Thread, NotBefore
      <3>3. QED
        BY <1>1, <1>2, <2>1, <3>1, <3>2 DEF RunCovers, Fetched
    <2>2. PICK x \in page[p] : m \in x.rest \/ \E y \in x.msgs : y.id = m
      BY <2>1 DEF Fetched
    <2>3. CASE x = e
      <3>1. m \in e.rest
        BY <1>3, <2>2, <2>3
      <3>2. CopyOf(m) \in new.msgs /\ CopyOf(m).id = m
        BY <1>8, <3>1 DEF copies, CopyOf
      <3>3. QED
        BY <1>7, <3>2 DEF Fetched
    <2>4. CASE x # e
      BY <1>7, <2>2, <2>4 DEF Fetched
    <2>5. QED
      BY <2>3, <2>4
  <1>13. QED
    BY <1>1, <1>10, <1>11, <1>12, StepOfTheOne DEF ProcInv

\* Why the list may be left at a thread that is before the lower bound: what is
\* fetched or listed after it is no newer, and a message that the run wants is in a
\* thread that reaches the lower bound.
LEMMA NothingBehindStop ==
    ASSUME SuccessInv, NEW p \in Procs, pc[p] = "apply",
           NEW e \in page[p], Current(p, e), ThreadBefore(e, walk[p]),
           NEW m \in Messages, Wanted(m, walk[p])
    PROVE  rows[m] = written[m]
  <1>1. SUFFICES ASSUME rows[m] # written[m] PROVE FALSE
    OBVIOUS
  <1> DEFINE w == walk[p]
  <1>2. TypeOK /\ Running(p) /\ RunTimes(p) /\ RunCovers(p) /\ PageHolds(p)
    BY DEF SuccessInv, ProcInv, Running
  <1>3. w \in Walk /\ w.since \in Int /\ w.lowest \in SUBSET Nat /\ w.started \in Int
    BY <1>2 DEF TypeOK, Walk
  <1>4. e \in Entry /\ e.place \in SUBSET Nat /\ EntryHolds(e, w)
    BY <1>2 DEF TypeOK, Entry, PageHolds
  <1>5. \A a \in e.place : a < w.since
    BY <1>4 DEF ThreadBefore, EntryHolds
  <1>6. PICK x \in Thread(Root[m]) : shown[x] > w.since
    BY <1>1, <1>2, ThreadReachesSince
  <1>7. shown[x] \in Times(Thread(Root[m])) /\ shown[x] \in Nat
    BY <1>2 DEF Times, Thread, TypeOK
  <1>8. ~\E a \in e.place : shown[x] <= a
    BY <1>3, <1>4, <1>5, <1>6, <1>7
  <1>9. CASE Fetched(m, page[p])
    <2>1. PICK y \in page[p] : m \in y.rest \/ \E msg \in y.msgs : msg.id = m
      BY <1>9 DEF Fetched
    <2>2. EntryHolds(y, w) /\ NotBefore(e.place, y.place)
      BY <1>2 DEF PageHolds, Current
    <2>3. y.root = Root[m]
      BY <2>1, <2>2 DEF EntryHolds
    <2>4. AtRest(y.root, w.started)
      BY <1>3, <2>3, RestOfRoot DEF Wanted
    <2>5. y.place = Times(Thread(Root[m]))
      BY <2>2, <2>3, <2>4 DEF EntryHolds
    <2>6. QED
      BY <1>7, <1>8, <2>2, <2>5 DEF NotBefore
  <1>10. CASE Ahead(m, w)
    <2>1. w.listed # {} /\ NotBefore(e.place, w.lowest)
      BY <1>4 DEF EntryHolds
    <2>2. PICK b \in w.lowest : shown[x] <= b
      BY <1>7, <1>10, <2>1 DEF Ahead, NotBefore
    <2>3. PICK a \in e.place : b <= a
      BY <2>1, <2>2 DEF NotBefore
    <2>4. shown[x] <= a
      BY <1>3, <1>4, <1>7, <2>2, <2>3
    <2>5. QED
      BY <1>8, <2>4
  <1>11. QED
    BY <1>1, <1>2, <1>9, <1>10 DEF RunCovers

LEMMA SuccessThreadDone ==
    ASSUME OneSyncer, SuccessInv, TypeOK', NEW p \in Procs, ThreadDone(p)
    PROVE  SuccessInv'
  <1>1. /\ UNCHANGED <<time, written, shown, rows, sync, walk>>
        /\ pc[p] = "apply"
    BY DEF ThreadDone, teams, database, command
  <1>2. TypeOK /\ GraphInv /\ Running(p) /\ RunTimes(p) /\ RunCovers(p) /\ PageHolds(p)
    BY <1>1 DEF SuccessInv, ProcInv, Running
  <1>3. PICK e \in page[p] :
            /\ Current(p, e)
            /\ e.msgs = {} /\ e.rest = {}
            /\ LET stop == walk[p].cont \in Channels /\ ThreadBefore(e, walk[p]) IN
                 /\ page' = [page EXCEPT ![p] = IF stop THEN {} ELSE @ \ {e}]
                 /\ pc' = [pc EXCEPT ![p] =
                             IF stop \/ (page[p] = {e} /\ walk[p].final) THEN "done"
                             ELSE IF page[p] = {e} THEN "list" ELSE "apply"]
    BY DEF ThreadDone
  <1> DEFINE stop == walk[p].cont \in Channels /\ ThreadBefore(e, walk[p])
  <1>4. /\ page'[p] = (IF stop THEN {} ELSE page[p] \ {e})
        /\ pc'[p] = (IF stop \/ (page[p] = {e} /\ walk[p].final) THEN "done"
                     ELSE IF page[p] = {e} THEN "list" ELSE "apply")
    BY <1>2, <1>3 DEF TypeOK
  <1>5. stop => ThreadBefore(e, walk[p])
    OBVIOUS
  <1> HIDE DEF stop
  <1>6. RunTimes(p)'
    <2>1. pc'[p] # "begin" /\ walk'[p] = walk[p]
      BY <1>1, <1>4
    <2>2. PICK v : v = walk[p]
      OBVIOUS
    <2>3. QED
      BY <1>1, <1>2, <2>1, <2>2, TimesSame
  <1>7. PageHolds(p)'
    <2>1. pc'[p] # "apply" => page'[p] = {}
      BY <1>4
    <2>2. PICK w : w = walk[p] /\ w = walk'[p]
      BY <1>1
    <2>3. ASSUME NEW x \in page'[p] PROVE EntryHolds(x, w)
      BY <1>2, <1>4, <2>2 DEF PageHolds
    <2>4. ASSUME NEW x \in page'[p] PROVE EntryHolds(x, w)'
      BY <1>1, <2>3, EntrySame
    <2>5. QED
      BY <2>1, <2>2, <2>4 DEF PageHolds, EntryHolds, AtRest
  <1>8. RunCovers(p)'
    <2>1. \A m \in Messages : Wanted(m, walk[p])' => Wanted(m, walk[p])
      BY <1>1 DEF Wanted, AtRest, Synced, InReach
    <2>2. \A m \in Messages : Ahead(m, walk[p]) => Ahead(m, walk[p])'
      BY <1>1 DEF Ahead, Times, Thread, NotBefore
    <2>3. CASE stop
      <3>1. \A m \in Messages : Wanted(m, walk[p]) => rows[m] = written[m]
        BY <1>1, <1>3, <1>5, <2>3, NothingBehindStop
      <3>2. QED
        BY <1>1, <2>1, <3>1 DEF RunCovers
    <2>4. CASE ~stop
      <3>1. \A m \in Messages : Fetched(m, page[p]) => Fetched(m, page'[p])
        BY <1>3, <1>4, <2>4 DEF Fetched
      <3>2. \A m \in Messages :
                Fetched(m, page[p]) => ~(page[p] = {e})
        BY <1>3 DEF Fetched
      <3>3. ASSUME NEW m \in Messages, Wanted(m, walk[p]), rows[m] # written[m],
                   ~Fetched(m, page'[p])
            PROVE  PagesLeft(p)' /\ Ahead(m, walk[p])
        <4>1. ~walk[p].final /\ Ahead(m, walk[p])
          BY <1>1, <1>2, <3>1, <3>3 DEF RunCovers, PagesLeft
        <4>2. PagesLeft(p)'
          BY <1>1, <1>4, <2>4, <4>1 DEF PagesLeft
        <4>3. QED
          BY <4>1, <4>2
      <3>4. QED
        BY <1>1, <2>1, <2>2, <3>3 DEF RunCovers, Fetched
    <2>5. QED
      BY <2>3, <2>4
  <1>9. QED
    BY <1>1, <1>6, <1>7, <1>8, StepOfTheOne DEF ProcInv

-----------------------------------------------------------------------------
(* Success times vouch for the rows *)

LEMMA SuccessInit == ASSUME Init PROVE SuccessInv
  <1>1. TypeOK
    BY TypeInit
  <1>2. GraphInv
    BY TeamsAssumption DEF Init, GraphInv
  <1>3. \A c \in Containers : ~Synced(c)
    BY DEF Init, Synced, NoState
  <1>4. SuccessPast /\ SuccessCovers
    BY <1>3, TeamsAssumption DEF SuccessPast, SuccessCovers
  <1>5. \A p \in Procs : ProcInv(p)
    BY DEF Init, ProcInv, RunTimes, PageHolds, RunCovers, Running
  <1>6. QED
    BY <1>1, <1>2, <1>4, <1>5 DEF SuccessInv

LEMMA SuccessNext ==
    ASSUME OneSyncer, NoLostBody, SuccessInv, [Next]_vars PROVE SuccessInv'
  <1>1. TypeOK'
    BY TypeNext DEF SuccessInv
  <1>2. CASE UNCHANGED vars
    <2>1. UNCHANGED <<time, written, shown, rows, sync, pc, walk, page>>
      BY <1>2 DEF vars, teams, database
    <2>2. GraphInv' /\ SuccessPast' /\ SuccessCovers'
      BY <1>1, <2>1, DatabaseStays DEF Synced
    <2>3. ASSUME NEW p \in Procs PROVE ProcInv(p)'
      BY <2>1 DEF SuccessInv, ProcInv, RunTimes, PageHolds, RunCovers, Running, Synced,
                  EntryHolds, AtRest, Times, Thread, Wanted, InReach, Fetched, PagesLeft,
                  Ahead, NotBefore
    <2>4. QED
      BY <1>1, <2>2, <2>3 DEF SuccessInv
  <1>3. CASE Service
    BY <1>3, SuccessService
  <1>4. ASSUME NEW p \in Procs, Work(p) PROVE SuccessInv'
    <2>1. ASSUME NEW g \in Groups, SyncGroup(p, g) PROVE SuccessInv'
      BY <1>1, <2>1, SuccessCommand
    <2>2. ASSUME NEW c \in Containers, SkipExcluded(p, c) PROVE SuccessInv'
      BY <1>1, <2>2, SuccessCommand
    <2>3. ASSUME NEW c \in Containers, SyncContainer(p, c) PROVE SuccessInv'
      BY <1>1, <2>3, SuccessStarts
    <2>4. CASE ReadState(p)
      BY <1>1, <2>4, SuccessReads
    <2>5. CASE StateUnreadable(p)
      BY <1>1, <2>5, SuccessFailure
    <2>6. CASE ListPage(p)
      BY <1>1, <2>6, SuccessLists
    <2>7. CASE ListEmpty(p)
      BY <1>1, <2>7, SuccessListEnds
    <2>8. CASE UpsertMessage(p)
      BY <1>1, <2>8, SuccessUpserts
    <2>9. CASE RepliesPage(p)
      BY <1>1, <2>9, SuccessReplies
    <2>10. CASE ThreadDone(p)
      BY <1>1, <2>10, SuccessThreadDone
    <2>11. CASE RecordSyncSuccess(p)
      BY <1>1, <2>11, SuccessRecorded
    <2>12. CASE FetchReturns(p)
      BY <2>12 DEF FetchReturns, OneSyncer
    <2>13. QED
      BY <1>4, <2>1, <2>2, <2>3, <2>4, <2>5, <2>6, <2>7, <2>8, <2>9, <2>10, <2>11, <2>12
      DEF Work
  <1>5. ASSUME NEW p \in Procs, Failure(p) PROVE SuccessInv'
    <2>1. CASE GroupFails(p)
      BY <1>1, <2>1, SuccessCommand
    <2>2. CASE StateFails(p) \/ RunFails(p) \/ ExcludeChat(p) \/ Crash(p)
      BY <1>1, <2>2, SuccessFailure
    <2>3. CASE ListEmptyBody(p) \/ RepliesEmptyBody(p)
      BY <2>3 DEF ListEmptyBody, RepliesEmptyBody, Disturb, NoLostBody
    <2>4. CASE FetchFails(p)
      BY <2>4 DEF FetchFails, OneSyncer
    <2>5. QED
      BY <1>5, <2>1, <2>2, <2>3, <2>4 DEF Failure
  <1>6. ASSUME NEW p \in Procs, Operator(p) PROVE SuccessInv'
    <2>1. ASSUME NEW G \in {Groups} \cup {{g} : g \in Groups}, SyncCommand(p, G)
          PROVE  SuccessInv'
      BY <1>1, <2>1, SuccessCommand
    <2>2. ASSUME NEW m \in Messages, FetchURL(p, m) PROVE SuccessInv'
      BY <2>2 DEF FetchURL, OneSyncer
    <2>3. QED
      BY <1>6, <2>1, <2>2 DEF Operator
  <1>7. QED
    BY <1>2, <1>3, <1>4, <1>5, <1>6 DEF Next

\* A success time vouches for the rows: with one sync process and no answer that
\* loses its body, once a run of syncResource has succeeded, every message within
\* its reach whose thread was at rest when the run began is stored as it was last
\* written, whatever errors, crashes and exclusions came before.
THEOREM SuccessVouches ==
    ASSUME OneSyncer, NoLostBody
    PROVE  Spec => []SuccessCovers
  <1>1. Init => SuccessInv
    BY SuccessInit
  <1>2. SuccessInv /\ [Next]_vars => SuccessInv'
    BY SuccessNext
  <1>3. SuccessInv => SuccessCovers
    BY DEF SuccessInv
  <1>4. QED
    BY <1>1, <1>2, <1>3, PTL DEF Spec
=============================================================================
