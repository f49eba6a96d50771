-------------------------- MODULE TeamsOverlapProofs --------------------------
(***************************************************************************)
(* What the overlap heals, proved: with any number of processes that sync  *)
(* or fetch, stale copies that a slower process stored are gone from what  *)
(* is older than the overlap.  It takes that no run is so long that the    *)
(* lookback of a first run begun after it no longer reaches its beginning. *)
(***************************************************************************)
EXTENDS TeamsSuccessProofs

\* No run lasts longer than the lookback is longer than the overlap.
RunsShort ==
    \A p \in Syncers : pc[p] # "idle" => time + Overlap <= walk[p].started + Lookback

-----------------------------------------------------------------------------
(* The inductive invariant *)

\* A copy in memory is younger than Hold, and a stale one was fetched at most Lag
\* after the change it does not have.
FreshCopies(p) ==
    /\ page[p] # {} =>
          pc[p] = "apply" /\ walk[p].held <= time /\ time <= walk[p].held + Hold
    /\ \A e \in page[p] :
          /\ \A m \in e.rest : written[m] > 0
          /\ \A msg \in e.msgs :
                /\ written[msg.id] > 0
                /\ msg.at # written[msg.id] => walk[p].held <= written[msg.id] + Lag

OverlapTimes(p) ==
    /\ pc[p] # "idle" => walk[p].started <= time
    /\ pc[p] = "begin" => walk[p].listed = {}
    /\ Running(p) => walk[p].since + Overlap <= time
    /\ Running(p) /\ ~Synced(walk[p].cont) =>
          walk[p].since = walk[p].started - Lookback

\* The thread of m changed after d.
Reaches(m, d) == \E x \in Messages : Root[x] = Root[m] /\ written[x] > d

\* What the run itself has to bring: old enough, and in a thread it lists.
Owed(m, w) ==
    /\ Home[m] = w.cont
    /\ AtRest(m, w.started)
    /\ written[m] <= w.started - Overlap
    /\ Reaches(m, w.since)

RunOwes(p) ==
    Running(p) =>
        \A m \in Messages : Owed(m, walk[p]) =>
            \/ rows[m] = written[m]
            \/ Fetched(m, page[p])
            \/ PagesLeft(p) /\ Ahead(m, walk[p])

\* What the run leaves to the runs before it is stored.
Behind(p) ==
    Running(p) =>
        \A m \in Messages :
            /\ Home[m] = walk[p].cont
            /\ Synced(walk[p].cont) /\ InReach(m)
            /\ ~Reaches(m, walk[p].since)
            => rows[m] = written[m]

OverlapRun(p) == OverlapTimes(p) /\ PageHolds(p) /\ RunOwes(p) /\ Behind(p)

OverlapInv ==
    /\ TypeOK
    /\ GraphInv
    /\ SuccessPast
    /\ OverlapHeals
    /\ \A p \in Procs : FreshCopies(p)
    /\ \A p \in Syncers : OverlapRun(p)

-----------------------------------------------------------------------------
(* Time *)

LEMMA OverlapIsLonger ==
    /\ Lag \in Nat /\ Hold \in Nat /\ Overlap \in Nat /\ Lookback \in Nat
    /\ Lag < Overlap /\ 0 < Overlap /\ Lag + Hold < Overlap
  BY TeamsAssumption

\* A stale copy is stored only while its message is younger than the overlap.
LEMMA StaleIsYoung ==
    ASSUME OverlapInv, NEW p \in Procs, NEW e \in page[p], NEW msg \in e.msgs
    PROVE  /\ msg.id \in Messages /\ msg.at \in Nat /\ written[msg.id] > 0
           /\ msg.at = written[msg.id] \/ time < written[msg.id] + Overlap
  <1>1. TypeOK /\ FreshCopies(p)
    BY DEF OverlapInv
  <1>2. e \in Entry /\ walk[p] \in Walk
    BY <1>1 DEF TypeOK
  <1>3. msg \in Copy /\ walk[p].held \in Int
    BY <1>2 DEF Entry, Walk
  <1>4. msg.id \in Messages /\ msg.at \in Nat
    BY <1>3 DEF Copy
  <1>5. time \in Nat /\ written[msg.id] \in Nat
    BY <1>1, <1>4 DEF TypeOK
  <1>6. /\ time <= walk[p].held + Hold /\ written[msg.id] > 0
        /\ msg.at # written[msg.id] => walk[p].held <= written[msg.id] + Lag
    BY <1>1 DEF FreshCopies
  <1>7. QED
    BY <1>3, <1>4, <1>5, <1>6, OverlapIsLonger

LEMMA FreshAges ==
    ASSUME TypeOK, GraphInv, Service, NEW p \in Procs, FreshCopies(p)
    PROVE  FreshCopies(p)'
  <1>1. walk[p] \in Walk /\ page[p] \in SUBSET Entry
    BY DEF TypeOK
  <1>2. walk[p].held \in Int /\ time \in Nat /\ Hold \in Nat /\ Lag \in Nat
    BY <1>1, OverlapIsLonger DEF TypeOK, Walk
  <1>3. \A e \in page[p] : e.rest \in SUBSET Messages
    BY <1>1 DEF Entry
  <1>4. \A e \in page[p] : \A msg \in e.msgs : msg.id \in Messages
    BY <1>1 DEF Entry, Copy
  <1>5. CASE Tick
    <2>1. /\ page' = page /\ pc' = pc /\ walk' = walk /\ written' = written
          /\ time' = time + 1
          /\ page[p] # {} => time < walk[p].held + Hold
      BY <1>5 DEF Tick, database
    <2>2. page[p] # {} => walk[p].held <= time' /\ time' <= walk[p].held + Hold
      BY <1>2, <2>1 DEF FreshCopies
    <2>3. QED
      BY <2>1, <2>2 DEF FreshCopies
  <1>6. ASSUME NEW m \in Messages, Write(m) PROVE FreshCopies(p)'
    <2>1. /\ page' = page /\ pc' = pc /\ walk' = walk /\ time' = time
          /\ \A x \in Messages : written'[x] = IF x = m THEN time ELSE written[x]
      BY <1>6 DEF Write, database, TypeOK
    <2>2. time > 0
      BY <1>2 DEF GraphInv
    <2>3. ASSUME NEW e \in page[p], NEW x \in e.rest PROVE written'[x] > 0
      BY <1>3, <2>1, <2>2 DEF FreshCopies
    <2>4. ASSUME NEW e \in page[p], NEW msg \in e.msgs
          PROVE  /\ written'[msg.id] > 0
                 /\ msg.at # written'[msg.id] => walk[p].held <= written'[msg.id] + Lag
      <3>1. msg.id \in Messages /\ walk[p].held <= time
        BY <1>4 DEF FreshCopies
      <3>2. CASE msg.id = m
        BY <1>2, <2>1, <2>2, <3>1, <3>2
      <3>3. CASE msg.id # m
        BY <2>1, <3>1, <3>3 DEF FreshCopies
      <3>4. QED
        BY <3>2, <3>3
    <2>5. QED
      BY <2>1, <2>3, <2>4 DEF FreshCopies
  <1>7. ASSUME NEW m \in Messages, Show(m) PROVE FreshCopies(p)'
    BY <1>7 DEF Show, database, FreshCopies
  <1>8. QED
    BY <1>5, <1>6, <1>7 DEF Service

\* What a run has to bring, and what it leaves to others, does not change.
LEMMA OwesAges ==
    ASSUME TypeOK, TypeOK', GraphInv, GraphInv', time <= time',
           \A x \in Messages : written'[x] = written[x] \/ written'[x] >= time,
           UNCHANGED <<rows, sync, pc, walk, page>>,
           NEW p \in Procs, OverlapTimes(p), RunOwes(p)
    PROVE  RunOwes(p)'
  <1> DEFINE w == walk[p]
  <1>1. SUFFICES ASSUME Running(p), NEW m \in Messages, Owed(m, w)'
                 PROVE  \/ rows[m] = written'[m]
                        \/ Fetched(m, page[p])
                        \/ PagesLeft(p) /\ Ahead(m, w)'
    BY DEF RunOwes, Running, PagesLeft, Fetched
  <1>2. w \in Walk /\ w.started \in Int /\ w.started <= time
    BY <1>1 DEF TypeOK, Walk, OverlapTimes, Running
  <1>3. w' = w /\ AtRest(m, w.started)' /\ Home[m] = w.cont
    BY <1>1 DEF Owed
  <1>4. /\ AtRest(m, w.started)
        /\ \A x \in Messages : Root[x] = Root[m] =>
              written'[x] = written[x] /\ shown'[x] = shown[x]
    BY <1>2, <1>3, RestStable
  <1>5. written'[m] = written[m]
    BY <1>4
  <1>6. Owed(m, w)
    BY <1>1, <1>3, <1>4, <1>5 DEF Owed, Reaches
  <1>7. Times(Thread(Root[m]))' = Times(Thread(Root[m]))
    BY <1>4, RestOfRoot, ThreadStable, TeamsAssumption
  <1>8. Ahead(m, w) => Ahead(m, w)'
    BY <1>3, <1>7 DEF Ahead, NotBefore
  <1>9. QED
    BY <1>1, <1>5, <1>6, <1>8 DEF RunOwes

LEMMA BehindAges ==
    ASSUME TypeOK, TypeOK', time <= time',
           \A x \in Messages : written'[x] = written[x] \/ written'[x] >= time,
           UNCHANGED <<rows, sync, pc, walk, page>>,
           NEW p \in Procs, OverlapTimes(p), Behind(p)
    PROVE  Behind(p)'
  <1> DEFINE d == walk[p].since
  <1>1. SUFFICES ASSUME Running(p), NEW m \in Messages, Home[m] = walk[p].cont,
                        Synced(walk[p].cont), InReach(m)', ~Reaches(m, d)'
                 PROVE  rows[m] = written'[m]
    BY DEF Behind, Running, Synced
  <1>2. d \in Int /\ d + Overlap <= time /\ d' = d
    BY <1>1 DEF OverlapTimes, TypeOK, Walk
  <1>3. \A x \in Messages : Root[x] = Root[m] => ~(written'[x] > d)
    BY <1>1, <1>2 DEF Reaches
  <1>4. \A x \in Messages : Root[x] = Root[m] => written'[x] = written[x]
    <2>1. ASSUME NEW x \in Messages, Root[x] = Root[m] PROVE written'[x] = written[x]
      <3>1. written'[x] \in Nat /\ time \in Nat
        BY DEF TypeOK
      <3>2. ~(written'[x] > d)
        BY <1>3, <2>1
      <3>3. ~(written'[x] >= time)
        BY <1>2, <3>1, <3>2, OverlapIsLonger
      <3>4. QED
        BY <3>3
    <2>2. QED
      BY <2>1
  <1>5. ~Reaches(m, d) /\ InReach(m)
    BY <1>1, <1>3, <1>4 DEF Reaches, InReach
  <1>6. QED
    BY <1>1, <1>4, <1>5 DEF Behind

LEMMA OverlapService ==
    ASSUME OverlapInv, Service PROVE OverlapInv'
  <1>1. TypeOK /\ TypeOK' /\ GraphInv /\ GraphInv'
    BY TypeService, GraphKept DEF OverlapInv
  <1>2. /\ time <= time'
        /\ \A x \in Messages : written'[x] = written[x] \/ written'[x] >= time
        /\ UNCHANGED <<rows, sync, pc, walk, page>>
    BY <1>1, GraphAges
  <1>3. SuccessPast'
    BY <1>1, <1>2 DEF OverlapInv, SuccessPast, Synced, TypeOK, State
  <1>4. OverlapHeals'
    <2>1. SUFFICES ASSUME NEW m \in Messages, Synced(Home[m])', InReach(m)',
                          written'[m] <= sync[Home[m]].success - Overlap,
                          AtRest(m, sync[Home[m]].success)'
                   PROVE  rows[m] = written'[m]
      BY <1>2 DEF OverlapHeals
    <2> DEFINE s == sync[Home[m]].success
    <2>2. s \in Int /\ s <= time /\ s' = s
      BY <1>1, <1>2, <2>1, TeamsAssumption DEF OverlapInv, SuccessPast, Synced, TypeOK, State
    <2>3. AtRest(m, s)' /\ written'[m] <= s - Overlap
      BY <2>1
    <2> HIDE DEF s
    <2>4. AtRest(m, s) /\ written'[m] = written[m]
      <3>1. \A t \in Int : t <= time /\ AtRest(m, t)' =>
               AtRest(m, t) /\ written'[m] = written[m]
        BY <1>1, <1>2, RestStable
      <3>2. QED
        BY <2>2, <2>3, <3>1 DEF AtRest
    <2>5. Synced(Home[m]) /\ InReach(m)
      BY <1>2, <2>1, <2>4 DEF Synced, InReach
    <2>6. rows[m] = written[m]
      BY <2>3, <2>4, <2>5 DEF s, OverlapInv, OverlapHeals
    <2>7. QED
      BY <2>4, <2>6
  <1>5. ASSUME NEW p \in Procs PROVE FreshCopies(p)'
    BY <1>1, FreshAges DEF OverlapInv
  <1>6. ASSUME NEW p \in Syncers PROVE OverlapRun(p)'
    <2>1. OverlapTimes(p) /\ PageHolds(p) /\ RunOwes(p) /\ Behind(p) /\ p \in Procs
      BY DEF OverlapInv, OverlapRun, Procs
    <2>2. walk[p] \in Walk
      BY <1>1, <2>1 DEF TypeOK
    <2>3. walk[p].started \in Int /\ walk[p].since + Overlap \in Int
          /\ time \in Int /\ time' \in Int
      BY <1>1, <2>2, OverlapIsLonger DEF Walk, TypeOK
    <2>4. OverlapTimes(p)'
      <3>1. /\ pc[p] # "idle" => walk[p].started <= time'
            /\ Running(p) => walk[p].since + Overlap <= time'
        BY <1>2, <2>1, <2>3 DEF OverlapTimes
      <3>2. QED
        BY <1>2, <2>1, <3>1 DEF OverlapTimes, Running, Synced
    <2>5. PageHolds(p)'
      <3>1. PICK v \in Walk : v = walk[p] /\ v = walk'[p]
        BY <1>2, <2>2
      <3>2. ASSUME NEW e \in page[p] PROVE EntryHolds(e, v)'
        <4>1. e \in Entry /\ pc[p] # "idle"
          BY <1>1, <2>1 DEF TypeOK, PageHolds
        <4>2. v.started <= time /\ EntryHolds(e, v)
          BY <2>1, <3>1, <4>1 DEF OverlapTimes, PageHolds
        <4>3. QED
          BY <1>1, <1>2, <4>1, <4>2, EntryAges
      <3>3. QED
        BY <1>2, <2>1, <3>1, <3>2 DEF PageHolds, EntryHolds, AtRest
    <2>6. RunOwes(p)' /\ Behind(p)'
      BY <1>1, <1>2, <2>1, OwesAges, BehindAges
    <2>7. QED
      BY <2>4, <2>5, <2>6 DEF OverlapRun
  <1>7. QED
    BY <1>1, <1>3, <1>4, <1>5, <1>6 DEF OverlapInv

-----------------------------------------------------------------------------
(* Steps that leave Graph alone *)

\* What a step may do to a row: store the change itself, or a copy of a message that
\* is younger than the overlap.
StoresFresh(m) ==
    \/ rows'[m] = rows[m]
    \/ /\ written[m] > 0
       /\ rows'[m] = written[m] \/ time < written[m] + Overlap

\* A state of a container that vouches for as much as before.
SameSuccess(c) ==
    /\ Synced(c)' = Synced(c)
    /\ sync'[c].success = sync[c].success
    /\ sync'[c].full = sync[c].full

LEMMA OverlapDatabase ==
    ASSUME OverlapInv, TypeOK', UNCHANGED <<time, written, shown>>,
           \A m \in Messages : StoresFresh(m),
           \A c \in Containers : SameSuccess(c)
    PROVE  GraphInv' /\ SuccessPast' /\ OverlapHeals'
  <1>1. GraphInv'
    BY DEF OverlapInv, GraphInv, StoresFresh
  <1>2. SuccessPast'
    BY DEF OverlapInv, SuccessPast, SameSuccess
  <1>3. OverlapHeals'
    <2>1. SUFFICES ASSUME NEW m \in Messages, Synced(Home[m])', InReach(m)',
                          written[m] <= sync'[Home[m]].success - Overlap,
                          AtRest(m, sync[Home[m]].success)'
                   PROVE  rows'[m] = written[m]
      BY TeamsAssumption DEF OverlapHeals, AtRest
    <2>2. Home[m] \in Containers
      BY TeamsAssumption
    <2>3. /\ Synced(Home[m]) /\ InReach(m)
          /\ written[m] <= sync[Home[m]].success - Overlap
          /\ AtRest(m, sync[Home[m]].success)
      BY <2>1, <2>2 DEF SameSuccess, InReach, AtRest
    <2>4. rows[m] = written[m]
      BY <2>3 DEF OverlapInv, OverlapHeals
    <2>5. ~(time < written[m] + Overlap)
      <3>1. sync[Home[m]].success <= time
        BY <2>2, <2>3 DEF OverlapInv, SuccessPast
      <3>2. sync[Home[m]].success \in Int /\ written[m] \in Int /\ time \in Int
        BY <2>2 DEF OverlapInv, TypeOK, State
      <3>3. QED
        BY <2>3, <3>1, <3>2, OverlapIsLonger
    <2>6. QED
      BY <2>4, <2>5 DEF StoresFresh
  <1>4. QED
    BY <1>1, <1>2, <1>3

\* What a run leaves to the runs before it stays stored.
LEMMA BehindKept ==
    ASSUME OverlapInv, TypeOK', UNCHANGED <<time, written, shown>>,
           \A m \in Messages : StoresFresh(m),
           \A c \in Containers : SameSuccess(c),
           NEW q \in Syncers, Running(q),
           walk'[q].cont = walk[q].cont, walk'[q].since = walk[q].since
    PROVE  Behind(q)'
  <1>1. SUFFICES ASSUME NEW m \in Messages, Home[m] = walk[q].cont,
                        Synced(walk[q].cont)', InReach(m)',
                        ~Reaches(m, walk[q].since)'
                 PROVE  rows'[m] = written[m]
    BY DEF Behind, Synced, Reaches
  <1>2. q \in Procs /\ TypeOK /\ OverlapTimes(q) /\ Behind(q)
    BY DEF Procs, OverlapInv, OverlapRun
  <1>3. walk[q].cont \in Containers /\ walk[q].since \in Int
    BY <1>2 DEF TypeOK, Walk, Running
  <1>4. Synced(walk[q].cont) /\ InReach(m)
    BY <1>1, <1>3 DEF SameSuccess, InReach
  <1>5. ~Reaches(m, walk[q].since)
    BY <1>1 DEF Reaches
  <1>6. rows[m] = written[m]
    BY <1>1, <1>2, <1>4, <1>5 DEF Behind
  <1>7. ~(time < written[m] + Overlap)
    <2>1. ~(written[m] > walk[q].since)
      BY <1>5 DEF Reaches
    <2>2. walk[q].since + Overlap <= time
      BY <1>2 DEF OverlapTimes
    <2>3. written[m] \in Int /\ time \in Int
      BY <1>2 DEF TypeOK
    <2>4. QED
      BY <1>3, <2>1, <2>2, <2>3, OverlapIsLonger
  <1>8. QED
    BY <1>6, <1>7 DEF StoresFresh

\* A message that a run still owes is old enough that no stale copy is left.
LEMMA OwedIsOld ==
    ASSUME OverlapInv, NEW q \in Procs, pc[q] # "idle", OverlapTimes(q),
           NEW m \in Messages, Owed(m, walk[q])
    PROVE  ~(time < written[m] + Overlap)
  <1>1. walk[q].started <= time /\ written[m] <= walk[q].started - Overlap
    BY DEF OverlapTimes, Owed
  <1>2. walk[q] \in Walk /\ written[m] \in Int /\ time \in Int
    BY DEF OverlapInv, TypeOK
  <1>3. walk[q].started \in Int
    BY <1>2 DEF Walk
  <1>4. QED
    BY <1>1, <1>2, <1>3, OverlapIsLonger

\* The runs of the other processes.
LEMMA OthersKept ==
    ASSUME OverlapInv, TypeOK', UNCHANGED <<time, written, shown>>,
           \A m \in Messages : StoresFresh(m),
           \A c \in Containers : Synced(c) => Synced(c)',
           NEW q \in Syncers,
           pc'[q] = pc[q], walk'[q] = walk[q], page'[q] = page[q]
    PROVE  OverlapTimes(q)' /\ PageHolds(q)' /\ RunOwes(q)'
  <1>1. q \in Procs /\ TypeOK /\ OverlapTimes(q) /\ PageHolds(q) /\ RunOwes(q)
    BY DEF Procs, OverlapInv, OverlapRun
  <1>2. pc[q] # "idle" => walk[q].cont \in Containers
    BY <1>1 DEF TypeOK
  <1>3. OverlapTimes(q)'
    <2>1. Running(q)' /\ ~Synced(walk[q].cont)' => ~Synced(walk[q].cont)
      BY <1>2 DEF Running
    <2>2. QED
      BY <1>1, <2>1 DEF OverlapTimes, Running, Synced
  <1>4. PageHolds(q)'
    <2>1. PICK w : w = walk[q] /\ w = walk'[q]
      OBVIOUS
    <2>2. ASSUME NEW e \in page[q] PROVE EntryHolds(e, w)'
      BY <1>1, <2>1, EntrySame DEF PageHolds
    <2>3. QED
      BY <1>1, <2>1, <2>2 DEF PageHolds, EntryHolds, AtRest
  <1>5. RunOwes(q)'
    <2>1. SUFFICES ASSUME Running(q), NEW m \in Messages, Owed(m, walk[q])
                   PROVE  \/ rows'[m] = written[m]
                          \/ Fetched(m, page[q])
                          \/ PagesLeft(q) /\ Ahead(m, walk[q])
      BY DEF RunOwes, Running, Owed, AtRest, Reaches, PagesLeft, Ahead, Times, Thread,
             NotBefore, Fetched
    <2>2. ~(time < written[m] + Overlap)
      BY <1>1, <2>1, OwedIsOld DEF Running
    <2>3. rows[m] = written[m] => rows'[m] = written[m]
      BY <2>2 DEF StoresFresh
    <2>4. QED
      BY <1>1, <2>1, <2>3 DEF RunOwes
  <1>6. QED
    BY <1>3, <1>4, <1>5

\* A step of one process, which keeps the success times.
LEMMA StepOfAny ==
    ASSUME OverlapInv, TypeOK', UNCHANGED <<time, written, shown>>,
           \A m \in Messages : StoresFresh(m),
           \A c \in Containers : SameSuccess(c),
           NEW p \in Procs,
           \A q \in Procs \ {p} :
               pc'[q] = pc[q] /\ walk'[q] = walk[q] /\ page'[q] = page[q],
           FreshCopies(p)', p \in Syncers => OverlapRun(p)'
    PROVE  OverlapInv'
  <1>1. GraphInv' /\ SuccessPast' /\ OverlapHeals'
    BY OverlapDatabase
  <1>2. ASSUME NEW q \in Procs PROVE FreshCopies(q)'
    <2>1. CASE q = p
      BY <2>1
    <2>2. CASE q # p
      <3>1. FreshCopies(q)
        BY DEF OverlapInv
      <3>2. QED
        BY <2>2, <3>1 DEF FreshCopies
    <2>3. QED
      BY <2>1, <2>2
  <1>3. ASSUME NEW q \in Syncers PROVE OverlapRun(q)'
    <2>1. CASE q = p
      BY <2>1
    <2>2. CASE q # p
      <3>1. q \in Procs
        BY DEF Procs
      <3>2. pc'[q] = pc[q] /\ walk'[q] = walk[q] /\ page'[q] = page[q]
        BY <2>2, <3>1
      <3>3. OverlapTimes(q)' /\ PageHolds(q)' /\ RunOwes(q)'
        BY <3>2, OthersKept DEF SameSuccess
      <3>4. Behind(q)'
        <4>1. CASE Running(q)
          BY <3>2, <4>1, BehindKept
        <4>2. CASE ~Running(q)
          BY <3>2, <4>2 DEF Behind, Running
        <4>3. QED
          BY <4>1, <4>2
      <3>5. QED
        BY <3>3, <3>4 DEF OverlapRun
    <2>3. QED
      BY <2>1, <2>2
  <1>4. QED
    BY <1>1, <1>2, <1>3 DEF OverlapInv

-----------------------------------------------------------------------------
(* The ends of a run, and the steps between runs *)

LEMMA IdleIsFine ==
    ASSUME NEW p \in Procs, pc'[p] = "idle", page'[p] = {}
    PROVE  FreshCopies(p)' /\ OverlapRun(p)'
  BY DEF FreshCopies, OverlapRun, OverlapTimes, PageHolds, RunOwes, Behind, Running

LEMMA OverlapFailure ==
    ASSUME OverlapInv, TypeOK', NEW p \in Procs,
           StateUnreadable(p) \/ StateFails(p) \/ RunFails(p) \/ ExcludeChat(p)
               \/ FetchReturns(p) \/ FetchFails(p) \/ Crash(p)
    PROVE  OverlapInv'
  <1>1. TypeOK /\ Return(p) /\ UNCHANGED <<time, written, shown, rows>>
    BY DEF OverlapInv, StateUnreadable, StateFails, RunFails, ExcludeChat, Crash,
           FetchReturns, FetchFails, Fail, teams, database
  <1>2. ASSUME NEW c \in Containers PROVE SameSuccess(c)
    <2>1. CASE UNCHANGED sync
      BY <2>1 DEF SameSuccess, Synced
    <2>2. ASSUME NEW x \in Containers,
                 sync' = [sync EXCEPT ![x].status = IF @ = "none" THEN "null" ELSE @,
                                      ![x].failing = TRUE]
          PROVE  SameSuccess(c)
      <3>1. sync \in [Containers -> State]
        BY <1>1 DEF TypeOK
      <3>2. QED
        BY <2>2, <3>1 DEF SameSuccess, Synced, State
    <2>3. walk[p].cont \in Containers \/ UNCHANGED sync
      BY <1>1 DEF TypeOK, StateUnreadable, StateFails, RunFails, ExcludeChat, Crash,
           FetchReturns, FetchFails, database
    <2>4. UNCHANGED sync \/ RecordSyncFailure(walk[p].cont)
      BY DEF StateUnreadable, StateFails, RunFails, ExcludeChat, Crash,
             FetchReturns, FetchFails, database
    <2>5. QED
      BY <2>1, <2>2, <2>3, <2>4 DEF RecordSyncFailure
  <1>3. pc'[p] = "idle" /\ page'[p] = {}
    BY <1>1 DEF TypeOK, Return
  <1>4. \A q \in Procs \ {p} :
            pc'[q] = pc[q] /\ walk'[q] = walk[q] /\ page'[q] = page[q]
    BY <1>1 DEF TypeOK, Return
  <1>5. QED
    BY <1>1, <1>2, <1>3, <1>4, IdleIsFine, StepOfAny DEF StoresFresh

LEMMA OverlapCommand ==
    ASSUME OverlapInv, TypeOK', NEW p \in Procs,
           \/ \E G \in SUBSET Groups : SyncCommand(p, G)
           \/ \E g \in Groups : SyncGroup(p, g)
           \/ \E c \in Containers : SkipExcluded(p, c)
           \/ GroupFails(p)
    PROVE  OverlapInv'
  <1>1. /\ UNCHANGED <<time, written, shown, rows, sync, pc, walk, page>>
        /\ pc[p] = "idle"
    BY DEF SyncCommand, SyncGroup, SkipExcluded, GroupFails, teams, database
  <1>2. page[p] = {}
    BY <1>1 DEF OverlapInv, FreshCopies
  <1>3. FreshCopies(p)' /\ OverlapRun(p)'
    BY <1>1, <1>2, IdleIsFine
  <1>4. QED
    BY <1>1, <1>3, StepOfAny DEF StoresFresh, SameSuccess, Synced

LEMMA OverlapStarts ==
    ASSUME OverlapInv, TypeOK', NEW p \in Procs, NEW c \in Containers,
           SyncContainer(p, c)
    PROVE  OverlapInv'
  <1> DEFINE w == [NoWalk EXCEPT !.cont = c, !.started = time]
  <1>1. /\ UNCHANGED <<time, written, shown, rows, sync, page>>
        /\ pc[p] = "idle" /\ pc' = [pc EXCEPT ![p] = "begin"]
        /\ walk' = [walk EXCEPT ![p] = w]
    BY DEF SyncContainer, teams, database
  <1>2. page[p] = {} /\ TypeOK /\ time <= time
    BY <1>1 DEF OverlapInv, FreshCopies, TypeOK
  <1>3. w.started = time /\ w.listed = {}
    BY DEF NoWalk
  <1> HIDE DEF w
  <1>4. /\ pc'[p] = "begin" /\ walk'[p] = w
        /\ \A q \in Procs \ {p} :
              pc'[q] = pc[q] /\ walk'[q] = walk[q] /\ page'[q] = page[q]
    BY <1>1, <1>2 DEF TypeOK
  <1>5. FreshCopies(p)'
    BY <1>1, <1>2 DEF FreshCopies
  <1>6. OverlapRun(p)'
    BY <1>1, <1>2, <1>3, <1>4
    DEF OverlapRun, OverlapTimes, PageHolds, RunOwes, Behind, Running
  <1>7. QED
    BY <1>1, <1>4, <1>5, <1>6, StepOfAny DEF StoresFresh, SameSuccess, Synced

-----------------------------------------------------------------------------
(* The steps of a run *)

\* What the last success vouches for is what the run leaves out: a thread that has
\* not changed since the overlap before it.
LEMMA LeftIsStored ==
    ASSUME OverlapInv, NEW c \in Containers, Synced(c),
           NEW m \in Messages, Home[m] = c, InReach(m),
           ~Reaches(m, sync[c].success - Overlap)
    PROVE  rows[m] = written[m]
  <1> DEFINE s == sync[c].success
  <1>1. s \in Int
    BY DEF OverlapInv, TypeOK, State
  <1>2. \A x \in Messages : Root[x] = Root[m] => ~(written[x] > s - Overlap)
    BY DEF Reaches
  <1>3. \A x \in Messages : written[x] \in Nat
    BY DEF OverlapInv, TypeOK
  <1> HIDE DEF s
  <1>4. \A x \in Messages :
            Root[x] = Root[m] => written[x] <= s - Overlap /\ written[x] + Lag < s
    BY <1>1, <1>2, <1>3, OverlapIsLonger
  <1>5. AtRest(m, s) /\ written[m] <= s - Overlap
    BY <1>4 DEF AtRest
  <1>6. QED
    BY <1>5 DEF s, OverlapInv, OverlapHeals

LEMMA OverlapReads ==
    ASSUME OverlapInv, RunsShort, TypeOK', NEW p \in Procs, ReadState(p)
    PROVE  OverlapInv'
  <1> DEFINE st == sync[walk[p].cont]
             d == Since(st, walk[p].started)
             w == [walk[p] EXCEPT !.since = d]
  <1>1. /\ UNCHANGED <<time, written, shown, rows, sync, page>>
        /\ pc[p] = "begin" /\ pc' = [pc EXCEPT ![p] = "list"]
        /\ walk' = [walk EXCEPT ![p] = w]
    BY DEF ReadState, OverlapInv, TypeOK, teams, database, command
  <1>2. TypeOK /\ page[p] = {}
    BY <1>1 DEF OverlapInv, FreshCopies
  <1>3. walk[p] \in Walk /\ walk[p].cont \in Containers /\ st \in State
    BY <1>1, <1>2 DEF TypeOK
  <1>4. d \in Int /\ walk[p].started \in Int
    BY <1>3, OverlapIsLonger DEF State, Walk, Since
  <1>5. /\ w.since = d /\ w.cont = walk[p].cont
        /\ w.started = walk[p].started /\ w.listed = walk[p].listed
    <2>1. \A s \in Int :
             /\ [walk[p] EXCEPT !.since = s].since = s
             /\ [walk[p] EXCEPT !.since = s].cont = walk[p].cont
             /\ [walk[p] EXCEPT !.since = s].started = walk[p].started
             /\ [walk[p] EXCEPT !.since = s].listed = walk[p].listed
      BY <1>3, WalkReads
    <2> HIDE DEF d
    <2>2. QED
      BY <1>4, <2>1
  <1>6. /\ Synced(w.cont) => d = sync[w.cont].success - Overlap
        /\ ~Synced(w.cont) => d = walk[p].started - Lookback
    BY <1>5 DEF Since, Synced
  <1> HIDE DEF w, d
  <1>7. /\ pc'[p] = "list" /\ walk'[p] = w /\ page'[p] = {}
        /\ \A q \in Procs \ {p} :
              pc'[q] = pc[q] /\ walk'[q] = walk[q] /\ page'[q] = page[q]
    BY <1>1, <1>2 DEF TypeOK
  <1>8. FreshCopies(p)'
    BY <1>7 DEF FreshCopies
  <1>9. ASSUME p \in Syncers PROVE OverlapRun(p)'
    <2>1. /\ walk[p].started <= time /\ walk[p].listed = {}
          /\ time + Overlap <= walk[p].started + Lookback
      BY <1>1, <1>9 DEF OverlapInv, OverlapRun, OverlapTimes, RunsShort
    <2>2. d + Overlap <= time
      <3>1. time \in Int
        BY <1>2 DEF TypeOK
      <3>2. CASE Synced(w.cont)
        <4>1. sync[w.cont].success <= time /\ sync[w.cont].success \in Int
          BY <1>3, <1>5, <3>2 DEF OverlapInv, SuccessPast, State
        <4>2. QED
          BY <1>6, <3>1, <3>2, <4>1, OverlapIsLonger
      <3>3. CASE ~Synced(w.cont)
        BY <1>4, <1>6, <2>1, <3>1, <3>3, OverlapIsLonger
      <3>4. QED
        BY <3>2, <3>3
    <2>3. OverlapTimes(p)'
      BY <1>1, <1>5, <1>6, <1>7, <2>1, <2>2 DEF OverlapTimes, Running, Synced
    <2>4. PageHolds(p)'
      BY <1>7 DEF PageHolds
    <2>5. RunOwes(p)'
      BY <1>5, <1>7, <2>1 DEF RunOwes, PagesLeft, Ahead
    <2>6. Behind(p)'
      <3>1. SUFFICES ASSUME NEW m \in Messages, Home[m] = w.cont, Synced(w.cont),
                            InReach(m), ~Reaches(m, d)
                     PROVE  rows[m] = written[m]
        BY <1>1, <1>5, <1>7 DEF Behind, Synced, InReach, Reaches
      <3>2. ~Reaches(m, sync[w.cont].success - Overlap)
        BY <1>6, <3>1
      <3>3. QED
        BY <1>3, <1>5, <3>1, <3>2, LeftIsStored
    <2>7. QED
      BY <2>3, <2>4, <2>5, <2>6 DEF OverlapRun
  <1>10. QED
    BY <1>1, <1>7, <1>8, <1>9, StepOfAny DEF StoresFresh, SameSuccess, Synced

\* A message that the run owes and that is not stored is in a thread that reaches
\* the lower bound, as Graph shows it.
LEMMA OwedReachesSince ==
    ASSUME OverlapInv, NEW p \in Syncers, Running(p),
           NEW m \in Messages, Owed(m, walk[p]), rows[m] # written[m]
    PROVE  /\ \E x \in Thread(Root[m]) : shown[x] > walk[p].since
           /\ m \in Thread(Root[m])
           /\ Root[m] \in Threads(walk[p].cont)
  <1> DEFINE w == walk[p]
  <1>1. TypeOK /\ GraphInv /\ OverlapTimes(p) /\ p \in Procs
    BY DEF OverlapInv, OverlapRun, Procs
  <1>2. w \in Walk /\ w.started \in Int /\ w.since \in Int /\ w.started <= time
    BY <1>1 DEF TypeOK, Walk, OverlapTimes, Running
  <1>3. Home[m] = w.cont /\ AtRest(m, w.started)
    BY DEF Owed
  <1>4. \A x \in Messages : Root[x] = Root[m] => shown[x] = written[x]
    BY <1>1, <1>2, <1>3, RestShows
  <1>5. Root[m] \in Messages /\ Root[Root[m]] = Root[m] /\ Home[Root[m]] = Home[m]
    BY TeamsAssumption
  <1>6. written[m] > 0
    BY <1>1 DEF TypeOK, GraphInv
  <1>7. written[Root[m]] > 0
    BY <1>1, <1>5, <1>6 DEF GraphInv
  <1>8. m \in Thread(Root[m]) /\ Root[m] \in Threads(w.cont)
    BY <1>3, <1>4, <1>5, <1>6, <1>7 DEF Thread, Threads
  <1>9. PICK x \in Messages : Root[x] = Root[m] /\ written[x] > w.since
    BY DEF Owed, Reaches
  <1>10. written[x] \in Nat /\ written[m] \in Nat
    BY <1>1 DEF TypeOK
  <1>11. \E y \in Thread(Root[m]) : shown[y] > w.since
    <2>1. CASE written[x] > 0
      BY <1>4, <1>9, <2>1 DEF Thread
    <2>2. CASE ~(written[x] > 0)
      <3>1. written[m] > w.since
        BY <1>2, <1>6, <1>9, <1>10, <2>2
      <3>2. QED
        BY <1>4, <1>8, <3>1
    <2>3. QED
      BY <2>1, <2>2
  <1>12. QED
    BY <1>8, <1>11

LEMMA OwedIsCandidate ==
    ASSUME OverlapInv, NEW p \in Syncers, Running(p),
           NEW m \in Messages, Owed(m, walk[p]), rows[m] # written[m],
           Ahead(m, walk[p])
    PROVE  Root[m] \in Candidates(walk[p].cont, walk[p])
  <1> DEFINE r == Root[m]
  <1>1. r \in Threads(walk[p].cont) /\ m \in Thread(r)
    BY OwedReachesSince
  <1>2. PICK x \in Thread(r) : shown[x] > walk[p].since
    BY OwedReachesSince
  <1>3. walk[p].cont \in Chats => shown[r] > walk[p].since
    <2>1. SUFFICES ASSUME walk[p].cont \in Chats PROVE x = r
      BY <1>2
    <2>2. Home[x] = walk[p].cont /\ Root[x] = r /\ x \in Messages
      BY <1>1, <1>2, ThreadMembers DEF Threads
    <2>3. QED
      BY <2>1, <2>2, TeamsAssumption
  <1>4. QED
    BY <1>1, <1>3 DEF Ahead, Candidates

\* A run that goes on with its container and its times.
LEMMA RunGoesOn ==
    ASSUME OverlapInv, TypeOK', UNCHANGED <<time, written, shown, sync>>,
           \A m \in Messages : StoresFresh(m),
           NEW p \in Syncers, Running(p), pc'[p] # "begin",
           walk'[p].cont = walk[p].cont, walk'[p].started = walk[p].started,
           walk'[p].since = walk[p].since
    PROVE  OverlapTimes(p)' /\ Behind(p)'
  <1>1. OverlapTimes(p)
    BY DEF OverlapInv, OverlapRun
  <1>2. OverlapTimes(p)'
    BY <1>1 DEF OverlapTimes, Running, Synced
  <1>3. Behind(p)'
    BY BehindKept DEF SameSuccess, Synced
  <1>4. QED
    BY <1>2, <1>3

\* A copy as Graph shows it now.
LEMMA CopyIsFresh ==
    ASSUME TypeOK, GraphInv, NEW m \in Messages, shown[m] > 0
    PROVE  /\ CopyOf(m).id = m /\ CopyOf(m).at = shown[m] /\ written[m] > 0
           /\ shown[m] # written[m] => time <= written[m] + Lag
  BY DEF TypeOK, GraphInv, CopyOf

LEMMA OverlapListEnds ==
    ASSUME OverlapInv, TypeOK', NEW p \in Procs, ListEmpty(p)
    PROVE  OverlapInv'
  <1>1. /\ UNCHANGED <<time, written, shown, rows, sync, walk, page>>
        /\ pc[p] = "list" /\ pc' = [pc EXCEPT ![p] = "done"]
        /\ Candidates(walk[p].cont, walk[p]) = {}
    BY DEF ListEmpty, teams, database, command
  <1>2. TypeOK /\ Running(p) /\ page[p] = {}
    BY <1>1 DEF OverlapInv, FreshCopies, Running
  <1>3. /\ pc'[p] = "done" /\ walk'[p] = walk[p] /\ page'[p] = {}
        /\ \A q \in Procs \ {p} :
              pc'[q] = pc[q] /\ walk'[q] = walk[q] /\ page'[q] = page[q]
    BY <1>1, <1>2 DEF TypeOK
  <1>4. FreshCopies(p)'
    BY <1>3 DEF FreshCopies
  <1>5. ASSUME p \in Syncers PROVE OverlapRun(p)'
    <2>1. OverlapTimes(p)' /\ Behind(p)'
      BY <1>1, <1>2, <1>3, <1>5, RunGoesOn DEF StoresFresh
    <2>2. PageHolds(p)'
      BY <1>3 DEF PageHolds
    <2>3. RunOwes(p)
      BY <1>5 DEF OverlapInv, OverlapRun
    <2>4. \A m \in Messages : Owed(m, walk[p]) => rows[m] = written[m]
      BY <1>1, <1>2, <1>5, <2>3, OwedIsCandidate DEF RunOwes, Fetched
    <2>5. RunOwes(p)'
      BY <1>1, <2>4 DEF RunOwes, Owed, AtRest, Reaches
    <2>6. QED
      BY <2>1, <2>2, <2>5 DEF OverlapRun
  <1>6. QED
    BY <1>1, <1>3, <1>4, <1>5, StepOfAny DEF StoresFresh, SameSuccess, Synced

LEMMA OverlapLists ==
    ASSUME OverlapInv, TypeOK', NEW p \in Procs, ListPage(p)
    PROVE  OverlapInv'
  <1> DEFINE w == walk[p]
             candidates == Candidates(w.cont, w)
  <1>1. /\ UNCHANGED <<time, written, shown, rows, sync>>
        /\ pc[p] = "list" /\ pc' = [pc EXCEPT ![p] = "apply"]
    BY DEF ListPage, teams, database, command
  <1>2. TypeOK /\ GraphInv /\ Running(p) /\ page[p] = {}
    BY <1>1 DEF OverlapInv, FreshCopies, Running
  <1>3. w \in Walk /\ w.cont \in Containers
    BY <1>1, <1>2 DEF TypeOK
  <1>4. PICK S \in SUBSET candidates, last \in candidates :
            /\ last \in S
            /\ \A r \in S : NotBefore(Times(Thread(r)), Times(Thread(last)))
            /\ \A r \in candidates \ S :
                  NotBefore(Times(Thread(last)), Times(Thread(r)))
            /\ \E inline \in SUBSET (UNION {Thread(r) \ {r} : r \in S}) :
                 page' = [page EXCEPT ![p] = {EntryOf(r, inline) : r \in S}]
            /\ walk' = [walk EXCEPT ![p].listed = @ \cup S,
                                    ![p].lowest = Times(Thread(last)),
                                    ![p].final = (S = candidates),
                                    ![p].held = time]
    BY Zenon DEF ListPage
  <1>5. PICK inline \in SUBSET (UNION {Thread(r) \ {r} : r \in S}) :
            page' = [page EXCEPT ![p] = {EntryOf(r, inline) : r \in S}]
    BY <1>4
  <1>6. PICK v : v = walk'[p]
    OBVIOUS
  <1>7. /\ v.cont = w.cont /\ v.started = w.started /\ v.since = w.since
        /\ v.listed = w.listed \cup S /\ v.lowest = Times(Thread(last))
        /\ v.held = time
        /\ v.final <=> S = candidates
    <2> DEFINE end == (S = candidates)
    <2>1. v = [w EXCEPT !.listed = @ \cup S, !.lowest = Times(Thread(last)),
                        !.final = end, !.held = time]
      BY <1>2, <1>4, <1>6 DEF TypeOK
    <2> HIDE DEF end
    <2>2. v.final = end /\ v.cont = w.cont /\ v.started = w.started /\ v.since = w.since
          /\ v.listed = w.listed \cup S /\ v.lowest = Times(Thread(last))
          /\ v.held = time
      BY <1>3, <2>1 DEF Walk
    <2>3. QED
      BY <2>2 DEF end
  <1>8. /\ pc'[p] = "apply" /\ walk'[p] = v /\ page'[p] = {EntryOf(r, inline) : r \in S}
        /\ \A q \in Procs \ {p} :
              pc'[q] = pc[q] /\ walk'[q] = walk[q] /\ page'[q] = page[q]
    BY <1>1, <1>2, <1>4, <1>5, <1>6 DEF TypeOK
  <1>9. v \in Walk
    BY <1>8 DEF TypeOK
  <1>10. FreshCopies(p)'
    <2>1. time <= v.held /\ v.held <= time /\ time <= v.held + Hold
      BY <1>2, <1>7, OverlapIsLonger DEF TypeOK
    <2>2. ASSUME NEW r \in S
          PROVE  /\ \A m \in EntryOf(r, inline).rest : written[m] > 0
                 /\ \A msg \in EntryOf(r, inline).msgs :
                       /\ written[msg.id] > 0
                       /\ msg.at # written[msg.id] => time <= written[msg.id] + Lag
      <3>1. r \in Messages /\ shown[r] > 0
        BY DEF Candidates, Threads
      <3>2. \A m \in {r} \cup Thread(r) : m \in Messages /\ shown[m] > 0
        BY <3>1 DEF Thread
      <3>3. \A m \in {r} \cup Thread(r) :
               /\ CopyOf(m).id = m /\ CopyOf(m).at = shown[m] /\ written[m] > 0
               /\ shown[m] # written[m] => time <= written[m] + Lag
        BY <1>2, <3>2, CopyIsFresh
      <3>4. /\ EntryOf(r, inline).rest \subseteq Thread(r)
            /\ \A msg \in EntryOf(r, inline).msgs :
                  \E m \in {r} \cup Thread(r) : msg = CopyOf(m)
        BY DEF EntryOf
      <3>5. QED
        BY <3>3, <3>4
    <2>3. QED
      BY <1>1, <1>7, <1>8, <2>1, <2>2 DEF FreshCopies
  <1>11. ASSUME p \in Syncers PROVE OverlapRun(p)'
    <2>1. OverlapTimes(p)' /\ Behind(p)'
      BY <1>1, <1>2, <1>7, <1>8, <1>11, RunGoesOn DEF StoresFresh
    <2>2. OverlapTimes(p) /\ RunOwes(p)
      BY <1>11 DEF OverlapInv, OverlapRun
    <2>3. \A r \in S :
             /\ EntryHolds(EntryOf(r, inline), v)
             /\ \A m \in Thread(r) : Fetched(m, {EntryOf(r, inline)})
      <3>1. \A r \in S : r \in Threads(v.cont) /\ r \in v.listed
        BY <1>7 DEF Candidates
      <3>2. v.started <= time
        BY <1>1, <1>7, <2>2 DEF OverlapTimes
      <3>3. QED
        BY <1>2, <1>4, <1>7, <1>9, <3>1, <3>2, EntryListed
    <2>4. PageHolds(p)'
      <3>1. ASSUME NEW e \in page'[p] PROVE EntryHolds(e, v)'
        BY <1>1, <1>8, <2>3, <3>1, EntrySame
      <3>2. QED
        BY <1>8, <3>1 DEF PageHolds, EntryHolds, AtRest
    <2>5. RunOwes(p)'
      <3>1. SUFFICES ASSUME NEW m \in Messages, Owed(m, w), rows[m] # written[m]
                     PROVE  Fetched(m, page'[p]) \/ (~v.final /\ Ahead(m, v))
        <4>1. ASSUME NEW m \in Messages, Owed(m, walk[p])'
              PROVE  Owed(m, w)
          BY <1>1, <1>7, <1>8, <4>1 DEF Owed, AtRest, Reaches
        <4>2. ASSUME NEW m \in Messages, ~v.final, Ahead(m, v)
              PROVE  (PagesLeft(p) /\ Ahead(m, walk[p]))'
          BY <1>1, <1>8, <4>2 DEF PagesLeft, Ahead, Times, Thread, NotBefore
        <4>3. QED
          BY <1>1, <3>1, <4>1, <4>2 DEF RunOwes, Fetched
      <3>2. Ahead(m, w)
        BY <1>2, <2>2, <3>1 DEF RunOwes, Fetched
      <3>3. Root[m] \in candidates /\ m \in Thread(Root[m])
        BY <1>2, <1>11, <3>1, <3>2, OwedIsCandidate, OwedReachesSince
      <3>4. CASE Root[m] \in S
        <4>1. Fetched(m, {EntryOf(Root[m], inline)})
          BY <2>3, <3>3, <3>4
        <4>2. QED
          BY <1>8, <3>4, <4>1 DEF Fetched
      <3>5. CASE Root[m] \notin S
        BY <1>4, <1>7, <3>2, <3>3, <3>5 DEF Ahead
      <3>6. QED
        BY <3>4, <3>5
    <2>6. QED
      BY <2>1, <2>4, <2>5 DEF OverlapRun
  <1>12. QED
    BY <1>1, <1>8, <1>10, <1>11, StepOfAny DEF StoresFresh, SameSuccess, Synced

\* One thread of the page is replaced, by one with fewer messages to come or with
\* its replies fetched: what the run owes is still stored, in memory or ahead.
LEMMA EntryReplaced ==
    ASSUME OverlapInv, TypeOK', NEW p \in Syncers, Running(p),
           UNCHANGED <<time, written, shown, sync, pc, walk>>,
           \A m \in Messages : StoresFresh(m),
           NEW e \in page[p], NEW new,
           page'[p] = (page[p] \ {e}) \cup {new},
           EntryHolds(new, walk[p]),
           \A m \in Messages :
               Fetched(m, {e}) /\ Owed(m, walk[p]) =>
                   Fetched(m, {new}) \/ rows'[m] = written[m]
    PROVE  OverlapRun(p)'
  <1>1. /\ p \in Procs /\ OverlapTimes(p) /\ PageHolds(p) /\ RunOwes(p)
        /\ pc[p] # "idle" /\ pc'[p] # "begin" /\ page[p] # {}
    BY DEF OverlapInv, OverlapRun, Procs, Running
  <1>2. OverlapTimes(p)' /\ Behind(p)'
    BY <1>1, RunGoesOn
  <1>3. PageHolds(p)'
    <2>1. PICK w : w = walk[p] /\ w = walk'[p]
      OBVIOUS
    <2>2. ASSUME NEW x \in page'[p] PROVE EntryHolds(x, w)'
      <3>1. EntryHolds(x, w)
        BY <1>1, <2>1 DEF PageHolds
      <3>2. QED
        BY <3>1, EntrySame
    <2>3. pc'[p] = "apply"
      BY <1>1 DEF PageHolds
    <2>4. QED
      BY <2>1, <2>2, <2>3 DEF PageHolds, EntryHolds, AtRest
  <1>4. RunOwes(p)'
    <2>1. SUFFICES ASSUME NEW m \in Messages, Owed(m, walk[p]), rows'[m] # written[m],
                          ~(PagesLeft(p) /\ Ahead(m, walk[p]))
                   PROVE  Fetched(m, page'[p])
      <3>1. \A m \in Messages : Owed(m, walk[p])' => Owed(m, walk[p])
        BY DEF Owed, AtRest, Reaches
      <3>2. \A m \in Messages :
                PagesLeft(p) /\ Ahead(m, walk[p]) => (PagesLeft(p) /\ Ahead(m, walk[p]))'
        BY DEF PagesLeft, Ahead, Times, Thread, NotBefore
      <3>3. QED
        BY <2>1, <3>1, <3>2 DEF RunOwes, Fetched
    <2>2. rows[m] # written[m]
      <3>1. ~(time < written[m] + Overlap)
        BY <1>1, <2>1, OwedIsOld
      <3>2. QED
        BY <2>1, <3>1 DEF StoresFresh
    <2>3. PICK x \in page[p] : m \in x.rest \/ \E y \in x.msgs : y.id = m
      BY <1>1, <2>1, <2>2 DEF RunOwes, Fetched
    <2>4. CASE x = e
      <3>1. Fetched(m, {e})
        BY <2>3, <2>4 DEF Fetched
      <3>2. Fetched(m, {new})
        BY <2>1, <3>1
      <3>3. QED
        BY <3>2 DEF Fetched
    <2>5. CASE x # e
      BY <2>3, <2>5 DEF Fetched
    <2>6. QED
      BY <2>4, <2>5
  <1>5. QED
    BY <1>2, <1>3, <1>4 DEF OverlapRun

LEMMA OverlapUpserts ==
    ASSUME OverlapInv, TypeOK', NEW p \in Procs, UpsertMessage(p)
    PROVE  OverlapInv'
  <1>1. /\ UNCHANGED <<time, written, shown, sync, pc, walk>>
        /\ pc[p] = "apply"
    BY DEF UpsertMessage, teams, command
  <1>2. TypeOK /\ Running(p) /\ FreshCopies(p)
    BY <1>1 DEF OverlapInv, Running
  <1>3. PICK e \in page[p] : \E msg \in e.msgs :
            /\ rows' = [rows EXCEPT ![msg.id] = msg.at]
            /\ Replace(p, e, [e EXCEPT !.msgs = @ \ {msg}])
    BY DEF UpsertMessage
  <1>4. PICK msg \in e.msgs :
            /\ rows' = [rows EXCEPT ![msg.id] = msg.at]
            /\ Replace(p, e, [e EXCEPT !.msgs = @ \ {msg}])
    BY <1>3
  <1>5. /\ msg.id \in Messages /\ written[msg.id] > 0
        /\ msg.at = written[msg.id] \/ time < written[msg.id] + Overlap
    BY StaleIsYoung
  <1>6. \A m \in Messages : rows'[m] = IF m = msg.id THEN msg.at ELSE rows[m]
    BY <1>2, <1>4, <1>5 DEF TypeOK
  <1>7. \A m \in Messages : StoresFresh(m)
    BY <1>5, <1>6 DEF StoresFresh
  <1> DEFINE new == [e EXCEPT !.msgs = @ \ {msg}]
  <1>8. /\ new.root = e.root /\ new.msgs = e.msgs \ {msg} /\ new.rest = e.rest
        /\ new.more = e.more /\ new.ats = e.ats /\ new.place = e.place
    BY <1>2 DEF TypeOK, Entry
  <1>9. /\ page'[p] = (page[p] \ {e}) \cup {new}
        /\ \A q \in Procs \ {p} : page'[q] = page[q]
    BY <1>1, <1>2, <1>4 DEF TypeOK, Replace
  <1> HIDE DEF new
  <1>10. FreshCopies(p)'
    <2>1. \A x \in page'[p] : \E y \in page[p] : x.rest = y.rest /\ x.msgs \subseteq y.msgs
      BY <1>8, <1>9
    <2>2. page[p] # {}
      OBVIOUS
    <2>3. QED
      BY <1>1, <1>2, <2>1, <2>2 DEF FreshCopies
  <1>11. ASSUME p \in Syncers PROVE OverlapRun(p)'
    <2>1. EntryHolds(e, walk[p]) /\ OverlapTimes(p)
      BY <1>11 DEF OverlapInv, OverlapRun, PageHolds
    <2>2. EntryHolds(new, walk[p])
      BY <1>8, <2>1 DEF EntryHolds
    <2>3. ASSUME NEW m \in Messages, Fetched(m, {e}), Owed(m, walk[p])
          PROVE  Fetched(m, {new}) \/ rows'[m] = written[m]
      <3>1. CASE m = msg.id
        <4>1. ~(time < written[m] + Overlap)
          BY <1>1, <2>1, <2>3, OwedIsOld
        <4>2. QED
          BY <1>5, <1>6, <3>1, <4>1
      <3>2. CASE m # msg.id
        BY <1>8, <2>3, <3>2 DEF Fetched
      <3>3. QED
        BY <3>1, <3>2
    <2>4. QED
      BY <1>1, <1>2, <1>7, <1>9, <1>11, <2>2, <2>3, EntryReplaced
  <1>12. QED
    BY <1>1, <1>7, <1>9, <1>10, <1>11, StepOfAny DEF SameSuccess, Synced

LEMMA OverlapReplies ==
    ASSUME OverlapInv, TypeOK', NEW p \in Procs, RepliesPage(p)
    PROVE  OverlapInv'
  <1>1. /\ UNCHANGED <<time, written, shown, rows, sync, pc, walk>>
        /\ pc[p] = "apply"
    BY DEF RepliesPage, teams, database, command
  <1>2. TypeOK /\ GraphInv /\ Running(p) /\ FreshCopies(p)
    BY <1>1 DEF OverlapInv, Running
  <1>3. PICK e \in page[p] :
            /\ e.msgs = {}
            /\ Replace(p, e, [e EXCEPT !.msgs = {CopyOf(m) : m \in e.rest}, !.rest = {}])
    BY DEF RepliesPage
  <1>4. e \in Entry /\ e.rest \in SUBSET Messages /\ walk[p] \in Walk
    BY <1>2 DEF TypeOK, Entry
  <1> DEFINE copies == {CopyOf(m) : m \in e.rest}
             new == [e EXCEPT !.msgs = copies, !.rest = {}]
  <1>5. /\ page'[p] = (page[p] \ {e}) \cup {new}
        /\ \A q \in Procs \ {p} : page'[q] = page[q]
    BY <1>1, <1>2, <1>3 DEF TypeOK, Replace
  <1> HIDE DEF copies
  <1>6. /\ new.root = e.root /\ new.msgs = copies /\ new.rest = {}
        /\ new.more = e.more /\ new.ats = e.ats /\ new.place = e.place
    BY <1>4 DEF Entry
  <1> HIDE DEF new
  <1>7. \A m \in Messages : StoresFresh(m)
    BY <1>1 DEF StoresFresh
  <1>8. ASSUME NEW msg \in copies
        PROVE  /\ msg.id \in e.rest /\ msg.at = shown[msg.id] /\ written[msg.id] > 0
               /\ msg.at # written[msg.id] => walk[p].held <= written[msg.id] + Lag
    <2>1. PICK m \in e.rest : msg.id = m /\ msg.at = shown[m]
      BY DEF copies, CopyOf
    <2>2. m \in Messages /\ written[m] > 0 /\ walk[p].held <= time
      BY <1>2, <1>4, <2>1 DEF FreshCopies
    <2>3. shown[m] # written[m] => time <= written[m] + Lag
      BY <1>2, <2>2 DEF GraphInv
    <2>4. walk[p].held \in Int /\ time \in Int /\ written[m] \in Int
      BY <1>2, <1>4, <2>2 DEF Walk, TypeOK
    <2>5. QED
      BY <2>1, <2>2, <2>3, <2>4, OverlapIsLonger
  <1>9. FreshCopies(p)'
    BY <1>1, <1>2, <1>5, <1>6, <1>8 DEF FreshCopies
  <1>10. ASSUME p \in Syncers PROVE OverlapRun(p)'
    <2>1. EntryHolds(e, walk[p]) /\ OverlapTimes(p)
      BY <1>10 DEF OverlapInv, OverlapRun, PageHolds
    <2>2. walk[p].started \in Int /\ walk[p].started <= time
      BY <1>1, <1>4, <2>1 DEF Walk, OverlapTimes
    <2>3. ASSUME NEW msg \in copies, AtRest(msg.id, walk[p].started)
          PROVE  msg.at = written[msg.id]
      BY <1>2, <1>4, <1>8, <2>2, <2>3, RestShows
    <2>4. EntryHolds(new, walk[p])
      BY <1>6, <1>8, <2>1, <2>3 DEF EntryHolds
    <2>5. ASSUME NEW m \in Messages, Fetched(m, {e}) PROVE Fetched(m, {new})
      <3>1. m \in e.rest
        BY <1>3, <2>5 DEF Fetched
      <3>2. CopyOf(m) \in new.msgs /\ CopyOf(m).id = m
        BY <1>6, <3>1 DEF copies, CopyOf
      <3>3. QED
        BY <3>2 DEF Fetched
    <2>6. QED
      BY <1>1, <1>2, <1>5, <1>7, <1>10, <2>4, <2>5, EntryReplaced
  <1>11. QED
    BY <1>1, <1>5, <1>7, <1>9, <1>10, StepOfAny DEF SameSuccess, Synced

\* Nothing that a run owes lies behind the thread at which it leaves the list.
LEMMA NothingOwedBehindStop ==
    ASSUME OverlapInv, NEW p \in Syncers, pc[p] = "apply",
           NEW e \in page[p], Current(p, e), ThreadBefore(e, walk[p]),
           NEW m \in Messages, Owed(m, walk[p])
    PROVE  rows[m] = written[m]
  <1>1. SUFFICES ASSUME rows[m] # written[m] PROVE FALSE
    OBVIOUS
  <1> DEFINE w == walk[p]
  <1>2. TypeOK /\ Running(p) /\ RunOwes(p) /\ PageHolds(p) /\ p \in Procs
    BY DEF OverlapInv, OverlapRun, Running, Procs
  <1>3. w \in Walk /\ w.since \in Int /\ w.lowest \in SUBSET Nat /\ w.started \in Int
    BY <1>2 DEF TypeOK, Walk
  <1>4. e \in Entry /\ e.place \in SUBSET Nat /\ EntryHolds(e, w)
    BY <1>2 DEF TypeOK, Entry, PageHolds
  <1>5. \A a \in e.place : a < w.since
    BY <1>4 DEF ThreadBefore, EntryHolds
  <1>6. PICK x \in Thread(Root[m]) : shown[x] > w.since
    BY <1>1, <1>2, OwedReachesSince
  <1>7. shown[x] \in Times(Thread(Root[m])) /\ shown[x] \in Nat
    BY <1>2 DEF Times, Thread, TypeOK
  <1>8. ~\E a \in e.place : shown[x] <= a
    BY <1>3, <1>4, <1>5, <1>6, <1>7
  <1>9. CASE Fetched(m, page[p])
    <2>1. PICK y \in page[p] : m \in y.rest \/ \E msg \in y.msgs : msg.id = m
      BY <1>9 DEF Fetched
    <2>2. EntryHolds(y, w) /\ NotBefore(e.place, y.place)
      BY <1>2 DEF PageHolds, Current
    <2>3. y.root = Root[m]
      BY <2>1, <2>2 DEF EntryHolds
    <2>4. AtRest(y.root, w.started)
      BY <1>3, <2>3, RestOfRoot DEF Owed
    <2>5. y.place = Times(Thread(Root[m]))
      BY <2>2, <2>3, <2>4 DEF EntryHolds
    <2>6. QED
      BY <1>7, <1>8, <2>2, <2>5 DEF NotBefore
  <1>10. CASE Ahead(m, w)
    <2>1. w.listed # {} /\ NotBefore(e.place, w.lowest)
      BY <1>4 DEF EntryHolds
    <2>2. PICK b \in w.lowest : shown[x] <= b
      BY <1>7, <1>10, <2>1 DEF Ahead, NotBefore
    <2>3. PICK a \in e.place : b <= a
      BY <2>1, <2>2 DEF NotBefore
    <2>4. shown[x] <= a
      BY <1>3, <1>4, <1>7, <2>2, <2>3
    <2>5. QED
      BY <1>8, <2>4
  <1>11. QED
    BY <1>1, <1>2, <1>9, <1>10 DEF RunOwes

LEMMA OverlapThreadDone ==
    ASSUME OverlapInv, TypeOK', NEW p \in Procs, ThreadDone(p)
    PROVE  OverlapInv'
  <1>1. /\ UNCHANGED <<time, written, shown, rows, sync, walk>>
        /\ pc[p] = "apply"
    BY DEF ThreadDone, teams, database, command
  <1>2. TypeOK /\ Running(p) /\ FreshCopies(p)
    BY <1>1 DEF OverlapInv, Running
  <1>3. PICK e \in page[p] :
            /\ Current(p, e)
            /\ e.msgs = {} /\ e.rest = {}
            /\ LET stop == walk[p].cont \in Channels /\ ThreadBefore(e, walk[p]) IN
                 /\ page' = [page EXCEPT ![p] = IF stop THEN {} ELSE @ \ {e}]
                 /\ pc' = [pc EXCEPT ![p] =
                             IF stop \/ (page[p] = {e} /\ walk[p].final) THEN "done"
                             ELSE IF page[p] = {e} THEN "list" ELSE "apply"]
    BY DEF ThreadDone
  <1> DEFINE stop == walk[p].cont \in Channels /\ ThreadBefore(e, walk[p])
  <1>4. /\ page'[p] = (IF stop THEN {} ELSE page[p] \ {e})
        /\ pc'[p] = (IF stop \/ (page[p] = {e} /\ walk[p].final) THEN "done"
                     ELSE IF page[p] = {e} THEN "list" ELSE "apply")
        /\ \A q \in Procs \ {p} : pc'[q] = pc[q] /\ page'[q] = page[q]
    BY <1>2, <1>3 DEF TypeOK
  <1>5. stop => ThreadBefore(e, walk[p])
    OBVIOUS
  <1> HIDE DEF stop
  <1>6. FreshCopies(p)'
    <2>1. page'[p] # {} => pc'[p] = "apply"
      BY <1>4
    <2>2. page'[p] \subseteq page[p] /\ page[p] # {}
      BY <1>4
    <2>3. QED
      BY <1>1, <1>2, <2>1, <2>2 DEF FreshCopies
  <1>7. ASSUME p \in Syncers PROVE OverlapRun(p)'
    <2>1. RunOwes(p) /\ PageHolds(p) /\ pc'[p] # "begin"
      BY <1>4, <1>7 DEF OverlapInv, OverlapRun
    <2>2. OverlapTimes(p)' /\ Behind(p)'
      BY <1>1, <1>2, <1>7, <2>1, RunGoesOn DEF StoresFresh
    <2>3. PageHolds(p)'
      <3>1. pc'[p] # "apply" => page'[p] = {}
        BY <1>4
      <3>2. PICK w : w = walk[p] /\ w = walk'[p]
        BY <1>1
      <3>3. ASSUME NEW x \in page'[p] PROVE EntryHolds(x, w)
        BY <1>4, <2>1, <3>2 DEF PageHolds
      <3>4. ASSUME NEW x \in page'[p] PROVE EntryHolds(x, w)'
        BY <1>1, <3>3, EntrySame
      <3>5. QED
        BY <3>1, <3>2, <3>4 DEF PageHolds, EntryHolds, AtRest
    <2>4. RunOwes(p)'
      <3>1. \A m \in Messages : Owed(m, walk[p])' => Owed(m, walk[p])
        BY <1>1 DEF Owed, AtRest, Reaches
      <3>2. \A m \in Messages : Ahead(m, walk[p]) => Ahead(m, walk[p])'
        BY <1>1 DEF Ahead, Times, Thread, NotBefore
      <3>3. CASE stop
        <4>1. \A m \in Messages : Owed(m, walk[p]) => rows[m] = written[m]
          BY <1>1, <1>3, <1>5, <1>7, <3>3, NothingOwedBehindStop
        <4>2. QED
          BY <1>1, <3>1, <4>1 DEF RunOwes
      <3>4. CASE ~stop
        <4>1. \A m \in Messages : Fetched(m, page[p]) => Fetched(m, page'[p])
          BY <1>3, <1>4, <3>4 DEF Fetched
        <4>2. ASSUME NEW m \in Messages, Owed(m, walk[p]), rows[m] # written[m],
                     ~Fetched(m, page'[p])
              PROVE  PagesLeft(p)' /\ Ahead(m, walk[p])
          <5>1. ~walk[p].final /\ Ahead(m, walk[p])
            BY <1>1, <1>2, <2>1, <4>1, <4>2 DEF RunOwes, PagesLeft
          <5>2. PagesLeft(p)'
            BY <1>1, <1>4, <3>4, <5>1 DEF PagesLeft
          <5>3. QED
            BY <5>1, <5>2
        <4>3. QED
          BY <1>1, <3>1, <3>2, <4>2 DEF RunOwes, Fetched
      <3>5. QED
        BY <3>3, <3>4
    <2>5. QED
      BY <2>2, <2>3, <2>4 DEF OverlapRun
  <1>8. QED
    BY <1>1, <1>4, <1>6, <1>7, StepOfAny DEF StoresFresh, SameSuccess, Synced

LEMMA OverlapFetches ==
    ASSUME OverlapInv, TypeOK', NEW p \in Procs, NEW m \in Messages, FetchURL(p, m)
    PROVE  OverlapInv'
  <1> DEFINE e == [root |-> m, msgs |-> {CopyOf(m)}, rest |-> Thread(m) \ {m},
                   more |-> TRUE, ats |-> {shown[m]}, place |-> {shown[m]}]
             end == TRUE
             w == [NoWalk EXCEPT !.cont = Home[m], !.final = end, !.held = time]
  <1>1. /\ UNCHANGED <<time, written, shown, rows, sync>>
        /\ p \in Fetchers /\ shown[m] > 0
        /\ page' = [page EXCEPT ![p] = {e}]
        /\ walk' = [walk EXCEPT ![p] = w]
        /\ pc' = [pc EXCEPT ![p] = "apply"]
    BY DEF FetchURL, teams, database, command
  <1>2. TypeOK /\ GraphInv /\ p \notin Syncers
    BY <1>1, TeamsAssumption DEF OverlapInv
  <1>3. w.held = time
    BY DEF NoWalk
  <1>4. e.msgs = {CopyOf(m)} /\ e.rest \subseteq Thread(m)
    OBVIOUS
  <1> HIDE DEF e, w
  <1>5. /\ page'[p] = {e} /\ walk'[p] = w /\ pc'[p] = "apply"
        /\ \A q \in Procs \ {p} :
              pc'[q] = pc[q] /\ walk'[q] = walk[q] /\ page'[q] = page[q]
    BY <1>1, <1>2 DEF TypeOK
  <1>6. FreshCopies(p)'
    <2>1. time <= time /\ time <= time + Hold
      BY <1>2, OverlapIsLonger DEF TypeOK
    <2>2. \A x \in Thread(m) : written[x] > 0
      BY <1>2 DEF GraphInv, TypeOK, Thread
    <2>3. /\ CopyOf(m).id = m /\ CopyOf(m).at = shown[m] /\ written[m] > 0
          /\ shown[m] # written[m] => time <= written[m] + Lag
      BY <1>1, <1>2, CopyIsFresh
    <2>4. QED
      BY <1>1, <1>3, <1>4, <1>5, <2>1, <2>2, <2>3 DEF FreshCopies
  <1>7. QED
    BY <1>1, <1>2, <1>5, <1>6, StepOfAny DEF StoresFresh, SameSuccess, Synced

-----------------------------------------------------------------------------
(* Success *)

\* The end of a run: what it owed is stored, and what it left was.
LEMMA OverlapRecorded ==
    ASSUME OverlapInv, RunsShort, TypeOK', NEW p \in Procs, RecordSyncSuccess(p)
    PROVE  OverlapInv'
  <1> DEFINE w == walk[p]
             c == walk[p].cont
             s == walk[p].started
  <1>1. /\ TypeOK /\ Return(p) /\ UNCHANGED <<time, written, shown, rows>>
        /\ p \in Syncers /\ pc[p] = "done" /\ Running(p)
        /\ sync' = [sync EXCEPT ![c] = SucceededState(sync[c], s)]
    BY DEF OverlapInv, RecordSyncSuccess, teams, Running
  <1>2. OverlapTimes(p) /\ PageHolds(p) /\ RunOwes(p) /\ Behind(p)
    BY <1>1 DEF OverlapInv, OverlapRun
  <1>3. /\ w \in Walk /\ c \in Containers /\ s \in Int /\ s <= time
        /\ time + Overlap <= s + Lookback
    BY <1>1, <1>2 DEF TypeOK, Walk, OverlapTimes, RunsShort
  <1>4. \A x \in Containers :
            sync'[x] = IF x = c THEN SucceededState(sync[c], s) ELSE sync[x]
    BY <1>1, <1>3 DEF TypeOK
  <1>5. /\ sync'[c].status = "ok" /\ sync'[c].success = s
        /\ sync'[c].full = IF Synced(c) THEN sync[c].full ELSE s
    BY <1>3, <1>4 DEF SucceededState, Synced
  <1>6. /\ pc'[p] = "idle" /\ page'[p] = {}
        /\ \A q \in Procs \ {p} :
              pc'[q] = pc[q] /\ walk'[q] = walk[q] /\ page'[q] = page[q]
    BY <1>1 DEF TypeOK, Return
  <1>7. \A m \in Messages : Owed(m, w) => rows[m] = written[m]
    BY <1>1, <1>2 DEF RunOwes, PageHolds, Fetched, PagesLeft
  <1>8. ASSUME ~Synced(c), NEW m \in Messages, InReach(m)', Home[m] = c
        PROVE  Reaches(m, w.since)
    <2>1. written[m] > s - Lookback
      BY <1>1, <1>5, <1>8 DEF InReach
    <2>2. w.since = s - Lookback
      BY <1>1, <1>2, <1>8 DEF OverlapTimes
    <2>3. QED
      BY <2>1, <2>2 DEF Reaches
  <1>9. GraphInv'
    BY <1>1 DEF OverlapInv, GraphInv
  <1>10. SuccessPast'
    BY <1>1, <1>3, <1>4, <1>5 DEF OverlapInv, SuccessPast, Synced
  <1>11. OverlapHeals'
    <2>1. SUFFICES ASSUME NEW m \in Messages, Synced(Home[m])', InReach(m)',
                          written[m] <= sync'[Home[m]].success - Overlap,
                          AtRest(m, sync[Home[m]].success)'
                   PROVE  rows[m] = written[m]
      BY <1>1 DEF OverlapHeals
    <2>2. CASE Home[m] = c
      <3>1. AtRest(m, s) /\ written[m] <= s - Overlap
        BY <1>1, <1>5, <2>1, <2>2 DEF AtRest
      <3>2. CASE Reaches(m, w.since)
        BY <1>7, <2>2, <3>1, <3>2 DEF Owed
      <3>3. CASE ~Reaches(m, w.since)
        <4>1. Synced(c) /\ InReach(m)
          BY <1>1, <1>5, <1>8, <2>1, <2>2, <3>3 DEF InReach
        <4>2. QED
          BY <1>1, <1>2, <2>2, <3>3, <4>1 DEF Behind
      <3>4. QED
        BY <3>2, <3>3
    <2>3. CASE Home[m] # c
      <3>1. Home[m] \in Containers
        BY TeamsAssumption
      <3>2. sync'[Home[m]] = sync[Home[m]]
        BY <1>4, <2>3, <3>1
      <3>3. /\ Synced(Home[m]) /\ InReach(m) /\ AtRest(m, sync[Home[m]].success)
            /\ written[m] <= sync[Home[m]].success - Overlap
        BY <1>1, <2>1, <3>2 DEF Synced, InReach, AtRest
      <3>4. QED
        BY <3>3 DEF OverlapInv, OverlapHeals
    <2>4. QED
      BY <2>2, <2>3
  <1>12. ASSUME NEW q \in Procs PROVE FreshCopies(q)'
    <2>1. CASE q = p
      BY <1>6, <2>1, IdleIsFine
    <2>2. CASE q # p
      BY <1>1, <1>6, <2>2 DEF OverlapInv, FreshCopies
    <2>3. QED
      BY <2>1, <2>2
  <1>13. ASSUME NEW q \in Syncers, q # p PROVE OverlapRun(q)'
    <2>1. /\ q \in Procs /\ OverlapTimes(q) /\ Behind(q)
          /\ pc'[q] = pc[q] /\ walk'[q] = walk[q] /\ page'[q] = page[q]
      BY <1>6, <1>13 DEF OverlapInv, OverlapRun, Procs
    <2>2. \A x \in Containers : Synced(x) => Synced(x)'
      BY <1>4, <1>5 DEF Synced
    <2>3. OverlapTimes(q)' /\ PageHolds(q)' /\ RunOwes(q)'
      BY <1>1, <2>1, <2>2, OthersKept DEF StoresFresh
    <2>4. Behind(q)'
      <3>1. SUFFICES ASSUME Running(q), NEW m \in Messages, Home[m] = walk[q].cont,
                            Synced(walk[q].cont)', InReach(m)',
                            ~Reaches(m, walk[q].since)
                     PROVE  rows[m] = written[m]
        BY <1>1, <2>1 DEF Behind, Running, Synced, Reaches
      <3>2. walk[q] \in Walk /\ walk[q].cont \in Containers
        BY <1>1, <2>1, <3>1 DEF TypeOK, Running
      <3>3. CASE walk[q].cont # c \/ Synced(c)
        <4>1. Synced(walk[q].cont) /\ sync'[walk[q].cont].full = sync[walk[q].cont].full
          <5>1. CASE walk[q].cont = c
            BY <1>5, <3>3, <5>1
          <5>2. CASE walk[q].cont # c
            BY <1>4, <2>1, <3>1, <3>2, <5>2 DEF Synced
          <5>3. QED
            BY <5>1, <5>2
        <4>2. InReach(m)
          BY <1>1, <3>1, <4>1 DEF InReach
        <4>3. QED
          BY <2>1, <3>1, <4>1, <4>2 DEF Behind
      <3>4. CASE walk[q].cont = c /\ ~Synced(c)
        <4>1. Reaches(m, w.since)
          BY <1>8, <3>1, <3>4
        <4>2. walk[q].since = walk[q].started - Lookback /\ walk[q].started <= time
          BY <2>1, <3>1, <3>4 DEF OverlapTimes, Running
        <4>3. walk[q].started \in Int /\ time \in Int
          BY <1>1, <3>2 DEF Walk, TypeOK
        <4>4. walk[q].since <= s - Overlap /\ walk[q].since \in Int
          BY <1>3, <4>2, <4>3, OverlapIsLonger
        <4>5. \A x \in Messages : Root[x] = Root[m] => ~(written[x] > walk[q].since)
          BY <3>1 DEF Reaches
        <4>6. \A x \in Messages : written[x] \in Nat
          BY <1>1 DEF TypeOK
        <4> HIDE DEF s
        <4>7. \A x \in Messages :
                 Root[x] = Root[m] => written[x] <= s - Overlap /\ written[x] + Lag < s
          BY <1>3, <4>4, <4>5, <4>6, OverlapIsLonger
        <4>8. AtRest(m, s) /\ written[m] <= s - Overlap
          BY <4>7 DEF AtRest
        <4>9. Owed(m, w)
          BY <3>1, <3>4, <4>1, <4>8 DEF Owed, s
        <4>10. QED
          BY <1>7, <4>9
      <3>5. QED
        BY <3>3, <3>4
    <2>5. QED
      BY <2>3, <2>4 DEF OverlapRun
  <1>14. OverlapRun(p)'
    BY <1>6, IdleIsFine
  <1>15. QED
    BY <1>9, <1>10, <1>11, <1>12, <1>13, <1>14 DEF OverlapInv

LEMMA OverlapInit == ASSUME Init PROVE OverlapInv
  <1>1. TypeOK
    BY TypeInit
  <1>2. GraphInv
    BY TeamsAssumption DEF Init, GraphInv
  <1>3. \A c \in Containers : ~Synced(c)
    BY DEF Init, Synced, NoState
  <1>4. SuccessPast /\ OverlapHeals
    BY <1>3, TeamsAssumption DEF SuccessPast, OverlapHeals
  <1>5. \A p \in Procs : FreshCopies(p)
    BY DEF Init, FreshCopies
  <1>6. \A p \in Syncers : OverlapRun(p)
    BY DEF Init, Procs, OverlapRun, OverlapTimes, PageHolds, RunOwes, Behind, Running
  <1>7. QED
    BY <1>1, <1>2, <1>4, <1>5, <1>6 DEF OverlapInv

LEMMA OverlapNext ==
    ASSUME NoLostBody, OverlapInv, RunsShort, [Next]_vars PROVE OverlapInv'
  <1>1. TypeOK'
    BY TypeNext DEF OverlapInv
  <1>2. CASE UNCHANGED vars
    <2>1. UNCHANGED <<time, written, shown, rows, sync, pc, walk, page>>
      BY <1>2 DEF vars, teams, database
    <2>2. /\ \A m \in Messages : StoresFresh(m)
          /\ \A c \in Containers : SameSuccess(c)
      BY <2>1 DEF StoresFresh, SameSuccess, Synced
    <2>3. GraphInv' /\ SuccessPast' /\ OverlapHeals'
      BY <1>1, <2>1, <2>2, OverlapDatabase
    <2>4. ASSUME NEW p \in Procs PROVE FreshCopies(p)'
      BY <2>1 DEF OverlapInv, FreshCopies
    <2>5. ASSUME NEW p \in Syncers PROVE OverlapRun(p)'
      <3>1. OverlapTimes(p)' /\ PageHolds(p)' /\ RunOwes(p)'
        BY <1>1, <2>1, <2>2, OthersKept DEF SameSuccess
      <3>2. Behind(p)'
        BY <2>1 DEF OverlapInv, OverlapRun, Behind, Running, Synced, InReach, Reaches
      <3>3. QED
        BY <3>1, <3>2 DEF OverlapRun
    <2>6. QED
      BY <1>1, <2>3, <2>4, <2>5 DEF OverlapInv
  <1>3. CASE Service
    BY <1>3, OverlapService
  <1>4. ASSUME NEW p \in Procs, Work(p) PROVE OverlapInv'
    <2>1. ASSUME NEW g \in Groups, SyncGroup(p, g) PROVE OverlapInv'
      BY <1>1, <2>1, OverlapCommand
    <2>2. ASSUME NEW c \in Containers, SkipExcluded(p, c) PROVE OverlapInv'
      BY <1>1, <2>2, OverlapCommand
    <2>3. ASSUME NEW c \in Containers, SyncContainer(p, c) PROVE OverlapInv'
      BY <1>1, <2>3, OverlapStarts
    <2>4. CASE ReadState(p)
      BY <1>1, <2>4, OverlapReads
    <2>5. CASE StateUnreadable(p) \/ FetchReturns(p)
      BY <1>1, <2>5, OverlapFailure
    <2>6. CASE ListPage(p)
      BY <1>1, <2>6, OverlapLists
    <2>7. CASE ListEmpty(p)
      BY <1>1, <2>7, OverlapListEnds
    <2>8. CASE UpsertMessage(p)
      BY <1>1, <2>8, OverlapUpserts
    <2>9. CASE RepliesPage(p)
      BY <1>1, <2>9, OverlapReplies
    <2>10. CASE ThreadDone(p)
      BY <1>1, <2>10, OverlapThreadDone
    <2>11. CASE RecordSyncSuccess(p)
      BY <1>1, <2>11, OverlapRecorded
    <2>12. QED
      BY <1>4, <2>1, <2>2, <2>3, <2>4, <2>5, <2>6, <2>7, <2>8, <2>9, <2>10, <2>11
      DEF Work
  <1>5. ASSUME NEW p \in Procs, Failure(p) PROVE OverlapInv'
    <2>1. CASE GroupFails(p)
      BY <1>1, <2>1, OverlapCommand
    <2>2. CASE StateFails(p) \/ RunFails(p) \/ ExcludeChat(p) \/ FetchFails(p) \/ Crash(p)
      BY <1>1, <2>2, OverlapFailure
    <2>3. CASE ListEmptyBody(p) \/ RepliesEmptyBody(p)
      BY <2>3 DEF ListEmptyBody, RepliesEmptyBody, Disturb, NoLostBody
    <2>4. QED
      BY <1>5, <2>1, <2>2, <2>3 DEF Failure
  <1>6. ASSUME NEW p \in Procs, Operator(p) PROVE OverlapInv'
    <2>1. ASSUME NEW G \in {Groups} \cup {{g} : g \in Groups}, SyncCommand(p, G)
          PROVE  OverlapInv'
      BY <1>1, <2>1, OverlapCommand
    <2>2. ASSUME NEW m \in Messages, FetchURL(p, m) PROVE OverlapInv'
      BY <1>1, <2>2, OverlapFetches
    <2>3. QED
      BY <1>6, <2>1, <2>2 DEF Operator
  <1>7. QED
    BY <1>2, <1>3, <1>4, <1>5, <1>6 DEF Next

\* The overlap heals: with any number of "sync" processes and FetchURLs writing the
\* same rows, every message within reach that is older than the success time by the
\* overlap, in a thread at rest, is stored as it was last written.  UpsertMessage
\* compares no versions; it takes that the overlap is longer than the lag and the
\* time an item is held, that no answer loses its body, and that runs are short.
THEOREM TheOverlapHeals ==
    ASSUME NoLostBody
    PROVE  Spec /\ []RunsShort => []OverlapHeals
  <1>1. Init => OverlapInv
    BY OverlapInit
  <1>2. OverlapInv /\ RunsShort /\ [Next]_vars => OverlapInv'
    BY OverlapNext
  <1>3. OverlapInv => OverlapHeals
    BY DEF OverlapInv
  <1>4. QED
    BY <1>1, <1>2, <1>3, PTL DEF Spec
=============================================================================
