--------------------------- MODULE TeamsSyncProofs ---------------------------
(***************************************************************************)
(* Theorems about TeamsSync, for every set of messages, containers and     *)
(* processes, every overlap and every bound: type correctness, and, for    *)
(* one process, that an excluded chat is left alone.                       *)
(***************************************************************************)
EXTENDS TeamsSync, TLAPS

-----------------------------------------------------------------------------
(* Data *)

LEMMA NoWalkType == NoWalk \in Walk
  BY DEF NoWalk, Walk

\* Three updates of a walk.
LEMMA WalkStarts ==
    ASSUME NEW v \in Walk, NEW c \in Containers, NEW t \in Int
    PROVE  /\ [v EXCEPT !.cont = c, !.started = t] \in Walk
           /\ [v EXCEPT !.cont = c, !.started = t].cont = c
  BY DEF Walk

LEMMA WalkFetches ==
    ASSUME NEW v \in Walk, NEW c \in Containers, NEW fin \in BOOLEAN, NEW t \in Int
    PROVE  [v EXCEPT !.cont = c, !.final = fin, !.held = t] \in Walk
  BY DEF Walk

LEMMA WalkLists ==
    ASSUME NEW v \in Walk, NEW S \in SUBSET Messages, NEW low \in SUBSET Nat,
           NEW fin \in BOOLEAN, NEW t \in Int
    PROVE  [v EXCEPT !.listed = @ \cup S, !.lowest = low,
                     !.final = fin, !.held = t] \in Walk
  BY DEF Walk

LEMMA MembersAreContainers ==
    ASSUME NEW g \in Groups PROVE Members(g) \in SUBSET Containers
  BY DEF Members, Containers

LEMMA CopyOfType ==
    ASSUME TypeOK, NEW m \in Messages PROVE CopyOf(m) \in Copy
  BY DEF TypeOK, CopyOf, Copy

LEMMA CopiesType ==
    ASSUME TypeOK, NEW M \in SUBSET Messages
    PROVE  {CopyOf(m) : m \in M} \in SUBSET Copy
  BY CopyOfType

LEMMA TimesType ==
    ASSUME TypeOK, NEW M \in SUBSET Messages PROVE Times(M) \in SUBSET Nat
  BY DEF TypeOK, Times

\* A thread in a page is well typed.
LEMMA EntryOfType ==
    ASSUME TypeOK, NEW r \in Messages, NEW inline
    PROVE  EntryOf(r, inline) \in Entry
  <1> DEFINE here == {r} \cup (Thread(r) \cap inline)
  <1>1. here \in SUBSET Messages /\ Thread(r) \in SUBSET Messages
    BY DEF Thread
  <1>2. /\ {CopyOf(m) : m \in here} \in SUBSET Copy
        /\ Times(here) \in SUBSET Nat
        /\ Times(Thread(r)) \in SUBSET Nat
    BY <1>1, CopiesType, TimesType
  <1>3. Thread(r) \ here \in SUBSET Messages /\ (Thread(r) # here) \in BOOLEAN
    BY <1>1
  <1> HIDE DEF here
  <1>4. [root |-> r, msgs |-> {CopyOf(m) : m \in here}, rest |-> Thread(r) \ here,
         more |-> Thread(r) # here, ats |-> Times(here),
         place |-> Times(Thread(r))] \in Entry
    BY <1>2, <1>3 DEF Entry
  <1>5. QED
    BY <1>4 DEF EntryOf, here

-----------------------------------------------------------------------------
(* Parts of the actions *)

\* What Return leaves in the memory of a process.
LEMMA TypeReturn ==
    ASSUME TypeOK, NEW p \in Procs, Return(p)
    PROVE  /\ pc' \in [Procs -> Steps]
           /\ walk' \in [Procs -> Walk]
           /\ page' \in [Procs -> SUBSET Entry]
           /\ \A q \in Procs : pc'[q] # "idle" => walk'[q].cont \in Containers
  BY NoWalkType DEF TypeOK, Return, Steps

LEMMA TypeFail ==
    ASSUME TypeOK, NEW p \in Procs, Fail(p)
    PROVE  /\ pc' \in [Procs -> Steps]
           /\ walk' \in [Procs -> Walk]
           /\ page' \in [Procs -> SUBSET Entry]
           /\ queue' \in [Procs -> SUBSET Containers]
           /\ \A q \in Procs : pc'[q] # "idle" => walk'[q].cont \in Containers
  BY TypeReturn DEF TypeOK, Fail

LEMMA TypeRecordFailure ==
    ASSUME TypeOK, NEW c \in Containers, RecordSyncFailure(c)
    PROVE  sync' \in [Containers -> State]
  <1>1. CASE UNCHANGED sync
    BY <1>1 DEF TypeOK
  <1>2. CASE sync' = [sync EXCEPT ![c].status = IF @ = "none" THEN "null" ELSE @,
                                  ![c].failing = TRUE]
    <2>1. sync[c] \in State
      BY DEF TypeOK
    <2>2. [sync[c] EXCEPT !.status = IF @ = "none" THEN "null" ELSE @,
                          !.failing = TRUE] \in State
      BY <2>1 DEF State
    <2>3. QED
      BY <1>2, <2>2 DEF TypeOK
  <1>3. QED
    BY <1>1, <1>2 DEF RecordSyncFailure

LEMMA TypeSucceeded ==
    ASSUME NEW st \in State, NEW started \in Int
    PROVE  SucceededState(st, started) \in State
  BY DEF SucceededState, State

LEMMA TypeDisturb == ASSUME TypeOK, NEW kind, Disturb(kind) PROVE faults' \in Nat
  BY DEF TypeOK, Disturb

\* A page with one thread replaced.
LEMMA TypeReplace ==
    ASSUME TypeOK, NEW p \in Procs, NEW e, NEW new \in Entry, Replace(p, e, new)
    PROVE  page' \in [Procs -> SUBSET Entry]
  BY DEF TypeOK, Replace

-----------------------------------------------------------------------------
(* Type correctness *)

LEMMA TypeInit == ASSUME Init PROVE TypeOK
  <1>1. NoState \in State
    BY DEF NoState, State
  <1>2. QED
    BY <1>1, NoWalkType DEF Init, TypeOK, Steps

LEMMA TypeService == ASSUME TypeOK, Service PROVE TypeOK'
  <1>1. CASE Tick
    BY <1>1 DEF TypeOK, Tick, database, command
  <1>2. ASSUME NEW m \in Messages, Write(m) PROVE TypeOK'
    BY <1>2 DEF TypeOK, Write, database, command
  <1>3. ASSUME NEW m \in Messages, Show(m) PROVE TypeOK'
    BY <1>3 DEF TypeOK, Show, database, command
  <1>4. QED
    BY <1>1, <1>2, <1>3 DEF Service

LEMMA TypeCommand ==
    ASSUME TypeOK, NEW p \in Procs,
           \/ \E G \in SUBSET Groups : SyncCommand(p, G)
           \/ \E g \in Groups : SyncGroup(p, g)
           \/ \E c \in Containers : SkipExcluded(p, c) \/ SyncContainer(p, c)
           \/ GroupFails(p)
    PROVE  TypeOK'
  <1>1. ASSUME NEW G \in SUBSET Groups, SyncCommand(p, G) PROVE TypeOK'
    BY <1>1 DEF TypeOK, SyncCommand, teams, database
  <1>2. ASSUME NEW g \in Groups, SyncGroup(p, g) PROVE TypeOK'
    BY <1>2, MembersAreContainers DEF TypeOK, SyncGroup, teams, database
  <1>3. ASSUME NEW c \in Containers, SkipExcluded(p, c) PROVE TypeOK'
    BY <1>3 DEF TypeOK, SkipExcluded, teams, database
  <1>4. ASSUME NEW c \in Containers, SyncContainer(p, c) PROVE TypeOK'
    <2>1. time \in Int
      BY DEF TypeOK
    <2>2. /\ [NoWalk EXCEPT !.cont = c, !.started = time] \in Walk
          /\ [NoWalk EXCEPT !.cont = c, !.started = time].cont = c
      BY <2>1, NoWalkType, WalkStarts, Zenon
    <2>3. QED
      BY <1>4, <2>2 DEF TypeOK, SyncContainer, Steps, teams, database
  <1>5. CASE GroupFails(p)
    <2>1. faults' \in Nat
      BY <1>5, TypeDisturb DEF GroupFails
    <2>2. QED
      BY <1>5, <2>1 DEF TypeOK, GroupFails, teams, database
  <1>6. QED
    BY <1>1, <1>2, <1>3, <1>4, <1>5

LEMMA TypeRead == ASSUME TypeOK, NEW p \in Procs, ReadState(p) PROVE TypeOK'
  <1> DEFINE s == Since(sync[walk[p].cont], walk[p].started)
  <1>1. walk[p] \in Walk /\ walk[p].cont \in Containers
    BY DEF TypeOK, ReadState
  <1>2. s \in Int
    BY <1>1, TeamsAssumption DEF TypeOK, State, Walk, Since
  <1> HIDE DEF s
  <1>3. [walk[p] EXCEPT !.since = s] \in Walk
    BY <1>1, <1>2 DEF Walk
  <1>4. walk' = [walk EXCEPT ![p] = [walk[p] EXCEPT !.since = s]]
    BY DEF TypeOK, ReadState, s
  <1>5. [walk[p] EXCEPT !.since = s].cont = walk[p].cont
    BY <1>1 DEF Walk
  <1>6. QED
    BY <1>1, <1>3, <1>4, <1>5 DEF TypeOK, ReadState, Steps, teams, database, command

LEMMA TypeList == ASSUME TypeOK, NEW p \in Procs, ListPage(p) PROVE TypeOK'
  <1> DEFINE candidates == Candidates(walk[p].cont, walk[p])
  <1>1. walk[p] \in Walk /\ walk[p].cont \in Containers
    BY DEF TypeOK, ListPage
  <1>2. candidates \in SUBSET Messages
    BY DEF Candidates, Threads
  <1>3. PICK S \in SUBSET candidates, last \in candidates :
            /\ last \in S
            /\ \E inline \in SUBSET (UNION {Thread(r) \ {r} : r \in S}) :
                 page' = [page EXCEPT ![p] = {EntryOf(r, inline) : r \in S}]
            /\ walk' = [walk EXCEPT ![p].listed = @ \cup S,
                                    ![p].lowest = Times(Thread(last)),
                                    ![p].final = (S = candidates),
                                    ![p].held = time]
    BY Zenon DEF ListPage
  <1>4. PICK inline \in SUBSET (UNION {Thread(r) \ {r} : r \in S}) :
            page' = [page EXCEPT ![p] = {EntryOf(r, inline) : r \in S}]
    BY <1>3
  <1>5. S \in SUBSET Messages /\ (S = candidates) \in BOOLEAN
    BY <1>2
  <1>6. Times(Thread(last)) \in SUBSET Nat /\ time \in Int
    BY TimesType DEF TypeOK, Thread
  <1> DEFINE end == (S = candidates)
             w == [walk[p] EXCEPT !.listed = @ \cup S,
                                  !.lowest = Times(Thread(last)),
                                  !.final = end,
                                  !.held = time]
  <1>7. walk' = [walk EXCEPT ![p] = w]
    BY <1>3 DEF TypeOK
  <1>8. end \in BOOLEAN
    BY <1>5
  <1> HIDE DEF end, candidates
  <1>9. w \in Walk
    <2>1. S \in SUBSET Messages
      BY <1>5
    <2>2. QED
      BY <1>1, <1>6, <1>8, <2>1, WalkLists, Zenon
  <1>10. w.cont = walk[p].cont
    BY <1>1 DEF Walk
  <1>11. {EntryOf(r, inline) : r \in S} \in SUBSET Entry
    BY <1>5, EntryOfType
  <1> HIDE DEF w
  <1>12. QED
    BY <1>1, <1>4, <1>7, <1>9, <1>10, <1>11
    DEF TypeOK, ListPage, Steps, teams, database, command

LEMMA TypeListEnds ==
    ASSUME TypeOK, NEW p \in Procs, ListEmpty(p) \/ ListEmptyBody(p) PROVE TypeOK'
  BY TypeDisturb
  DEF TypeOK, ListEmpty, ListEmptyBody, Steps, teams, database, command

LEMMA TypeUpsert == ASSUME TypeOK, NEW p \in Procs, UpsertMessage(p) PROVE TypeOK'
  <1>1. PICK e \in page[p] : \E msg \in e.msgs :
            /\ rows' = [rows EXCEPT ![msg.id] = msg.at]
            /\ Replace(p, e, [e EXCEPT !.msgs = @ \ {msg}])
    BY DEF UpsertMessage
  <1>2. PICK msg \in e.msgs :
            /\ rows' = [rows EXCEPT ![msg.id] = msg.at]
            /\ Replace(p, e, [e EXCEPT !.msgs = @ \ {msg}])
    BY <1>1
  <1>3. e \in Entry
    BY DEF TypeOK
  <1>4. msg \in Copy /\ [e EXCEPT !.msgs = @ \ {msg}] \in Entry
    BY <1>3 DEF Entry
  <1>5. page' \in [Procs -> SUBSET Entry]
    BY <1>2, <1>4, TypeReplace
  <1>6. rows' \in [Messages -> Nat]
    BY <1>2, <1>4 DEF TypeOK, Copy
  <1>7. QED
    BY <1>5, <1>6 DEF TypeOK, UpsertMessage, teams, command

LEMMA TypeReplies ==
    ASSUME TypeOK, NEW p \in Procs, RepliesPage(p) \/ RepliesEmptyBody(p)
    PROVE  TypeOK'
  <1>1. CASE RepliesPage(p)
    <2>1. PICK e \in page[p] :
              Replace(p, e, [e EXCEPT !.msgs = {CopyOf(m) : m \in e.rest}, !.rest = {}])
      BY <1>1 DEF RepliesPage
    <2>2. e \in Entry /\ e.rest \in SUBSET Messages
      BY DEF TypeOK, Entry
    <2>3. [e EXCEPT !.msgs = {CopyOf(m) : m \in e.rest}, !.rest = {}] \in Entry
      BY <2>2, CopiesType DEF Entry
    <2>4. page' \in [Procs -> SUBSET Entry]
      BY <2>1, <2>3, TypeReplace
    <2>5. QED
      BY <1>1, <2>4 DEF TypeOK, RepliesPage, teams, database, command
  <1>2. CASE RepliesEmptyBody(p)
    <2>1. PICK e \in page[p] : Replace(p, e, [e EXCEPT !.rest = {}])
      BY <1>2 DEF RepliesEmptyBody
    <2>2. [e EXCEPT !.rest = {}] \in Entry
      BY DEF TypeOK, Entry
    <2>3. page' \in [Procs -> SUBSET Entry]
      BY <2>1, <2>2, TypeReplace
    <2>4. QED
      BY <1>2, <2>3, TypeDisturb DEF TypeOK, RepliesEmptyBody, teams, database, command
  <1>3. QED
    BY <1>1, <1>2

LEMMA TypeThreadDone == ASSUME TypeOK, NEW p \in Procs, ThreadDone(p) PROVE TypeOK'
  <1>1. walk[p].cont \in Containers
    BY DEF TypeOK, ThreadDone
  <1>2. PICK S \in SUBSET page[p], step \in Steps :
            /\ page' = [page EXCEPT ![p] = S]
            /\ pc' = [pc EXCEPT ![p] = step]
    BY DEF ThreadDone, Steps
  <1>3. QED
    BY <1>1, <1>2 DEF TypeOK, ThreadDone, teams, database, command

LEMMA TypeRunEnds ==
    ASSUME TypeOK, NEW p \in Procs,
           \/ StateUnreadable(p) \/ StateFails(p) \/ RunFails(p) \/ ExcludeChat(p)
           \/ RecordSyncSuccess(p)
    PROVE  TypeOK'
  <1>0. walk[p] \in Walk /\ walk[p].cont \in Containers
    BY DEF TypeOK, StateUnreadable, StateFails, RunFails, ExcludeChat,
           RecordSyncSuccess
  <1>1. CASE StateUnreadable(p)
    BY <1>1, TypeFail DEF TypeOK, StateUnreadable, teams, database
  <1>2. CASE StateFails(p)
    BY <1>2, TypeFail, TypeDisturb DEF TypeOK, StateFails, teams, database
  <1>3. CASE RunFails(p)
    BY <1>0, <1>3, TypeFail, TypeDisturb, TypeRecordFailure DEF TypeOK, RunFails, teams
  <1>4. CASE ExcludeChat(p)
    <2>1. excluded' \in SUBSET Chats
      BY <1>4 DEF TypeOK, ExcludeChat
    <2>2. QED
      BY <1>0, <1>4, <2>1, TypeFail, TypeDisturb, TypeRecordFailure
      DEF TypeOK, ExcludeChat, teams
  <1>5. CASE RecordSyncSuccess(p)
    <2>1. SucceededState(sync[walk[p].cont], walk[p].started) \in State
      BY <1>0, TypeSucceeded DEF TypeOK, Walk
    <2>2. sync' \in [Containers -> State]
      BY <1>0, <1>5, <2>1 DEF TypeOK, RecordSyncSuccess
    <2>3. QED
      BY <1>5, <2>2, TypeReturn DEF TypeOK, RecordSyncSuccess, teams, command
  <1>6. QED
    BY <1>1, <1>2, <1>3, <1>4, <1>5

LEMMA TypeFetch ==
    ASSUME TypeOK, NEW p \in Procs,
           \/ \E m \in Messages : FetchURL(p, m)
           \/ FetchReturns(p) \/ FetchFails(p) \/ Crash(p)
    PROVE  TypeOK'
  <1>1. ASSUME NEW m \in Messages, FetchURL(p, m) PROVE TypeOK'
    <2> DEFINE e == [root |-> m, msgs |-> {CopyOf(m)}, rest |-> Thread(m) \ {m},
                     more |-> TRUE, ats |-> {shown[m]}, place |-> {shown[m]}]
               end == TRUE
               w == [NoWalk EXCEPT !.cont = Home[m], !.final = end, !.held = time]
    <2>1. e \in Entry
      BY CopyOfType DEF TypeOK, Entry, Thread
    <2>2. Home[m] \in Containers
      BY TeamsAssumption
    <2>3. /\ page' = [page EXCEPT ![p] = {e}]
          /\ walk' = [walk EXCEPT ![p] = w]
          /\ pc' = [pc EXCEPT ![p] = "apply"]
          /\ UNCHANGED <<teams, database, command, faults>>
      BY <1>1 DEF FetchURL
    <2>4. end \in BOOLEAN /\ time \in Int
      BY DEF TypeOK
    <2> HIDE DEF e, end
    <2>5. w \in Walk
      BY <2>2, <2>4, NoWalkType, WalkFetches, Zenon
    <2>6. w.cont = Home[m]
      BY NoWalkType DEF Walk
    <2> HIDE DEF w
    <2>7. QED
      BY <2>1, <2>2, <2>3, <2>5, <2>6 DEF TypeOK, Steps, teams, database, command
  <1>2. CASE FetchReturns(p)
    BY <1>2, TypeReturn DEF TypeOK, FetchReturns, teams, database, command
  <1>3. CASE FetchFails(p)
    BY <1>3, TypeReturn, TypeDisturb DEF TypeOK, FetchFails, teams, database, command
  <1>4. CASE Crash(p)
    BY <1>4, TypeReturn, TypeDisturb DEF TypeOK, Crash, teams, database
  <1>5. QED
    BY <1>1, <1>2, <1>3, <1>4

LEMMA TypeNext == ASSUME TypeOK, [Next]_vars PROVE TypeOK'
  <1>1. CASE UNCHANGED vars
    BY <1>1 DEF TypeOK, vars, teams, database, command
  <1>2. CASE Service
    BY <1>2, TypeService
  <1>3. ASSUME NEW p \in Procs, Work(p) PROVE TypeOK'
    <2>1. ASSUME NEW g \in Groups, SyncGroup(p, g) PROVE TypeOK'
      BY <2>1, TypeCommand
    <2>2. ASSUME NEW c \in Containers, SkipExcluded(p, c) \/ SyncContainer(p, c)
          PROVE  TypeOK'
      BY <2>2, TypeCommand
    <2>3. CASE ReadState(p)
      BY <2>3, TypeRead
    <2>4. CASE StateUnreadable(p) \/ RecordSyncSuccess(p)
      BY <2>4, TypeRunEnds
    <2>5. CASE ListPage(p)
      BY <2>5, TypeList
    <2>6. CASE ListEmpty(p)
      BY <2>6, TypeListEnds
    <2>7. CASE UpsertMessage(p)
      BY <2>7, TypeUpsert
    <2>8. CASE RepliesPage(p)
      BY <2>8, TypeReplies
    <2>9. CASE ThreadDone(p)
      BY <2>9, TypeThreadDone
    <2>10. CASE FetchReturns(p)
      BY <2>10, TypeFetch
    <2>11. QED
      BY <1>3, <2>1, <2>2, <2>3, <2>4, <2>5, <2>6, <2>7, <2>8, <2>9, <2>10 DEF Work
  <1>4. ASSUME NEW p \in Procs, Failure(p) PROVE TypeOK'
    <2>1. CASE GroupFails(p)
      BY <2>1, TypeCommand
    <2>2. CASE StateFails(p) \/ RunFails(p) \/ ExcludeChat(p)
      BY <2>2, TypeRunEnds
    <2>3. CASE ListEmptyBody(p)
      BY <2>3, TypeListEnds
    <2>4. CASE RepliesEmptyBody(p)
      BY <2>4, TypeReplies
    <2>5. CASE FetchFails(p) \/ Crash(p)
      BY <2>5, TypeFetch
    <2>6. QED
      BY <1>4, <2>1, <2>2, <2>3, <2>4, <2>5 DEF Failure
  <1>5. ASSUME NEW p \in Procs, Operator(p) PROVE TypeOK'
    <2>1. ASSUME NEW G \in {Groups} \cup {{g} : g \in Groups}, SyncCommand(p, G)
          PROVE  TypeOK'
      BY <2>1, TypeCommand
    <2>2. ASSUME NEW m \in Messages, FetchURL(p, m) PROVE TypeOK'
      BY <2>2, TypeFetch
    <2>3. QED
      BY <1>5, <2>1, <2>2 DEF Operator
  <1>6. QED
    BY <1>1, <1>2, <1>3, <1>4, <1>5 DEF Next

\* Every variable keeps its type, and a process that is not idle works on a
\* container: whatever the code of internal/sync and internal/store does next.
THEOREM TypeCorrect == Spec => []TypeOK
  <1>1. Init => TypeOK
    BY TypeInit
  <1>2. TypeOK /\ [Next]_vars => TypeOK'
    BY TypeNext
  <1>3. QED
    BY <1>1, <1>2, PTL DEF Spec

-----------------------------------------------------------------------------
(* Excluded chats *)

\* At most one process, and it syncs.
OneSyncer == Fetchers = {} /\ \A p, q \in Procs : p = q

\* What a process has fetched belongs to the container it works on.
PagesAtHome ==
    \A p \in Procs : \A e \in page[p] :
        /\ \A msg \in e.msgs : Home[msg.id] = walk[p].cont
        /\ \A m \in e.rest : Home[m] = walk[p].cont

IdleHoldsNothing == \A p \in Procs : pc[p] = "idle" => page[p] = {}

RunsNotExcluded == \A p \in Procs : pc[p] # "idle" => walk[p].cont \notin excluded

ExclusionInv == TypeOK /\ PagesAtHome /\ IdleHoldsNothing /\ RunsNotExcluded

\* The parts of ExclusionInv that are not about types.
Kept == PagesAtHome /\ IdleHoldsNothing /\ RunsNotExcluded

LEMMA ExclusionInit == ASSUME Init PROVE ExclusionInv
  BY TypeInit
  DEF Init, ExclusionInv, PagesAtHome, IdleHoldsNothing, RunsNotExcluded

\* Steps that touch neither a page, nor a walk, nor the exclusions.
LEMMA ExclusionUnchanged ==
    ASSUME ExclusionInv, UNCHANGED <<pc, page, excluded, walk>>
    PROVE  Kept'
  BY DEF Kept, ExclusionInv, PagesAtHome, IdleHoldsNothing, RunsNotExcluded

\* Steps of a run in which nothing is fetched.
LEMMA ExclusionGoesOn ==
    ASSUME ExclusionInv, NEW p \in Procs, pc[p] # "idle",
           NEW step \in Steps \ {"idle"}, pc' = [pc EXCEPT ![p] = step],
           NEW S \in SUBSET page[p], page' = [page EXCEPT ![p] = S],
           UNCHANGED excluded,
           \A q \in Procs : walk'[q].cont = walk[q].cont
    PROVE  Kept'
  BY DEF Kept, ExclusionInv, TypeOK, PagesAtHome, IdleHoldsNothing, RunsNotExcluded

\* With one process, nobody works on anything after Return.
LEMMA ExclusionReturn ==
    ASSUME OneSyncer, ExclusionInv, NEW p \in Procs, Return(p) PROVE Kept'
  BY DEF Kept, OneSyncer, ExclusionInv, TypeOK, Return, PagesAtHome,
         IdleHoldsNothing, RunsNotExcluded

LEMMA ExclusionStarts ==
    ASSUME ExclusionInv, NEW p \in Procs, NEW c \in Containers, SyncContainer(p, c)
    PROVE  Kept'
  <1>1. page[p] = {} /\ c \notin excluded /\ UNCHANGED <<page, excluded>>
    BY DEF ExclusionInv, IdleHoldsNothing, SyncContainer, database
  <1> DEFINE w == [NoWalk EXCEPT !.cont = c, !.started = time]
  <1>2. w.cont = c
    <2>1. time \in Int
      BY DEF ExclusionInv, TypeOK
    <2>2. QED
      BY <2>1, NoWalkType, WalkStarts, Zenon
  <1>3. walk' = [walk EXCEPT ![p] = w] /\ pc' = [pc EXCEPT ![p] = "begin"]
    BY DEF SyncContainer
  <1> HIDE DEF w
  <1>4. QED
    BY <1>1, <1>2, <1>3
    DEF Kept, ExclusionInv, TypeOK, PagesAtHome, IdleHoldsNothing, RunsNotExcluded

LEMMA ExclusionReads ==
    ASSUME ExclusionInv, NEW p \in Procs, ReadState(p) PROVE Kept'
  <1> DEFINE s == Since(sync[walk[p].cont], walk[p].started)
  <1>1. walk[p] \in Walk /\ pc[p] # "idle"
    BY DEF ExclusionInv, TypeOK, ReadState
  <1>2. walk' = [walk EXCEPT ![p] = [walk[p] EXCEPT !.since = s]]
    BY DEF ExclusionInv, TypeOK, ReadState
  <1> HIDE DEF s
  <1>3. [walk[p] EXCEPT !.since = s].cont = walk[p].cont
    BY <1>1 DEF Walk
  <1>4. \A q \in Procs : walk'[q].cont = walk[q].cont
    BY <1>2, <1>3 DEF ExclusionInv, TypeOK
  <1>5. pc' = [pc EXCEPT ![p] = "list"] /\ UNCHANGED <<page, excluded>>
    BY DEF ReadState, database
  <1>6. QED
    BY <1>1, <1>4, <1>5
    DEF Kept, ExclusionInv, TypeOK, PagesAtHome, IdleHoldsNothing, RunsNotExcluded

\* A thread that is listed belongs to the container.
LEMMA ExclusionLists ==
    ASSUME ExclusionInv, NEW p \in Procs, ListPage(p) PROVE Kept'
  <1> DEFINE candidates == Candidates(walk[p].cont, walk[p])
  <1>1. PICK S \in SUBSET candidates, last \in candidates :
            /\ last \in S
            /\ \E inline \in SUBSET (UNION {Thread(r) \ {r} : r \in S}) :
                 page' = [page EXCEPT ![p] = {EntryOf(r, inline) : r \in S}]
            /\ walk' = [walk EXCEPT ![p].listed = @ \cup S,
                                    ![p].lowest = Times(Thread(last)),
                                    ![p].final = (S = candidates),
                                    ![p].held = time]
    BY Zenon DEF ListPage
  <1>2. PICK inline \in SUBSET (UNION {Thread(r) \ {r} : r \in S}) :
            page' = [page EXCEPT ![p] = {EntryOf(r, inline) : r \in S}]
    BY <1>1
  <1>3. \A r \in S : r \in Messages /\ Home[r] = walk[p].cont
    BY DEF Candidates, Threads
  <1> DEFINE end == (S = candidates)
             w == [walk[p] EXCEPT !.listed = @ \cup S,
                                  !.lowest = Times(Thread(last)),
                                  !.final = end,
                                  !.held = time]
  <1>4. walk' = [walk EXCEPT ![p] = w]
    BY <1>1 DEF ExclusionInv, TypeOK
  <1> HIDE DEF end, candidates
  <1>5. w.cont = walk[p].cont
    BY DEF ExclusionInv, TypeOK, Walk
  <1> HIDE DEF w
  <1>6. \A q \in Procs : walk'[q].cont = walk[q].cont
    BY <1>4, <1>5 DEF ExclusionInv, TypeOK
  <1>7. ASSUME NEW r \in S
        PROVE  /\ \A msg \in EntryOf(r, inline).msgs : Home[msg.id] = walk[p].cont
               /\ \A m \in EntryOf(r, inline).rest : Home[m] = walk[p].cont
    <2>1. \A m \in Thread(r) : Home[m] = Home[r]
      BY <1>3, TeamsAssumption DEF Thread
    <2>2. r \in Messages /\ Home[r] = walk[p].cont
      BY <1>3
    <2>3. QED
      BY <2>1, <2>2 DEF EntryOf, CopyOf
  <1>8. pc[p] # "idle" /\ pc' = [pc EXCEPT ![p] = "apply"] /\ UNCHANGED excluded
    BY DEF ListPage, database
  <1>9. QED
    BY <1>2, <1>6, <1>7, <1>8
    DEF Kept, ExclusionInv, TypeOK, PagesAtHome, IdleHoldsNothing, RunsNotExcluded

\* A thread replaced by one of the same container.
LEMMA ExclusionReplace ==
    ASSUME ExclusionInv, NEW p \in Procs, NEW e \in page[p], NEW new,
           Replace(p, e, new),
           \A msg \in new.msgs : Home[msg.id] = walk[p].cont,
           \A m \in new.rest : Home[m] = walk[p].cont,
           UNCHANGED <<pc, walk, excluded>>
    PROVE  Kept'
  BY DEF Kept, ExclusionInv, TypeOK, Replace, PagesAtHome, IdleHoldsNothing,
         RunsNotExcluded

LEMMA ExclusionUpsert ==
    ASSUME ExclusionInv, NEW p \in Procs, UpsertMessage(p) PROVE Kept'
  <1>1. PICK e \in page[p] : \E msg \in e.msgs :
            Replace(p, e, [e EXCEPT !.msgs = @ \ {msg}])
    BY DEF UpsertMessage
  <1>2. PICK msg \in e.msgs : Replace(p, e, [e EXCEPT !.msgs = @ \ {msg}])
    BY <1>1
  <1> DEFINE new == [e EXCEPT !.msgs = @ \ {msg}]
  <1>3. e \in Entry
    BY DEF ExclusionInv, TypeOK
  <1>4. new.msgs \subseteq e.msgs /\ new.rest = e.rest
    BY <1>3 DEF Entry
  <1>5. /\ \A x \in e.msgs : Home[x.id] = walk[p].cont
        /\ \A m \in e.rest : Home[m] = walk[p].cont
    BY DEF ExclusionInv, PagesAtHome
  <1>6. UNCHANGED <<pc, walk, excluded>>
    BY DEF UpsertMessage
  <1> HIDE DEF new
  <1>7. Replace(p, e, new)
    BY <1>2 DEF new
  <1>8. QED
    BY <1>4, <1>5, <1>6, <1>7, ExclusionReplace

LEMMA ExclusionReplies ==
    ASSUME ExclusionInv, NEW p \in Procs, RepliesPage(p) \/ RepliesEmptyBody(p)
    PROVE  Kept'
  <1>1. PICK e \in page[p] :
            \/ Replace(p, e, [e EXCEPT !.msgs = {CopyOf(m) : m \in e.rest}, !.rest = {}])
            \/ e.msgs = {} /\ Replace(p, e, [e EXCEPT !.rest = {}])
    BY DEF RepliesPage, RepliesEmptyBody
  <1>2. e \in Entry /\ UNCHANGED <<pc, walk, excluded>>
    BY DEF ExclusionInv, TypeOK, RepliesPage, RepliesEmptyBody, database
  <1>3. \A m \in e.rest : Home[m] = walk[p].cont
    BY DEF ExclusionInv, PagesAtHome
  <1>4. CASE Replace(p, e, [e EXCEPT !.msgs = {CopyOf(m) : m \in e.rest}, !.rest = {}])
    <2> DEFINE new == [e EXCEPT !.msgs = {CopyOf(m) : m \in e.rest}, !.rest = {}]
    <2>1. new.msgs = {CopyOf(m) : m \in e.rest} /\ new.rest = {}
      BY <1>2 DEF Entry
    <2> HIDE DEF new
    <2>2. \A msg \in new.msgs : Home[msg.id] = walk[p].cont
      BY <1>3, <2>1 DEF CopyOf
    <2>3. Replace(p, e, new)
      BY <1>4 DEF new
    <2>4. QED
      BY <1>2, <2>1, <2>2, <2>3, ExclusionReplace
  <1>5. CASE e.msgs = {} /\ Replace(p, e, [e EXCEPT !.rest = {}])
    <2> DEFINE new == [e EXCEPT !.rest = {}]
    <2>1. new.msgs = {} /\ new.rest = {}
      BY <1>2, <1>5 DEF Entry
    <2> HIDE DEF new
    <2>2. Replace(p, e, new)
      BY <1>5 DEF new
    <2>3. QED
      BY <1>2, <2>1, <2>2, ExclusionReplace
  <1>6. QED
    BY <1>1, <1>4, <1>5

LEMMA ExclusionThreadDone ==
    ASSUME ExclusionInv, NEW p \in Procs, ThreadDone(p) PROVE Kept'
  <1>1. PICK S \in SUBSET page[p], step \in Steps \ {"idle"} :
            /\ page' = [page EXCEPT ![p] = S]
            /\ pc' = [pc EXCEPT ![p] = step]
    BY DEF ThreadDone, Steps
  <1>2. pc[p] # "idle" /\ UNCHANGED <<excluded, walk>>
    BY DEF ThreadDone, database
  <1>3. QED
    BY <1>1, <1>2, ExclusionGoesOn

LEMMA ExclusionNext ==
    ASSUME OneSyncer, ExclusionInv, [Next]_vars PROVE ExclusionInv'
  <1>1. TypeOK'
    BY TypeNext DEF ExclusionInv
  <1>2. SUFFICES Kept'
    BY <1>1 DEF ExclusionInv, Kept
  <1>3. CASE UNCHANGED vars
    BY <1>3, ExclusionUnchanged DEF vars, database
  <1>4. CASE Service
    BY <1>4, ExclusionUnchanged DEF Service, Tick, Write, Show, database
  <1>5. ASSUME NEW p \in Procs, Work(p) PROVE Kept'
    <2>1. ASSUME NEW g \in Groups, SyncGroup(p, g) PROVE Kept'
      BY <2>1, ExclusionUnchanged DEF SyncGroup, database
    <2>2. ASSUME NEW c \in Containers, SkipExcluded(p, c) PROVE Kept'
      BY <2>2, ExclusionUnchanged DEF SkipExcluded, database
    <2>3. ASSUME NEW c \in Containers, SyncContainer(p, c) PROVE Kept'
      BY <2>3, ExclusionStarts
    <2>4. CASE ReadState(p)
      BY <2>4, ExclusionReads
    <2>5. CASE StateUnreadable(p)
      BY <2>5, ExclusionReturn DEF StateUnreadable, Fail
    <2>6. CASE ListPage(p)
      BY <2>6, ExclusionLists
    <2>7. CASE ListEmpty(p)
      BY <2>7 DEF ListEmpty, database, Kept, ExclusionInv, TypeOK, PagesAtHome,
                  IdleHoldsNothing, RunsNotExcluded
    <2>8. CASE UpsertMessage(p)
      BY <2>8, ExclusionUpsert
    <2>9. CASE RepliesPage(p)
      BY <2>9, ExclusionReplies
    <2>10. CASE ThreadDone(p)
      BY <2>10, ExclusionThreadDone
    <2>11. CASE RecordSyncSuccess(p)
      BY <2>11, ExclusionReturn DEF RecordSyncSuccess
    <2>12. CASE FetchReturns(p)
      BY <2>12 DEF FetchReturns, OneSyncer
    <2>13. QED
      BY <1>5, <2>1, <2>2, <2>3, <2>4, <2>5, <2>6, <2>7, <2>8, <2>9, <2>10, <2>11,
         <2>12 DEF Work
  <1>6. ASSUME NEW p \in Procs, Failure(p) PROVE Kept'
    <2>1. CASE GroupFails(p)
      BY <2>1, ExclusionUnchanged DEF GroupFails, database
    <2>2. CASE StateFails(p) \/ RunFails(p) \/ ExcludeChat(p)
      BY <2>2, ExclusionReturn DEF StateFails, RunFails, ExcludeChat, Fail
    <2>3. CASE ListEmptyBody(p)
      BY <2>3 DEF ListEmptyBody, database, Kept, ExclusionInv, TypeOK, PagesAtHome,
                  IdleHoldsNothing, RunsNotExcluded
    <2>4. CASE RepliesEmptyBody(p)
      BY <2>4, ExclusionReplies
    <2>5. CASE FetchFails(p)
      BY <2>5 DEF FetchFails, OneSyncer
    <2>6. CASE Crash(p)
      BY <2>6, ExclusionReturn DEF Crash
    <2>7. QED
      BY <1>6, <2>1, <2>2, <2>3, <2>4, <2>5, <2>6 DEF Failure
  <1>7. ASSUME NEW p \in Procs, Operator(p) PROVE Kept'
    <2>1. ASSUME NEW G, SyncCommand(p, G) PROVE Kept'
      BY <2>1, ExclusionUnchanged DEF SyncCommand, database
    <2>2. ASSUME NEW m \in Messages, FetchURL(p, m) PROVE Kept'
      BY <2>2 DEF FetchURL, OneSyncer
    <2>3. QED
      BY <1>7, <2>1, <2>2 DEF Operator
  <1>8. QED
    BY <1>3, <1>4, <1>5, <1>6, <1>7 DEF Next

\* The only step that writes a row is UpsertMessage, on what its run fetched.
LEMMA ExclusionRows ==
    ASSUME ExclusionInv, [Next]_vars
    PROVE  \A m \in Messages : Home[m] \in excluded => rows'[m] = rows[m]
  <1>1. ASSUME NEW p \in Procs, UpsertMessage(p)
        PROVE  \A m \in Messages : Home[m] \in excluded => rows'[m] = rows[m]
    <2>1. PICK e \in page[p] : \E msg \in e.msgs :
              rows' = [rows EXCEPT ![msg.id] = msg.at]
      BY <1>1 DEF UpsertMessage
    <2>2. PICK msg \in e.msgs : rows' = [rows EXCEPT ![msg.id] = msg.at]
      BY <2>1
    <2>3. Home[msg.id] = walk[p].cont
      BY DEF ExclusionInv, PagesAtHome
    <2>4. walk[p].cont \notin excluded
      BY <1>1 DEF ExclusionInv, RunsNotExcluded, UpsertMessage
    <2>5. QED
      BY <2>2, <2>3, <2>4 DEF ExclusionInv, TypeOK
  <1>2. \/ UNCHANGED rows
        \/ \E p \in Procs : UpsertMessage(p)
    <2>1. CASE UNCHANGED vars
      BY <2>1 DEF vars, database
    <2>2. CASE Service
      BY <2>2 DEF Service, Tick, Write, Show, database
    <2>3. ASSUME NEW p \in Procs, Work(p), ~UpsertMessage(p) PROVE UNCHANGED rows
      BY <2>3 DEF Work, SyncGroup, SkipExcluded, SyncContainer, ReadState,
             StateUnreadable, ListPage, ListEmpty, RepliesPage, ThreadDone,
             RecordSyncSuccess, FetchReturns, database
    <2>4. ASSUME NEW p \in Procs, Failure(p) PROVE UNCHANGED rows
      BY <2>4 DEF Failure, GroupFails, StateFails, ListEmptyBody, RepliesEmptyBody,
             RunFails, ExcludeChat, FetchFails, Crash, database
    <2>5. ASSUME NEW p \in Procs, Operator(p) PROVE UNCHANGED rows
      BY <2>5 DEF Operator, SyncCommand, FetchURL, database
    <2>6. QED
      BY <2>1, <2>2, <2>3, <2>4, <2>5 DEF Next
  <1>3. QED
    BY <1>1, <1>2

\* With one process, no step ever changes a row of an excluded chat, whatever
\* fails: SyncChats asks IsChatExcluded before each chat, and a run stores only
\* messages of its own container.
THEOREM ExcludedStayUntouched ==
    ASSUME OneSyncer PROVE Spec => ExcludedUntouched
  <1>1. Init => ExclusionInv
    BY ExclusionInit
  <1>2. ExclusionInv /\ [Next]_vars => ExclusionInv'
    BY ExclusionNext
  <1>3. ExclusionInv /\ [Next]_vars
            => [\A m \in Messages : Home[m] \in excluded => rows'[m] = rows[m]]_vars
    BY ExclusionRows
  <1>4. QED
    BY <1>1, <1>2, <1>3, PTL DEF Spec, ExcludedUntouched

=============================================================================
