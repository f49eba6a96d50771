------------------------- MODULE CalendarSyncProofs -------------------------
(***************************************************************************)
(* Theorems about CalendarWindows, for every length of a month, horizon    *)
(* and window size, and about CalendarSync, which uses them: the windows   *)
(* of a tick, type correctness, the masters of stored events for any       *)
(* number of processes, and for one process what the links stand for and   *)
(* what becomes of deletions.                                              *)
(***************************************************************************)
EXTENDS CalendarSync, FiniteSetTheorems, TLAPS

-----------------------------------------------------------------------------
(* The windows *)

\* Every distance falls into one slot of size h, and into no other.
LEMMA Slot ==
    ASSUME NEW d \in Nat, NEW h \in Nat \ {0}
    PROVE  \E i \in Nat : i * h <= d /\ d < (i + 1) * h
<1>1. d \div h \in Nat /\ (d \div h) * h <= d /\ d < (d \div h) * h + h
  OBVIOUS
<1> DEFINE i == d \div h
<1>2. (i + 1) * h = i * h + h
  BY <1>1
<1> QED
  BY <1>1, <1>2

LEMMA OneSlot ==
    ASSUME NEW d \in Int, NEW h \in Nat \ {0}, NEW i \in Nat, NEW j \in Nat,
           i * h <= d, d < (i + 1) * h, j * h <= d, d < (j + 1) * h
    PROVE  i = j
<1>1. ASSUME NEW a \in Nat, NEW b \in Nat, a < b PROVE (a + 1) * h <= b * h
  BY <1>1
<1>2. ~(i < j)
  BY <1>1
<1>3. ~(j < i)
  BY <1>1
<1> QED
  BY <1>2, <1>3

LEMMA SlotIndex ==
    ASSUME NEW i \in Nat, NEW h \in Nat \ {0}
    PROVE  i <= i * h /\ i * h \in Nat /\ (i + 1) * h \in Nat /\ (i + 1) * h = i * h + h
OBVIOUS

\* The pieces of a horizon, by kind.
History(cur, h, i) == Window(cur - (i + 1) * h, cur - i * h)
Recent(cur, r, i) == Window(cur + i * r, clip(cur + (i + 1) * r, cur + 2 * MonthLen))
Future(cur, f, i) == Window(cur + 2 * MonthLen + i * f, cur + 2 * MonthLen + (i + 1) * f)

Holds(w, t) == w.start <= t /\ t < w.end

\* Every window is a piece.
LEMMA Pieces ==
    ASSUME NEW cur \in Int, NEW hs \in Int, NEW he \in Int,
           NEW r \in Nat \ {0}, NEW h \in Nat \ {0}, NEW f \in Nat \ {0},
           NEW w \in Cut(cur, hs, he, r, h, f)
    PROVE  \E i \in Nat : \/ w = History(cur, h, i)
                          \/ w = Recent(cur, r, i)
                          \/ w = Future(cur, f, i)
<1> USE MonthAssumption
<1> DEFINE steps == 0 .. (he - hs + 2 * MonthLen)
<1>0. steps \subseteq Nat
  OBVIOUS
<1>1. CASE w \in {Window(cur - (i + 1) * h, cur - i * h) : i \in {j \in steps : cur - j * h > hs}}
  BY <1>0, <1>1 DEF History
<1>2. CASE w \in {Window(cur + i * r, clip(cur + (i + 1) * r, cur + 2 * MonthLen)) :
                    i \in {j \in steps : cur + j * r < cur + 2 * MonthLen}}
  BY <1>0, <1>2 DEF Recent
<1>3. CASE w \in {Window(cur + 2 * MonthLen + i * f, cur + 2 * MonthLen + (i + 1) * f) :
                    i \in {j \in steps : cur + 2 * MonthLen + j * f < he}}
  BY <1>0, <1>3 DEF Future
<1> QED
  BY <1>1, <1>2, <1>3 DEF Cut

\* Two pieces that hold one tick are the same.
LEMMA OnePiece ==
    ASSUME NEW cur \in Int, NEW t \in Int,
           NEW r \in Nat \ {0}, NEW h \in Nat \ {0}, NEW f \in Nat \ {0},
           NEW i \in Nat, NEW j \in Nat, NEW v, NEW w, Holds(v, t), Holds(w, t),
           \/ v = History(cur, h, i) \/ v = Recent(cur, r, i) \/ v = Future(cur, f, i),
           \/ w = History(cur, h, j) \/ w = Recent(cur, r, j) \/ w = Future(cur, f, j)
    PROVE  v = w
<1> DEFINE mid == cur + 2 * MonthLen
<1>m. mid \in Int /\ cur < mid
  BY MonthAssumption
<1> HIDE DEF mid
<1> DEFINE Kind(x, k) == \/ x = History(cur, h, k) /\ t < cur
                            /\ k * h <= cur - 1 - t /\ cur - 1 - t < (k + 1) * h
                         \/ x = Recent(cur, r, k) /\ cur <= t /\ t < mid
                            /\ k * r <= t - cur /\ t - cur < (k + 1) * r
                         \/ x = Future(cur, f, k) /\ mid <= t
                            /\ k * f <= t - mid /\ t - mid < (k + 1) * f
<1>1. ASSUME NEW k \in Nat, NEW x, Holds(x, t),
             x = History(cur, h, k) \/ x = Recent(cur, r, k) \/ x = Future(cur, f, k)
      PROVE  Kind(x, k)
  <2>1. CASE x = History(cur, h, k)
    <3>1. x.start = cur - (k + 1) * h /\ x.end = cur - k * h
      BY <2>1 DEF History, Window
    <3> QED
      BY <1>1, <2>1, <3>1, SlotIndex DEF Holds
  <2>2. CASE x = Recent(cur, r, k)
    <3>1. x.start = cur + k * r /\ x.end = clip(cur + (k + 1) * r, mid)
      BY <2>2 DEF Recent, Window, mid
    <3>2. x.end <= mid /\ x.end <= cur + (k + 1) * r
      BY <3>1, <1>m, SlotIndex DEF clip
    <3>3. cur + k * r <= t /\ t < mid /\ t < cur + (k + 1) * r
      BY <1>1, <3>1, <3>2, <1>m, SlotIndex DEF Holds, clip
    <3> QED
      BY <2>2, <3>3, <1>m, SlotIndex
  <2>3. CASE x = Future(cur, f, k)
    <3>1. x.start = mid + k * f /\ x.end = mid + (k + 1) * f
      BY <2>3 DEF Future, Window, mid
    <3> QED
      BY <1>1, <2>3, <3>1, <1>m, SlotIndex DEF Holds
  <2> QED
    BY <1>1, <2>1, <2>2, <2>3
<1>2. Kind(v, i) /\ Kind(w, j)
  BY <1>1
<1>3. CASE t < cur
  <2>1. i = j
    BY <1>2, <1>3, <1>m, OneSlot
  <2> QED
    BY <1>2, <1>3, <1>m, <2>1
<1>4. CASE cur <= t /\ t < mid
  <2>1. i = j
    BY <1>2, <1>4, <1>m, OneSlot
  <2> QED
    BY <1>2, <1>4, <1>m, <2>1
<1>5. CASE mid <= t
  <2>1. i = j
    BY <1>2, <1>5, <1>m, OneSlot
  <2> QED
    BY <1>2, <1>5, <1>m, <2>1
<1> QED
  BY <1>3, <1>4, <1>5, <1>m

\* Every tick of the horizon is in a window.
LEMMA SomePiece ==
    ASSUME NEW cur \in Int, NEW hs \in Int, NEW he \in Int, NEW t \in Int,
           NEW r \in Nat \ {0}, NEW h \in Nat \ {0}, NEW f \in Nat \ {0},
           hs <= t, t < he, hs <= cur + MonthLen, cur < he
    PROVE  \E w \in Cut(cur, hs, he, r, h, f) : Holds(w, t)
<1> DEFINE mid == cur + 2 * MonthLen
           steps == 0 .. (he - hs + 2 * MonthLen)
<1>m. /\ mid \in Int /\ cur < mid /\ mid = cur + 2 * MonthLen
      /\ MonthLen \in Nat
      /\ \A i \in Nat : i <= he - hs + 2 * MonthLen => i \in steps
  BY MonthAssumption
<1> HIDE DEF mid, steps
<1>1. CASE t < cur
  <2>0. cur - 1 - t \in Nat
    BY <1>1
  <2>1. PICK i \in Nat : i * h <= cur - 1 - t /\ cur - 1 - t < (i + 1) * h
    BY <2>0, Slot
  <2>2. i <= i * h /\ i * h \in Nat /\ (i + 1) * h \in Nat
    BY SlotIndex
  <2>3. i \in steps /\ cur - i * h > hs
    BY <2>1, <2>2, <1>1, <1>m
  <2> DEFINE w == Window(cur - (i + 1) * h, cur - i * h)
  <2>4. w \in Cut(cur, hs, he, r, h, f)
    BY <2>3 DEF Cut, steps
  <2>5. Holds(w, t)
    BY <2>1, <2>2 DEF Holds, Window
  <2> QED
    BY <2>4, <2>5
<1>2. CASE cur <= t /\ t < mid
  <2>0. t - cur \in Nat
    BY <1>2
  <2>1. PICK i \in Nat : i * r <= t - cur /\ t - cur < (i + 1) * r
    BY <2>0, Slot
  <2>2. i <= i * r /\ i * r \in Nat /\ (i + 1) * r \in Nat
    BY SlotIndex
  <2>3. i \in steps /\ cur + i * r < mid
    BY <2>1, <2>2, <1>2, <1>m
  <2> DEFINE w == Window(cur + i * r, clip(cur + (i + 1) * r, mid))
  <2>4. w \in Cut(cur, hs, he, r, h, f)
    BY <2>3 DEF Cut, steps, mid
  <2>5. Holds(w, t)
    BY <2>1, <2>2, <1>2, <1>m DEF Holds, Window, clip
  <2> QED
    BY <2>4, <2>5
<1>3. CASE mid <= t
  <2>0. t - mid \in Nat
    BY <1>3, <1>m
  <2>1. PICK i \in Nat : i * f <= t - mid /\ t - mid < (i + 1) * f
    BY <2>0, Slot
  <2>2. i <= i * f /\ i * f \in Nat /\ (i + 1) * f \in Nat
    BY SlotIndex
  <2>3. i \in steps /\ mid + i * f < he
    BY <2>1, <2>2, <1>3, <1>m
  <2> DEFINE w == Window(mid + i * f, mid + (i + 1) * f)
  <2>4. w \in Cut(cur, hs, he, r, h, f)
    BY <2>3 DEF Cut, steps, mid
  <2>5. Holds(w, t)
    BY <2>1, <2>2, <1>m DEF Holds, Window
  <2> QED
    BY <2>4, <2>5
<1> QED
  BY <1>1, <1>2, <1>3, <1>m

\* The month of a time.
LEMMA MonthStart ==
    ASSUME NEW at \in Int
    PROVE  monthStart(at) \in Int /\ monthStart(at) <= at /\ at < monthStart(at) + MonthLen
BY MonthAssumption DEF monthStart

LEMMA SizePositive ==
    ASSUME NEW m \in Int, NEW d \in Nat \ {0}
    PROVE  size(m, d) \in Nat \ {0}
<1> DEFINE k == IF m <= 0 THEN d ELSE m
<1>1. k \in Nat \ {0}
  OBVIOUS
<1> HIDE DEF k
<1>2. MonthLen * k \in Nat \ {0}
  BY <1>1, MonthAssumption
<1> QED
  BY <1>2 DEF size, k

\* Every tick of the horizon is in exactly one window: on any day of the month,
\* for any horizon and any size of the windows, a size that is not positive
\* included (Windows of window.go, "contiguous month-aligned windows").
THEOREM WindowsTile ==
    ASSUME NEW at \in Int, NEW past \in Nat, NEW future \in Nat \ {0},
           NEW recentMonths \in Int, NEW histMonths \in Int, NEW futureMonths \in Int
    PROVE  Tiles(at, past, future, recentMonths, histMonths, futureMonths)
<1> DEFINE cur == monthStart(at)
           r == size(recentMonths, 1)
           h == size(histMonths, 3)
           f == size(futureMonths, 3)
           ws == Cut(cur, at - past, at + future, r, h, f)
<1>1. cur \in Int /\ cur <= at /\ at < cur + MonthLen
  BY MonthStart
<1>2. r \in Nat \ {0} /\ h \in Nat \ {0} /\ f \in Nat \ {0}
  BY SizePositive
<1>3. ws = Windows(at, past, future, recentMonths, histMonths, futureMonths)
  BY DEF Windows
<1> HIDE DEF cur, r, h, f
<1>4. ASSUME NEW t \in (at - past) .. (at + future - 1)
      PROVE  Cardinality({w \in ws : w.start <= t /\ t < w.end}) = 1
  <2>1. PICK v \in ws : Holds(v, t)
    <3>1. at - past <= t /\ t < at + future /\ at - past <= cur + MonthLen /\ cur < at + future
          /\ t \in Int /\ at - past \in Int /\ at + future \in Int
      BY <1>1, MonthAssumption
    <3> QED
      BY <3>1, <1>1, <1>2, SomePiece
  <2>2. ASSUME NEW w \in ws, Holds(w, t) PROVE w = v
    <3>1. at - past \in Int /\ at + future \in Int /\ t \in Int
      OBVIOUS
    <3>2. PICK i \in Nat : w = History(cur, h, i) \/ w = Recent(cur, r, i) \/ w = Future(cur, f, i)
      BY <3>1, <1>1, <1>2, Pieces
    <3>3. PICK j \in Nat : v = History(cur, h, j) \/ v = Recent(cur, r, j) \/ v = Future(cur, f, j)
      BY <3>1, <1>1, <1>2, Pieces
    <3> HIDE DEF ws
    <3> QED
      BY <2>1, <2>2, <3>1, <3>2, <3>3, <1>1, <1>2, OnePiece
  <2>3. {w \in ws : w.start <= t /\ t < w.end} = {v}
    BY <2>1, <2>2 DEF Holds
  <2> QED
    BY <2>3, FS_Singleton
<1> HIDE DEF ws
<1> QED
  BY <1>3, <1>4 DEF Tiles

-----------------------------------------------------------------------------
(* The synchroniser *)

InHorizon == now \in FirstTick .. LastTick

LEMMA NowNext ==
    ASSUME InHorizon, [Next]_vars
    PROVE  InHorizon'
<1>1. CASE NewMonth
  BY <1>1, MonthAssumption, CalendarAssumption DEF NewMonth, InHorizon
<1>2. CASE UNCHANGED now
  BY <1>2 DEF InHorizon
<1>3. CASE (\E e \in Events, b \in Bounds, alive \in BOOLEAN : CalendarChange(e, b, alive))
           \/ \E w \in AllWindows : Expire(w)
  BY <1>3, <1>2 DEF CalendarChange, Expire
<1>4. CASE \E p \in Procs : Continue(p)
  BY <1>4, <1>2 DEF Continue, SyncWindow, Begin, FetchPage, FetchGone, FetchRefused, StoreEvent,
       FetchSeriesMaster, EventBounds, TombstoneCalendarEvent, SaveCalendarWindowNextLink,
       CommitCalendarWindowDeltaLink, RangePage, RangeNext, graph
<1>5. CASE \E p \in Procs : Failure(p)
  BY <1>5, <1>2 DEF Failure, FetchEmptyBody, FetchFails, ItemFails, CursorFails, RangeFails,
       Crash, graph
<1>6. CASE \E p \in Procs : Command(p)
  BY <1>6, <1>2 DEF Command, SyncWindows, SyncFull, SyncRange, graph
<1> QED
  BY <1>1, <1>2, <1>3, <1>4, <1>5, <1>6 DEF Next, Calendar, Command, Procs, vars, graph

\* At no time of a run is an instant of the horizon without its window or in two of
\* them, so that no event is left to nobody (EnsureWindows at every SyncAll).
THEOREM HorizonAlwaysTiled == Spec => []HorizonTiled
<1>1. Init => InHorizon
  BY CalendarAssumption DEF Init, InHorizon
<1>2. InHorizon /\ [Next]_vars => InHorizon'
  BY NowNext
<1>3. InHorizon => HorizonTiled
  <2> SUFFICES ASSUME InHorizon PROVE now \in TiledTicks
    BY DEF HorizonTiled
  <2>1. now \in FirstTick .. LastTick /\ now \in Int
    BY CalendarAssumption DEF InHorizon
  <2>2. ASSUME NEW past \in 1 .. 5, NEW future \in 1 .. 9, NEW recent \in 0 .. 3, NEW hist \in 1 .. 2
        PROVE  Tiles(now, past, future, recent, hist, hist)
    <3>1. past \in Nat /\ future \in Nat \ {0} /\ recent \in Int /\ hist \in Int
      OBVIOUS
    <3> QED
      BY <2>1, <3>1, WindowsTile
  <2> QED
    BY <2>1, <2>2 DEF TiledTicks
<1> QED
  BY <1>1, <1>2, <1>3, PTL DEF Spec

-----------------------------------------------------------------------------
(* Type correctness *)

\* What TypeOK says of the memory of one process.
Proper(m) ==
    /\ m \in Memory
    /\ m.pc \in {"begin", "fetch", "apply", "tombstone"} => m.window \in AllWindows
    /\ m.pc = "tombstone" <=> m.doomed # {}
    /\ m.pc = "idle" => m = [Idle EXCEPT !.queue = m.queue]

LEMMA TypeParts ==
    TypeOK <=> /\ now \in Nat /\ clock \in Nat
               /\ cal \in [Events -> Event]
               /\ left \in [AllWindows -> [Events -> Nat]]
               /\ floor \in [AllWindows -> Nat]
               /\ rows \in [Events -> Row]
               /\ masters \subseteq Masters
               /\ sync \in [AllWindows -> WindowState]
               /\ run = [p \in Procs |-> run[p]] /\ \A p \in Procs : Proper(run[p])
               /\ faults \in Nat
               /\ unfetched \subseteq Masters
BY DEF TypeOK, Proper

LEMMA LinkFacts ==
    /\ NoLink \in Link /\ NoLink.upto = 0 /\ NoLink.todo = {} /\ NoLink.paging = FALSE
    /\ \A n \in Nat : /\ DeltaLink(n) \in Link /\ DeltaLink(n).upto = n
                      /\ DeltaLink(n).todo = {} /\ DeltaLink(n).paging = FALSE
    /\ \A u \in Link : u.upto \in Nat /\ u.todo \subseteq Events /\ u.paging \in BOOLEAN
    /\ NoState \in WindowState
    /\ \A st \in WindowState : st.next \in Link /\ st.delta \in Nat
BY DEF NoLink, DeltaLink, Link, NoState, WindowState

LEMMA IdleProper ==
    ASSUME NEW Q \in SUBSET AllWindows
    PROVE  Proper([Idle EXCEPT !.queue = Q]) /\ Proper(Idle) /\ [Idle EXCEPT !.queue = Q].queue = Q
BY LinkFacts DEF Proper, Idle, Memory, Steps

\* A step that leaves p in the middle of a walk, or of a listing.
LEMMA Walker ==
    ASSUME NEW m \in Memory, m.doomed = {},
           \/ m.pc \in {"begin", "fetch", "apply"} /\ m.window \in AllWindows
           \/ m.pc \in {"list", "store"}
    PROVE  Proper(m)
BY DEF Proper

\* The memories the steps of a walk leave.
LEMMA EnterProper ==
    ASSUME NEW r \in Memory, r.doomed = {}, NEW w \in r.queue
    PROVE  Proper([r EXCEPT !.pc = "begin", !.queue = @ \ {w}, !.window = w, !.mayReset = TRUE])
<1>1. r.queue \subseteq AllWindows /\ w \in AllWindows
  BY DEF Memory
<1> DEFINE Q == r.queue \ {w}
           m == [r EXCEPT !.pc = "begin", !.queue = Q, !.window = w, !.mayReset = TRUE]
<1>2. Q \in SUBSET AllWindows
  BY <1>1
<1> HIDE DEF Q
<1>3. m \in Memory /\ m.doomed = {} /\ m.pc = "begin" /\ m.window = w
  BY <1>1, <1>2 DEF Memory, Steps
<1>4. Proper(m)
  BY <1>1, <1>3, Walker
<1> QED
  BY <1>4 DEF Q

LEMMA StoreProper ==
    ASSUME NEW r \in Memory, r.doomed = {}, NEW item, NEW A \in SUBSET Masters,
           (r.pc = "apply" /\ r.window \in AllWindows) \/ r.pc = "store"
    PROVE  Proper([r EXCEPT !.page = @ \ {item}, !.awaited = A])
<1> DEFINE m == [r EXCEPT !.page = @ \ {item}, !.awaited = A]
<1>1. m \in Memory /\ m.doomed = {} /\ m.pc = r.pc /\ m.window = r.window
  BY DEF Memory
<1> QED
  BY <1>1, Walker

LEMMA MasterProper ==
    ASSUME NEW r, Proper(r), r.awaited # {}
    PROVE  Proper([r EXCEPT !.awaited = {}, !.fetched = @ \cup r.awaited])
<1> DEFINE m == [r EXCEPT !.awaited = {}, !.fetched = @ \cup r.awaited]
<1>1. r \in Memory /\ r.pc # "idle"
  BY DEF Proper, Idle
<1>2. m \in Memory /\ m.doomed = r.doomed /\ m.pc = r.pc /\ m.window = r.window
  BY <1>1 DEF Memory
<1> QED
  BY <1>1, <1>2 DEF Proper

LEMMA BoundsProper ==
    ASSUME NEW r \in Memory, r.window \in AllWindows, NEW item, NEW e \in Events, NEW own \in BOOLEAN
    PROVE  Proper([r EXCEPT !.page = @ \ {item},
                            !.pc = IF own THEN "tombstone" ELSE "apply",
                            !.doomed = IF own THEN {e} ELSE {}])
<1> DEFINE s == IF own THEN "tombstone" ELSE "apply"
           D == IF own THEN {e} ELSE {}
           m == [r EXCEPT !.page = @ \ {item}, !.pc = s, !.doomed = D]
<1>1. s \in {"tombstone", "apply"} /\ D \in SUBSET Events /\ (s = "tombstone" <=> D # {})
  OBVIOUS
<1> HIDE DEF s, D
<1>2. m \in Memory /\ m.doomed = D /\ m.pc = s /\ m.window = r.window
  BY <1>1 DEF Memory, Steps
<1>3. Proper(m)
  BY <1>1, <1>2 DEF Proper
<1> QED
  BY <1>3 DEF s, D

LEMMA TombstoneProper ==
    ASSUME NEW r \in Memory, r.window \in AllWindows
    PROVE  Proper([r EXCEPT !.pc = "apply", !.doomed = {}])
<1> DEFINE m == [r EXCEPT !.pc = "apply", !.doomed = {}]
<1>1. m \in Memory /\ m.doomed = {} /\ m.pc = "apply" /\ m.window = r.window
  BY DEF Memory, Steps
<1> QED
  BY <1>1, Walker

LEMMA ListProper ==
    ASSUME NEW r \in Memory, r.doomed = {}, NEW P \in SUBSET Item, NEW u \in Link
    PROVE  /\ Proper([r EXCEPT !.pc = "store", !.page = P, !.url = u])
           /\ Proper([r EXCEPT !.pc = "list"])
<1> DEFINE m == [r EXCEPT !.pc = "store", !.page = P, !.url = u]
           n == [r EXCEPT !.pc = "list"]
<1>1. m \in Memory /\ m.doomed = {} /\ m.pc = "store"
  BY DEF Memory, Steps
<1>2. n \in Memory /\ n.doomed = {} /\ n.pc = "list"
  BY DEF Memory, Steps
<1> QED
  BY <1>1, <1>2, Walker

LEMMA Resting ==
    ASSUME TypeOK, NEW p \in Procs
    PROVE  /\ run[p] \in Memory
           /\ run[p].pc # "tombstone" => run[p].doomed = {}
           /\ run[p].pc \in {"begin", "fetch", "apply", "tombstone"} => run[p].window \in AllWindows
BY TypeParts DEF Proper

\* A step of process p.
LEMMA RunSteps ==
    ASSUME TypeOK, NEW p \in Procs, NEW m, Proper(m), run' = [run EXCEPT ![p] = m]
    PROVE  run' = [q \in Procs |-> run'[q]] /\ \A q \in Procs : Proper(run'[q])
BY TypeParts

LEMMA Locals ==
    ASSUME TypeOK, NEW p \in Procs
    PROVE  /\ run[p].pc \in Steps /\ run[p].queue \in SUBSET AllWindows
           /\ run[p].base \in Nat /\ run[p].url \in Link /\ run[p].link \in Link
           /\ run[p].page \in SUBSET Item /\ run[p].mayReset \in BOOLEAN
           /\ run[p].fetched \in SUBSET Masters /\ run[p].awaited \in SUBSET Masters
           /\ run[p].doomed \in SUBSET Events
           /\ Proper(run[p])
BY TypeParts DEF Proper, Memory

LEMMA TypeSync ==
    ASSUME TypeOK, NEW w \in AllWindows
    PROVE  /\ RecordCalendarWindowFailure(w) => sync' \in [AllWindows -> WindowState]
           /\ ResetState(sync[w]) \in WindowState
<1>1. sync[w] \in WindowState
  BY DEF TypeOK
<1>2. [sync[w] EXCEPT !.failing = TRUE] \in WindowState
  BY <1>1 DEF WindowState
<1>3. ResetState(sync[w]) \in WindowState
  BY <1>1, LinkFacts DEF ResetState, WindowState
<1> QED
  BY <1>2, <1>3 DEF TypeOK, RecordCalendarWindowFailure

LEMMA TypeReturn ==
    ASSUME TypeOK, NEW p \in Procs, Return(p)
    PROVE  run' = [q \in Procs |-> run'[q]] /\ \A q \in Procs : Proper(run'[q])
BY Locals, IdleProper, RunSteps DEF Return

LEMMA ItemTypes ==
    ASSUME TypeOK, NEW e \in Events
    PROVE  ItemOf(e) \in Item
BY DEF TypeOK, ItemOf, Item, Event

LEMMA TypeInit == ASSUME Init PROVE TypeOK
<1>1. FirstTick \in Nat
  BY CalendarAssumption
<1>2. cal \in [Events -> Event]
  <2>1. ASSUME NEW c \in [at : Bounds, ver : {1}, live : {TRUE}] PROVE c \in Event
    <3>1. /\ c = [at |-> c.at, ver |-> c.ver, live |-> c.live]
          /\ c.at \in Bounds /\ c.ver \in {1} /\ c.live \in {TRUE}
      OBVIOUS
    <3>2. c.live \in BOOLEAN
      BY <3>1, Zenon
    <3>3. c.ver \in Nat
      BY <3>1
    <3> QED
      BY <3>1, <3>2, <3>3 DEF Event
  <2> QED
    BY <2>1 DEF Init
<1>3. rows \in [Events -> Row]
  BY DEF Init, NoRow, Row
<1>4. run = [p \in Procs |-> run[p]] /\ \A p \in Procs : Proper(run[p])
  BY IdleProper DEF Init
<1> QED
  BY <1>1, <1>2, <1>3, <1>4, LinkFacts, TypeParts DEF Init

\* What the calendar does.
LEMMA TypeCalendar == ASSUME TypeOK, Calendar PROVE TypeOK'
<1>1. ASSUME NEW e \in Events, NEW b \in Bounds, NEW alive \in BOOLEAN, CalendarChange(e, b, alive)
      PROVE  TypeOK'
  <2>1. cal' \in [Events -> Event]
    BY <1>1 DEF CalendarChange, TypeOK, Event
  <2>2. left' \in [AllWindows -> [Events -> Nat]]
    BY <1>1 DEF CalendarChange, TypeOK
  <2> QED
    BY <1>1, <2>1, <2>2 DEF CalendarChange, TypeOK, store, history
<1>2. ASSUME NewMonth PROVE TypeOK'
  BY <1>2, MonthAssumption DEF NewMonth, TypeOK, store, history
<1>3. ASSUME NEW w \in AllWindows, Expire(w) PROVE TypeOK'
  BY <1>3 DEF Expire, TypeOK, store, history
<1> QED
  BY <1>1, <1>2, <1>3 DEF Calendar

\* A step of a process that leaves the data well typed, and its own memory.
LEMMA TypeStep ==
    ASSUME TypeOK, UNCHANGED graph, rows' \in [Events -> Row], masters' \subseteq Masters,
           sync' \in [AllWindows -> WindowState], faults' \in Nat, unfetched' \subseteq Masters,
           run' = [q \in Procs |-> run'[q]], \A q \in Procs : Proper(run'[q])
    PROVE  TypeOK'
<1>1. now' \in Nat /\ clock' \in Nat /\ cal' \in [Events -> Event]
      /\ left' \in [AllWindows -> [Events -> Nat]] /\ floor' \in [AllWindows -> Nat]
  BY DEF TypeOK, graph
<1>2. run' \in [Procs -> Memory]
  BY DEF Proper
<1> QED
  BY <1>1, <1>2 DEF TypeOK, Proper

LEMMA TypeSame ==
    ASSUME TypeOK
    PROVE  /\ UNCHANGED rows => rows' \in [Events -> Row]
           /\ UNCHANGED masters => masters' \subseteq Masters
           /\ UNCHANGED sync => sync' \in [AllWindows -> WindowState]
           /\ UNCHANGED store => /\ rows' \in [Events -> Row]
                                /\ masters' \subseteq Masters
                                /\ sync' \in [AllWindows -> WindowState]
           /\ UNCHANGED unfetched => unfetched' \subseteq Masters
           /\ UNCHANGED faults => faults' \in Nat
           /\ UNCHANGED history => faults' \in Nat /\ unfetched' \subseteq Masters
           /\ \A kind : Disturb(kind) => faults' \in Nat
BY DEF TypeOK, store, history, Disturb

LEMMA Plans ==
    /\ CurrentWindows \in SUBSET AllWindows
    /\ NoWindow \in AllWindows \cup Bounds \cup {NoWindow}
BY DEF CurrentWindows, AllWindows

LEMMA WalkTypes ==
    ASSUME TypeOK, NEW w, NEW u \in Link, NEW walk \in WalksOf(w, u)
    PROVE  walk \in Link
<1>1. clock \in Nat /\ Changed(w, u.upto) \subseteq Events /\ Strays(w, u.upto) \subseteq Events
  BY DEF TypeOK, Changed, Strays
<1>2. \/ walk = u
      \/ \E more \in SUBSET Strays(w, u.upto) :
           walk = [paging |-> TRUE, upto |-> clock, todo |-> Changed(w, u.upto) \cup more]
  BY DEF WalksOf
<1>3. \A T \in SUBSET Events : [paging |-> TRUE, upto |-> clock, todo |-> T] \in Link
  BY <1>1 DEF Link
<1>4. \A more \in SUBSET Strays(w, u.upto) : Changed(w, u.upto) \cup more \in SUBSET Events
  BY <1>1
<1> QED
  BY <1>2, <1>3, <1>4

LEMMA TypeContinue == ASSUME TypeOK, NEW p \in Procs, Continue(p) PROVE TypeOK'
<1>1. ASSUME NEW w \in run[p].queue, SyncWindow(p, w) PROVE TypeOK'
  <2> DEFINE m == [run[p] EXCEPT !.pc = "begin", !.queue = @ \ {w}, !.window = w, !.mayReset = TRUE]
  <2>1. run' = [run EXCEPT ![p] = m]
    BY <1>1, Locals DEF SyncWindow, TypeOK
  <2>2. Proper(m)
    BY <1>1, Resting, EnterProper DEF SyncWindow
  <2> QED
    BY <1>1, <2>1, <2>2, RunSteps, TypeStep, Locals, TypeSame DEF SyncWindow
<1>2. CASE Begin(p)
  <2> DEFINE st == sync[run[p].window]
             u == IF st.next.paging THEN st.next ELSE DeltaLink(st.delta)
             m == [run[p] EXCEPT !.pc = "fetch", !.base = st.delta, !.url = u]
  <2>1. run[p].pc = "begin" /\ run' = [run EXCEPT ![p] = m]
    BY <1>2, Locals DEF Begin, TypeOK
  <2>2. st \in WindowState
    BY <2>1, Resting DEF Proper, TypeOK
  <2>3. u \in Link /\ st.delta \in Nat
    BY <2>2, LinkFacts, Locals
  <2>4. Proper(m)
    <3>1. run[p] \in Memory /\ run[p].doomed = {} /\ run[p].window \in AllWindows
      BY <2>1, Resting
    <3>2. m \in Memory
      BY <3>1, <2>3 DEF Memory, Steps
    <3>3. m.doomed = {} /\ m.pc = "fetch" /\ m.window \in AllWindows
      BY <3>1 DEF Memory
    <3> QED
      BY <3>2, <3>3, Walker
  <2> QED
    BY <1>2, <2>1, <2>4, RunSteps, TypeStep, Locals, TypeSame DEF Begin
<1>3. CASE FetchPage(p)
  <2>1. PICK walk \in WalksOf(run[p].window, run[p].url), more \in BOOLEAN :
          \E listed \in SUBSET walk.todo :
            run' = [run EXCEPT ![p].pc = "apply", ![p].page = {ItemOf(e) : e \in listed},
                               ![p].link = [walk EXCEPT !.paging = more, !.todo = @ \ listed]]
    BY <1>3, Locals DEF FetchPage
  <2>2. PICK listed \in SUBSET walk.todo :
            run' = [run EXCEPT ![p].pc = "apply", ![p].page = {ItemOf(e) : e \in listed},
                               ![p].link = [walk EXCEPT !.paging = more, !.todo = @ \ listed]]
    BY <2>1, Locals
  <2> DEFINE k == [walk EXCEPT !.paging = more, !.todo = @ \ listed]
             m == [run[p] EXCEPT !.pc = "apply", !.page = {ItemOf(e) : e \in listed}, !.link = k]
  <2>3. walk \in Link
    BY Locals, WalkTypes
  <2>4. k \in Link /\ listed \subseteq Events
    BY <2>3, Locals DEF Link
  <2>5. {ItemOf(e) : e \in listed} \in SUBSET Item
    BY <2>4, ItemTypes, Locals
  <2>6. Proper(m)
    <3>1. run[p] \in Memory /\ run[p].doomed = {} /\ run[p].window \in AllWindows
      BY <1>3, Resting DEF FetchPage
    <3>2. m \in Memory
      <4> HIDE DEF k
      <4> QED
        BY <3>1, <2>4, <2>5 DEF Memory, Steps
    <3>3. m.doomed = {} /\ m.pc = "apply" /\ m.window \in AllWindows
      BY <3>1 DEF Memory
    <3> QED
      BY <3>2, <3>3, Walker
  <2>7. run' = [run EXCEPT ![p] = m]
    BY <2>2, Locals DEF TypeOK
  <2> QED
    BY <1>3, <2>6, <2>7, RunSteps, TypeStep, Locals, TypeSame DEF FetchPage
<1>4. CASE FetchGone(p)
  <2> DEFINE m == [Idle EXCEPT !.pc = "begin", !.queue = run[p].queue, !.window = run[p].window]
  <2>1. run[p].window \in AllWindows
    BY <1>4, Resting DEF FetchGone
  <2>2. sync' \in [AllWindows -> WindowState]
    BY <1>4, <2>1, TypeSync, Locals DEF FetchGone, TypeOK
  <2>3. Proper(m)
    BY <2>1, LinkFacts, Resting DEF Proper, Idle, Memory, Steps
  <2> QED
    BY <1>4, <2>2, <2>3, RunSteps, TypeStep, Locals, TypeSame DEF FetchGone
<1>5. CASE FetchRefused(p)
  <2>1. run[p].window \in AllWindows
    BY <1>5, Resting DEF FetchRefused
  <2> QED
    BY <1>5, <2>1, TypeSync, TypeReturn, TypeStep, Locals, TypeSame DEF FetchRefused
<1>6. CASE StoreEvent(p)
  <2>1. PICK item \in run[p].page :
          /\ UpsertCalendarEvent(item)
          /\ run' = [run EXCEPT ![p].page = @ \ {item},
                                ![p].awaited = {Series[item.id]} \ ({None} \cup run[p].fetched)]
    BY <1>6, Locals DEF StoreEvent
  <2> DEFINE A == {Series[item.id]} \ ({None} \cup run[p].fetched)
             m == [run[p] EXCEPT !.page = @ \ {item}, !.awaited = A]
  <2>2. item \in Item /\ item.id \in Events /\ item.at \in Bounds /\ item.ver \in Nat
    BY Locals DEF Item
  <2>3. A \in SUBSET Masters
    BY <2>2, CalendarAssumption, Locals
  <2>4. rows' \in [Events -> Row]
    BY <2>1, <2>2, Locals DEF UpsertCalendarEvent, TypeOK, Row
  <2>5. Proper(m)
    <3> HIDE DEF A
    <3> QED
      BY <1>6, <2>3, Resting, StoreProper DEF StoreEvent
  <2>6. run' = [run EXCEPT ![p] = m]
    BY <2>1, Locals DEF TypeOK
  <2> QED
    BY <1>6, <2>4, <2>5, <2>6, RunSteps, TypeStep, Locals, TypeSame DEF StoreEvent
<1>7. CASE FetchSeriesMaster(p)
  <2> DEFINE m == [run[p] EXCEPT !.awaited = {}, !.fetched = @ \cup run[p].awaited]
  <2>2. Proper(m)
    BY <1>7, Locals, MasterProper DEF FetchSeriesMaster
  <2>3. run' = [run EXCEPT ![p] = m]
    BY <1>7, Locals DEF FetchSeriesMaster, TypeOK
  <2>4. masters' \subseteq Masters /\ faults' \in Nat /\ unfetched' \subseteq Masters
    BY <1>7, Locals DEF FetchSeriesMaster, TypeOK, Disturb, history
  <2> QED
    BY <1>7, <2>2, <2>3, <2>4, RunSteps, TypeStep, Locals, TypeSame DEF FetchSeriesMaster
<1>8. CASE EventBounds(p)
  <2>1. PICK item \in run[p].page :
          LET own == Owned(rows[item.id], run[p].window) IN
            run' = [run EXCEPT ![p].page = @ \ {item},
                               ![p].pc = IF own THEN "tombstone" ELSE "apply",
                               ![p].doomed = IF own THEN {item.id} ELSE {}]
    BY <1>8, Locals DEF EventBounds
  <2> DEFINE own == Owned(rows[item.id], run[p].window)
             m == [run[p] EXCEPT !.page = @ \ {item},
                                 !.pc = IF own THEN "tombstone" ELSE "apply",
                                 !.doomed = IF own THEN {item.id} ELSE {}]
  <2>2. item.id \in Events
    BY Locals DEF Item
  <2>3. Proper(m)
    <3>1. item.id \in Events /\ own \in BOOLEAN
      BY <2>2 DEF Owned
    <3> HIDE DEF own
    <3> QED
      BY <1>8, <3>1, Resting, BoundsProper DEF EventBounds
  <2>4. run' = [run EXCEPT ![p] = m]
    BY <2>1, Locals DEF TypeOK
  <2> QED
    BY <1>8, <2>3, <2>4, RunSteps, TypeStep, Locals, TypeSame DEF EventBounds
<1>9. CASE TombstoneCalendarEvent(p)
  <2> DEFINE m == [run[p] EXCEPT !.pc = "apply", !.doomed = {}]
  <2>1. Proper(m)
    BY <1>9, Resting, TombstoneProper DEF TombstoneCalendarEvent
  <2>2. run' = [run EXCEPT ![p] = m]
    BY <1>9, Locals DEF TombstoneCalendarEvent, TypeOK
  <2>3. rows' \in [Events -> Row]
    <3>1. \A r \in Row : [r EXCEPT !.live = FALSE] \in Row
      BY Locals DEF Row
    <3> QED
      BY <1>9, <3>1, Locals DEF TombstoneCalendarEvent, TypeOK
  <2> QED
    BY <1>9, <2>1, <2>2, <2>3, RunSteps, TypeStep, Locals, TypeSame DEF TombstoneCalendarEvent
<1>10. CASE SaveCalendarWindowNextLink(p)
  <2> DEFINE m == [run[p] EXCEPT !.pc = "fetch", !.url = run[p].link, !.link = NoLink]
             w == run[p].window
  <2>1. run[p].pc = "apply" /\ w \in AllWindows
    BY <1>10, Resting DEF SaveCalendarWindowNextLink, PageApplied
  <2>2. Proper(m)
    <3>1. run[p] \in Memory /\ run[p].doomed = {} /\ run[p].window \in AllWindows
      BY <2>1, Resting
    <3>2. m \in Memory
      BY <3>1, LinkFacts DEF Memory, Steps
    <3>3. m.doomed = {} /\ m.pc = "fetch" /\ m.window \in AllWindows
      BY <3>1 DEF Memory
    <3> QED
      BY <3>2, <3>3, Walker
  <2>3. run' = [run EXCEPT ![p] = m]
    BY <1>10, Locals DEF SaveCalendarWindowNextLink, TypeOK
  <2>4. sync[w] \in WindowState
    BY <2>1, Locals DEF TypeOK
  <2>5. [sync[w] EXCEPT !.next = run[p].link] \in WindowState
    BY <2>4, Locals DEF WindowState
  <2>6. sync' \in [AllWindows -> WindowState]
    BY <1>10, <2>5, Locals DEF SaveCalendarWindowNextLink, TypeOK
  <2> QED
    BY <1>10, <2>2, <2>3, <2>6, RunSteps, TypeStep, Locals, TypeSame DEF SaveCalendarWindowNextLink
<1>11. CASE CommitCalendarWindowDeltaLink(p)
  <2> DEFINE n == IF run[p].link.upto > 0 THEN run[p].link.upto ELSE run[p].base
             st == [next |-> NoLink, delta |-> n, failing |-> FALSE]
  <2>1. n \in Nat
    BY LinkFacts, Locals
  <2>2. st \in WindowState
    BY <2>1, LinkFacts, Locals DEF WindowState
  <2>3. sync' \in [AllWindows -> WindowState]
    BY <1>11, <2>2, Locals DEF CommitCalendarWindowDeltaLink, TypeOK
  <2> QED
    BY <1>11, <2>3, TypeReturn, TypeStep, Locals, TypeSame DEF CommitCalendarWindowDeltaLink
<1>12. CASE RangePage(p)
  <2>1. PICK listed \in SUBSET run[p].url.todo :
          run' = [run EXCEPT ![p].pc = "store",
                    ![p].page = {ItemOf(e) : e \in {l \in listed : InView(cal[l], run[p].window)}},
                    ![p].url.todo = @ \ listed]
    BY <1>12, Locals DEF RangePage
  <2> DEFINE P == {ItemOf(e) : e \in {l \in listed : InView(cal[l], run[p].window)}}
             u == [run[p].url EXCEPT !.todo = @ \ listed]
             m == [run[p] EXCEPT !.pc = "store", !.page = P, !.url = u]
  <2>2. P \in SUBSET Item
    BY LinkFacts, ItemTypes, Locals
  <2>3. u \in Link
    BY Locals DEF Link
  <2>4. run' = [run EXCEPT ![p] = m]
    <3> HIDE DEF P
    <3>1. run' = [run EXCEPT ![p].pc = "store", ![p].page = P, ![p].url.todo = @ \ listed]
      BY <2>1 DEF P
    <3>2. run \in [Procs -> Memory]
      BY DEF TypeOK
    <3> QED
      BY <3>1, <3>2 DEF Memory, Link
  <2>5. Proper(m)
    <3> HIDE DEF P, u
    <3> QED
      BY <1>12, <2>2, <2>3, Resting, ListProper DEF RangePage
  <2> QED
    BY <1>12, <2>4, <2>5, RunSteps, TypeStep, Locals, TypeSame DEF RangePage
<1>13. CASE RangeNext(p)
  <2> DEFINE m == IF run[p].url.todo = {} THEN Idle ELSE [run[p] EXCEPT !.pc = "list"]
  <2>1. Proper(m)
    BY <1>13, IdleProper, Resting, ListProper, Locals DEF RangeNext
  <2>2. run' = [run EXCEPT ![p] = m]
    BY <1>13, Locals DEF RangeNext, TypeOK
  <2> QED
    BY <1>13, <2>1, <2>2, RunSteps, TypeStep, Locals, TypeSame DEF RangeNext
<1> QED
  BY <1>1, <1>2, <1>3, <1>4, <1>5, <1>6, <1>7, <1>8, <1>9, <1>10, <1>11, <1>12, <1>13, Locals DEF Continue

LEMMA TypeFailure == ASSUME TypeOK, NEW p \in Procs, Failure(p) PROVE TypeOK'
<1>1. CASE FetchEmptyBody(p)
  <2> DEFINE m == [run[p] EXCEPT !.pc = "apply", !.link = NoLink]
  <2>1. Proper(m)
    <3>1. run[p] \in Memory /\ run[p].doomed = {} /\ run[p].window \in AllWindows
      BY <1>1, Resting DEF FetchEmptyBody
    <3>2. m \in Memory
      BY <3>1, LinkFacts DEF Memory, Steps
    <3>3. m.doomed = {} /\ m.pc = "apply" /\ m.window \in AllWindows
      BY <3>1 DEF Memory
    <3> QED
      BY <3>2, <3>3, Walker
  <2>2. run' = [run EXCEPT ![p] = m]
    BY <1>1, Locals DEF FetchEmptyBody, TypeOK
  <2> QED
    BY <1>1, <2>1, <2>2, RunSteps, TypeStep, Locals, TypeSame DEF FetchEmptyBody
<1>2. CASE FetchFails(p)
  <2>1. run[p].window \in AllWindows
    BY <1>2, Resting DEF FetchFails
  <2> QED
    BY <1>2, <2>1, TypeSync, TypeReturn, TypeStep, Locals, TypeSame DEF FetchFails
<1>3. CASE ItemFails(p)
  <2>1. run[p].window \in AllWindows
    BY <1>3, Resting DEF ItemFails
  <2> QED
    BY <1>3, <2>1, TypeSync, TypeReturn, TypeStep, Locals, TypeSame DEF ItemFails
<1>4. CASE CursorFails(p)
  BY <1>4, TypeReturn, TypeStep, Locals, TypeSame DEF CursorFails
<1>5. CASE RangeFails(p)
  BY <1>5, IdleProper, RunSteps, TypeStep, Locals, TypeSame DEF RangeFails
<1>6. CASE Crash(p)
  BY <1>6, IdleProper, RunSteps, TypeStep, Locals, TypeSame DEF Crash
<1> QED
  BY <1>1, <1>2, <1>3, <1>4, <1>5, <1>6, Locals DEF Failure

LEMMA TypeCommand == ASSUME TypeOK, NEW p \in Procs, Command(p) PROVE TypeOK'
<1> DEFINE started == [Idle EXCEPT !.queue = CurrentWindows]
<1>0. ASSUME run[p] = Idle, run' = [run EXCEPT ![p].queue = CurrentWindows]
      PROVE  run' = [q \in Procs |-> run'[q]] /\ \A q \in Procs : Proper(run'[q])
  <2>1. run' = [run EXCEPT ![p] = started]
    BY <1>0 DEF TypeOK
  <2> QED
    BY <2>1, IdleProper, Plans, RunSteps
<1>1. CASE SyncWindows(p)
  BY <1>0, <1>1, TypeStep, TypeSame DEF SyncWindows
<1>3. CASE SyncFull(p)
  <2>1. sync' \in [AllWindows -> WindowState]
    <3>1. \A w \in AllWindows : ResetState(sync[w]) \in WindowState
      BY TypeSync
    <3> QED
      BY <1>3, <3>1 DEF SyncFull
  <2> QED
    BY <1>0, <1>3, <2>1, TypeStep, TypeSame DEF SyncFull
<1>2. ASSUME NEW b \in Bounds, SyncRange(p, b) PROVE TypeOK'
  <2> DEFINE T == {e \in Events : InView(cal[e], b)}
             m == [Idle EXCEPT !.pc = "list", !.window = b, !.url = [@ EXCEPT !.todo = T]]
  <2>1. run' = [run EXCEPT ![p] = m]
    BY <1>2, Locals DEF SyncRange, TypeOK, Idle
  <2>2. Proper(m)
    <3>1. [NoLink EXCEPT !.todo = T] \in Link
      BY Locals DEF NoLink, DeltaLink, Link
    <3> HIDE DEF T
    <3> QED
      BY <3>1, LinkFacts DEF Proper, Memory, Idle, Steps
  <2> QED
    BY <1>2, <2>1, <2>2, RunSteps, TypeStep, Locals, TypeSame DEF SyncRange
<1> QED
  BY <1>1, <1>2, <1>3, Locals DEF Command

LEMMA Moves ==
    ASSUME [Next]_vars
    PROVE  Calendar \/ (\E p \in Procs : Continue(p) \/ Failure(p) \/ Command(p)) \/ UNCHANGED vars
BY DEF Next, Procs, Command

LEMMA TypeNext == ASSUME TypeOK, [Next]_vars PROVE TypeOK'
<1>1. CASE UNCHANGED vars
  BY <1>1 DEF TypeOK, vars, graph, store, history
<1> QED
  BY <1>1, Moves, TypeCalendar, TypeContinue, TypeFailure, TypeCommand

\* The calendar, the tables and the memory of every process stay well typed
\* through every operation, failure and restart.
THEOREM TypeCorrect == Spec => []TypeOK
<1>1. Init => TypeOK
  BY TypeInit
<1>2. TypeOK /\ [Next]_vars => TypeOK'
  BY TypeNext
<1> QED
  BY <1>1, <1>2, PTL DEF Spec

-----------------------------------------------------------------------------
(* The steps of a process, as the proofs below use them *)

Walking == {"fetch", "apply", "tombstone"}

StoreKept == UNCHANGED <<rows, masters, sync, unfetched>>
BagKept(p) ==
    /\ run'[p].awaited = run[p].awaited
    /\ run'[p].fetched = run[p].fetched
    /\ run'[p].doomed = run[p].doomed
WalkKept(p) == run'[p].window = run[p].window /\ run'[p].base = run[p].base

\* Every window keeps its links or loses them.
LinksDrop ==
    \A w \in AllWindows :
        \/ sync'[w].delta = sync[w].delta /\ sync'[w].next = sync[w].next
        \/ sync'[w].delta = 0 /\ sync'[w].next = NoLink

\* p is no longer in a walk, or not yet.
Rests(p) ==
    /\ run'[p].pc \notin Walking
    /\ run'[p].page = {} /\ run'[p].awaited = {} /\ run'[p].doomed = {}
    /\ run'[p].fetched \subseteq run[p].fetched
    /\ run'[p].base \in {0, run[p].base}
    /\ run'[p].url.upto \in {0, run[p].url.upto}
    /\ run'[p].link \in {NoLink, run[p].link}

Begins(p) ==
    LET w == run[p].window IN
    /\ StoreKept /\ BagKept(p)
    /\ run[p].pc = "begin" /\ run'[p].pc = "fetch"
    /\ w \in AllWindows /\ run'[p].window = w
    /\ run'[p].base = sync[w].delta
    /\ run'[p].url = IF sync[w].next.paging THEN sync[w].next ELSE DeltaLink(sync[w].delta)
    /\ run'[p].page = run[p].page /\ run'[p].link = run[p].link

Fetches(p, walk, listed) ==
    /\ StoreKept /\ BagKept(p) /\ WalkKept(p)
    /\ run[p].pc = "fetch" /\ run'[p].pc = "apply"
    /\ walk \in WalksOf(run[p].window, run[p].url)
    /\ walk \in Link /\ listed \subseteq walk.todo
    /\ run'[p].url = run[p].url
    /\ run'[p].page = {ItemOf(e) : e \in listed}
    /\ run'[p].link.upto = walk.upto /\ run'[p].link.todo = walk.todo \ listed
    /\ ~run'[p].link.paging => run'[p].link.todo = {}

FetchesNothing(p) ==
    /\ StoreKept /\ BagKept(p) /\ WalkKept(p)
    /\ run[p].pc = "fetch" /\ run'[p].pc = "apply"
    /\ run'[p].url = run[p].url /\ run'[p].page = run[p].page
    /\ run'[p].link = NoLink

Stores(p, item) ==
    /\ UNCHANGED <<masters, sync, unfetched>> /\ WalkKept(p)
    /\ run[p].pc \in {"apply", "store"} /\ run'[p].pc = run[p].pc
    /\ run[p].awaited = {}
    /\ item \in run[p].page /\ item.id \in Events /\ InView(item, run[p].window)
    /\ UpsertCalendarEvent(item)
    /\ run'[p].page = run[p].page \ {item}
    /\ run'[p].awaited = {Series[item.id]} \ ({None} \cup run[p].fetched)
    /\ run'[p].fetched = run[p].fetched /\ run'[p].doomed = run[p].doomed
    /\ run'[p].url = run[p].url /\ run'[p].link = run[p].link

AsksMaster(p) ==
    /\ UNCHANGED <<rows, sync>> /\ WalkKept(p)
    /\ masters \subseteq masters' /\ unfetched \subseteq unfetched'
    /\ run[p].awaited \subseteq masters' \cup unfetched'
    /\ run'[p].pc = run[p].pc /\ run'[p].page = run[p].page
    /\ run'[p].awaited = {} /\ run'[p].fetched = run[p].fetched \cup run[p].awaited
    /\ run'[p].doomed = run[p].doomed
    /\ run'[p].url = run[p].url /\ run'[p].link = run[p].link

Judges(p, item) ==
    LET own == Owned(rows[item.id], run[p].window) IN
    /\ StoreKept /\ WalkKept(p)
    /\ run[p].pc = "apply" /\ run'[p].pc \in {"apply", "tombstone"}
    /\ run[p].window \in AllWindows
    /\ run[p].awaited = {} /\ run'[p].awaited = {} /\ run'[p].fetched = run[p].fetched
    /\ item \in run[p].page /\ item.id \in Events /\ ~InView(item, run[p].window)
    /\ run'[p].page = run[p].page \ {item}
    /\ run'[p].doomed = IF own THEN {item.id} ELSE {}
    /\ run'[p].url = run[p].url /\ run'[p].link = run[p].link

Tombstones(p) ==
    /\ UNCHANGED <<masters, sync, unfetched>> /\ WalkKept(p)
    /\ run[p].pc = "tombstone" /\ run'[p].pc = "apply"
    /\ rows' = [e \in Events |-> IF e \in run[p].doomed
                                 THEN [rows[e] EXCEPT !.live = FALSE] ELSE rows[e]]
    /\ run'[p].page = run[p].page /\ run'[p].awaited = run[p].awaited
    /\ run'[p].fetched = run[p].fetched /\ run'[p].doomed = {}
    /\ run'[p].url = run[p].url /\ run'[p].link = run[p].link

Saves(p) ==
    LET w == run[p].window IN
    /\ UNCHANGED <<rows, masters, unfetched>> /\ WalkKept(p)
    /\ run[p].pc = "apply" /\ run'[p].pc = "fetch"
    /\ w \in AllWindows
    /\ run[p].page = {} /\ run[p].awaited = {} /\ run[p].link.paging
    /\ run'[p].page = {} /\ run'[p].awaited = {}
    /\ run'[p].fetched = run[p].fetched /\ run'[p].doomed = run[p].doomed
    /\ run'[p].url = run[p].link /\ run'[p].link = NoLink
    /\ sync'[w].delta = sync[w].delta /\ sync'[w].next = run[p].link
    /\ \A v \in AllWindows \ {w} : sync'[v] = sync[v]

Commits(p) ==
    LET w == run[p].window IN
    /\ UNCHANGED <<rows, masters, unfetched>> /\ Rests(p)
    /\ run[p].pc = "apply" /\ w \in AllWindows
    /\ run[p].page = {} /\ run[p].awaited = {} /\ ~run[p].link.paging
    /\ sync'[w].next = NoLink
    /\ sync'[w].delta = IF run[p].link.upto > 0 THEN run[p].link.upto ELSE run[p].base
    /\ \A v \in AllWindows \ {w} : sync'[v] = sync[v]

Lists(p, listed) ==
    /\ StoreKept /\ BagKept(p) /\ WalkKept(p)
    /\ run[p].pc = "list" /\ run'[p].pc = "store"
    /\ listed \subseteq Events
    /\ run'[p].page = {ItemOf(e) : e \in listed}
    /\ run'[p].url.upto = run[p].url.upto /\ run'[p].link = run[p].link

Stops(p) == Rests(p) /\ LinksDrop /\ UNCHANGED <<rows, masters, unfetched>>

Effect(p) ==
    \/ Stops(p)
    \/ Begins(p)
    \/ \E walk \in Link : \E listed \in SUBSET walk.todo : Fetches(p, walk, listed)
    \/ FetchesNothing(p)
    \/ \E item \in run[p].page : Stores(p, item)
    \/ AsksMaster(p)
    \/ \E item \in run[p].page : Judges(p, item)
    \/ Tombstones(p)
    \/ Saves(p)
    \/ Commits(p)
    \/ \E listed \in SUBSET Events : Lists(p, listed)

\* A process leaves the calendar and the other processes alone.
LEMMA OthersWait ==
    ASSUME TypeOK, NEW p \in Procs, Continue(p) \/ Failure(p) \/ Command(p)
    PROVE  UNCHANGED graph /\ \A q \in Procs \ {p} : run'[q] = run[q]
<1> DEFINE Waits == \A q \in Procs \ {p} : run'[q] = run[q]
<1>0. run \in [Procs -> Memory]
  BY DEF TypeOK
<1>1. CASE Continue(p)
  <2>1. CASE \E w \in run[p].queue : SyncWindow(p, w)
    BY <1>0, <2>1 DEF SyncWindow
  <2>2. CASE Begin(p)
    BY <1>0, <2>2 DEF Begin
  <2>3. CASE FetchPage(p)
    BY <1>0, <2>3 DEF FetchPage
  <2>4. CASE FetchGone(p) \/ FetchRefused(p)
    BY <1>0, <2>4 DEF FetchGone, FetchRefused, Return
  <2>5. CASE StoreEvent(p) \/ FetchSeriesMaster(p)
    BY <1>0, <2>5 DEF StoreEvent, FetchSeriesMaster
  <2>6. CASE EventBounds(p) \/ TombstoneCalendarEvent(p)
    BY <1>0, <2>6 DEF EventBounds, TombstoneCalendarEvent
  <2>7. CASE SaveCalendarWindowNextLink(p) \/ CommitCalendarWindowDeltaLink(p)
    BY <1>0, <2>7 DEF SaveCalendarWindowNextLink, CommitCalendarWindowDeltaLink, Return
  <2>8. CASE RangePage(p) \/ RangeNext(p)
    BY <1>0, <2>8 DEF RangePage, RangeNext
  <2> QED
    BY <1>1, <2>1, <2>2, <2>3, <2>4, <2>5, <2>6, <2>7, <2>8 DEF Continue
<1>2. CASE Failure(p)
  BY <1>0, <1>2 DEF Failure, FetchEmptyBody, FetchFails, ItemFails, CursorFails, RangeFails,
       Crash, Return
<1>3. CASE Command(p)
  BY <1>0, <1>3 DEF Command, SyncWindows, SyncFull, SyncRange
<1> QED
  BY <1>1, <1>2, <1>3

Fresh(m) == m = Idle \/ \E Q : m = [Idle EXCEPT !.queue = Q]

LEMMA IdleFields ==
    ASSUME NEW m, Fresh(m)
    PROVE  /\ m.pc = "idle" /\ m.page = {} /\ m.awaited = {} /\ m.doomed = {} /\ m.fetched = {}
           /\ m.base = 0 /\ m.url = NoLink /\ m.link = NoLink
<1>1. PICK Q : m = [pc |-> "idle", queue |-> Q, window |-> NoWindow,
                   base |-> 0, url |-> NoLink, page |-> {}, link |-> NoLink,
                   mayReset |-> FALSE, fetched |-> {}, awaited |-> {}, doomed |-> {}]
  BY DEF Fresh, Idle
<1> QED
  BY <1>1

\* Memory of p that is like a new process's but for where it is and what it lists.
LEMMA RestsIdle ==
    ASSUME TypeOK, NEW p \in Procs, run'[p].pc \notin Walking, run'[p].page = {},
           run'[p].awaited = {}, run'[p].doomed = {}, run'[p].fetched = {}, run'[p].base = 0,
           run'[p].url.upto = 0, run'[p].link = NoLink
    PROVE  Rests(p)
BY DEF Rests

LEMMA RestsReturn ==
    ASSUME TypeOK, NEW p \in Procs, NEW m, Fresh(m), run' = [run EXCEPT ![p] = m]
    PROVE  Rests(p)
<1>1. run'[p] = m
  BY DEF TypeOK
<1>2. /\ m.pc = "idle" /\ m.page = {} /\ m.awaited = {} /\ m.doomed = {} /\ m.fetched = {}
      /\ m.base = 0 /\ m.url = NoLink /\ m.link = NoLink
  BY IdleFields
<1> QED
  BY <1>1, <1>2, LinkFacts, RestsIdle DEF Walking

LEMMA RestsIdled ==
    ASSUME TypeOK, NEW p \in Procs,
           Return(p) \/ run' = [run EXCEPT ![p] = Idle]
             \/ \E Q : run' = [run EXCEPT ![p] = [Idle EXCEPT !.queue = Q]]
    PROVE  Rests(p)
<1>1. PICK m : Fresh(m) /\ run' = [run EXCEPT ![p] = m]
  BY DEF Return, Fresh
<1> QED
  BY <1>1, RestsReturn

LEMMA LinksDropCases ==
    ASSUME TypeOK
    PROVE  /\ UNCHANGED sync => LinksDrop
           /\ \A w \in AllWindows : RecordCalendarWindowFailure(w) => LinksDrop
           /\ \A w \in AllWindows : sync' = [sync EXCEPT ![w] = ResetState(@)] => LinksDrop
           /\ sync' = [w \in AllWindows |-> ResetState(sync[w])] => LinksDrop
<1>1. \A st \in WindowState : /\ [st EXCEPT !.failing = TRUE].next = st.next
                              /\ [st EXCEPT !.failing = TRUE].delta = st.delta
                              /\ ResetState(st).next = NoLink /\ ResetState(st).delta = 0
  BY DEF WindowState, ResetState
<1>2. \A w \in AllWindows : sync[w] \in WindowState
  BY DEF TypeOK
<1>3. UNCHANGED sync => LinksDrop
  BY DEF LinksDrop
<1>4. ASSUME NEW w \in AllWindows, RecordCalendarWindowFailure(w) PROVE LinksDrop
  <2>1. /\ sync'[w] = [sync[w] EXCEPT !.failing = TRUE]
        /\ \A v \in AllWindows \ {w} : sync'[v] = sync[v]
    BY <1>4 DEF RecordCalendarWindowFailure, TypeOK
  <2>2. sync'[w].delta = sync[w].delta /\ sync'[w].next = sync[w].next
    BY <1>1, <1>2, <2>1
  <2> QED
    BY <2>1, <2>2 DEF LinksDrop
<1>5. ASSUME NEW w \in AllWindows, sync' = [sync EXCEPT ![w] = ResetState(@)] PROVE LinksDrop
  <2>1. /\ sync'[w] = ResetState(sync[w])
        /\ \A v \in AllWindows \ {w} : sync'[v] = sync[v]
    BY <1>5 DEF TypeOK
  <2>2. sync'[w].delta = 0 /\ sync'[w].next = NoLink
    BY <1>1, <1>2, <2>1
  <2> QED
    BY <2>1, <2>2 DEF LinksDrop
<1>6. ASSUME sync' = [w \in AllWindows |-> ResetState(sync[w])] PROVE LinksDrop
  BY <1>1, <1>2, <1>6 DEF LinksDrop
<1> QED
  BY <1>3, <1>4, <1>5, <1>6

\* Every operation, failure and command of a process has one of these effects.
LEMMA EffectOfContinue == ASSUME TypeOK, NEW p \in Procs, Continue(p) PROVE Effect(p)
<1>0. run \in [Procs -> Memory] /\ run[p] \in Memory
  BY DEF TypeOK
<1>1. ASSUME NEW w \in run[p].queue, SyncWindow(p, w) PROVE Effect(p)
  <2>1. run[p] = [Idle EXCEPT !.queue = run[p].queue]
    BY <1>1, Locals DEF SyncWindow, Proper
  <2>2. /\ run[p].page = {} /\ run[p].awaited = {} /\ run[p].doomed = {} /\ run[p].fetched = {}
        /\ run[p].base = 0 /\ run[p].url = NoLink /\ run[p].link = NoLink
    BY <2>1, IdleFields DEF Fresh
  <2>3. /\ run'[p].pc = "begin"
        /\ run'[p].page = run[p].page /\ run'[p].awaited = run[p].awaited
        /\ run'[p].doomed = run[p].doomed /\ run'[p].fetched = run[p].fetched
        /\ run'[p].base = run[p].base /\ run'[p].url = run[p].url /\ run'[p].link = run[p].link
    BY <1>0, <1>1 DEF SyncWindow, Memory
  <2>4. Rests(p)
    BY <2>2, <2>3 DEF Rests, Walking
  <2> QED
    BY <1>1, <2>4, LinksDropCases DEF SyncWindow, Effect, Stops, store, history
<1>2. CASE Begin(p)
  <2>1. run[p].window \in AllWindows
    BY <1>2, Resting DEF Begin
  <2>2. Begins(p)
    BY <1>0, <1>2, <2>1 DEF Begin, Begins, StoreKept, BagKept, Memory, store, history
  <2> QED
    BY <2>2 DEF Effect
<1>3. CASE FetchPage(p)
  <2> DEFINE Fetched(walk, more, listed) ==
               /\ more \/ listed = walk.todo
               /\ run' = [run EXCEPT ![p].pc = "apply", ![p].page = {ItemOf(e) : e \in listed},
                                    ![p].link = [walk EXCEPT !.paging = more, !.todo = @ \ listed]]
  <2>0. PICK walk \in WalksOf(run[p].window, run[p].url), more \in BOOLEAN :
          \E listed \in SUBSET walk.todo : Fetched(walk, more, listed)
    BY <1>3 DEF FetchPage
  <2>1. PICK listed \in SUBSET walk.todo : Fetched(walk, more, listed)
    BY <2>0
  <2>2. walk \in Link
    BY Locals, WalkTypes
  <2> DEFINE k == [walk EXCEPT !.paging = more, !.todo = @ \ listed]
             P == {ItemOf(e) : e \in listed}
  <2>3. k.upto = walk.upto /\ k.todo = walk.todo \ listed /\ (~k.paging => k.todo = {})
    BY <2>1, <2>2 DEF Link
  <2>4. Fetches(p, walk, listed)
    <3> HIDE DEF k, P
    <3>1. run' = [run EXCEPT ![p].pc = "apply", ![p].page = P, ![p].link = k]
      BY <2>1 DEF k, P
    <3>2. /\ run'[p].pc = "apply" /\ run'[p].page = P /\ run'[p].link = k
          /\ run'[p].url = run[p].url /\ BagKept(p) /\ WalkKept(p)
      BY <1>0, <3>1 DEF Memory, BagKept, WalkKept
    <3> QED
      BY <1>3, <2>1, <2>2, <2>3, <3>2 DEF FetchPage, Fetches, StoreKept, store, history, P
  <2> QED
    BY <2>2, <2>4 DEF Effect
<1>4. CASE FetchGone(p)
  <2> DEFINE m == [Idle EXCEPT !.pc = "begin", !.queue = run[p].queue, !.window = run[p].window]
  <2>1. run[p].window \in AllWindows
    BY <1>4, Resting DEF FetchGone
  <2>2. run'[p] = m
    BY <1>0, <1>4 DEF FetchGone
  <2>3. /\ m.pc = "begin" /\ m.page = {} /\ m.awaited = {} /\ m.doomed = {} /\ m.fetched = {}
        /\ m.base = 0 /\ m.url = NoLink /\ m.link = NoLink
    BY DEF Idle
  <2>4. Rests(p)
    BY <2>2, <2>3, LinkFacts, RestsIdle DEF Walking
  <2> QED
    BY <1>4, <2>1, <2>4, LinksDropCases DEF FetchGone, Effect, Stops, history
<1>5. CASE FetchRefused(p)
  <2>1. run[p].window \in AllWindows
    BY <1>5, Resting DEF FetchRefused
  <2>2. Rests(p)
    BY <1>5, RestsIdled DEF FetchRefused
  <2> QED
    BY <1>5, <2>1, <2>2, LinksDropCases DEF FetchRefused, Effect, Stops, history
<1>6. CASE StoreEvent(p)
  <2>1. PICK item \in run[p].page :
          /\ ~Removed(item, run[p].window)
          /\ UpsertCalendarEvent(item)
          /\ run' = [run EXCEPT ![p].page = @ \ {item},
                                ![p].awaited = {Series[item.id]} \ ({None} \cup run[p].fetched)]
    BY <1>6 DEF StoreEvent
  <2>2. item.id \in Events
    BY Locals DEF Item
  <2> DEFINE A == {Series[item.id]} \ ({None} \cup run[p].fetched)
  <2>3. /\ run'[p].page = run[p].page \ {item} /\ run'[p].awaited = A
        /\ run'[p].pc = run[p].pc /\ WalkKept(p)
        /\ run'[p].fetched = run[p].fetched /\ run'[p].doomed = run[p].doomed
        /\ run'[p].url = run[p].url /\ run'[p].link = run[p].link
    <3> HIDE DEF A
    <3>1. run' = [run EXCEPT ![p].page = @ \ {item}, ![p].awaited = A]
      BY <2>1 DEF A
    <3> QED
      BY <1>0, <3>1 DEF Memory, WalkKept
  <2>4. Stores(p, item)
    BY <1>6, <2>1, <2>2, <2>3 DEF StoreEvent, Stores, Removed, history
  <2> QED
    BY <2>4 DEF Effect
<1>7. CASE FetchSeriesMaster(p)
  <2>1. /\ run'[p].awaited = {} /\ run'[p].fetched = run[p].fetched \cup run[p].awaited
        /\ run'[p].pc = run[p].pc /\ run'[p].page = run[p].page /\ WalkKept(p)
        /\ run'[p].doomed = run[p].doomed
        /\ run'[p].url = run[p].url /\ run'[p].link = run[p].link
    BY <1>0, <1>7 DEF FetchSeriesMaster, Memory, WalkKept
  <2>2. /\ masters \subseteq masters' /\ unfetched \subseteq unfetched'
        /\ run[p].awaited \subseteq masters' \cup unfetched'
    BY <1>7 DEF FetchSeriesMaster, HasEvent, history
  <2> QED
    BY <1>7, <2>1, <2>2 DEF FetchSeriesMaster, AsksMaster, Effect
<1>8. CASE EventBounds(p)
  <2>1. PICK item \in run[p].page :
          /\ Removed(item, run[p].window)
          /\ LET own == Owned(rows[item.id], run[p].window) IN
               run' = [run EXCEPT ![p].page = @ \ {item},
                                  ![p].pc = IF own THEN "tombstone" ELSE "apply",
                                  ![p].doomed = IF own THEN {item.id} ELSE {}]
    BY <1>8 DEF EventBounds
  <2> DEFINE own == Owned(rows[item.id], run[p].window)
             D == IF own THEN {item.id} ELSE {}
             s == IF own THEN "tombstone" ELSE "apply"
  <2>2. item.id \in Events /\ run[p].window \in AllWindows /\ s \in {"apply", "tombstone"}
    BY <1>8, Locals, Resting DEF Item, EventBounds
  <2>3. /\ run'[p].page = run[p].page \ {item} /\ run'[p].pc = s /\ run'[p].doomed = D
        /\ WalkKept(p) /\ run'[p].awaited = run[p].awaited
        /\ run'[p].fetched = run[p].fetched
        /\ run'[p].url = run[p].url /\ run'[p].link = run[p].link
    <3> HIDE DEF D, s
    <3>1. run' = [run EXCEPT ![p].page = @ \ {item}, ![p].pc = s, ![p].doomed = D]
      BY <2>1 DEF D, s
    <3> QED
      BY <1>0, <3>1 DEF Memory, WalkKept
  <2>4. Judges(p, item)
    BY <1>8, <2>1, <2>2, <2>3 DEF EventBounds, Judges, Removed, StoreKept, store, history
  <2> QED
    BY <2>4 DEF Effect
<1>9. CASE TombstoneCalendarEvent(p)
  <2>1. /\ run'[p].pc = "apply" /\ run'[p].doomed = {}
        /\ run'[p].page = run[p].page /\ run'[p].awaited = run[p].awaited /\ WalkKept(p)
        /\ run'[p].fetched = run[p].fetched
        /\ run'[p].url = run[p].url /\ run'[p].link = run[p].link
    BY <1>0, <1>9 DEF TombstoneCalendarEvent, Memory, WalkKept
  <2> QED
    BY <1>9, <2>1 DEF TombstoneCalendarEvent, Tombstones, Effect, history
<1>10. CASE SaveCalendarWindowNextLink(p)
  <2> DEFINE w == run[p].window
  <2>1. run[p].pc = "apply" /\ w \in AllWindows /\ run[p].page = {} /\ run[p].awaited = {}
    BY <1>10, Resting DEF SaveCalendarWindowNextLink, PageApplied
  <2>2. /\ run'[p].pc = "fetch" /\ run'[p].url = run[p].link /\ run'[p].link = NoLink
        /\ run'[p].page = run[p].page /\ run'[p].awaited = run[p].awaited /\ WalkKept(p)
        /\ run'[p].fetched = run[p].fetched /\ run'[p].doomed = run[p].doomed
    BY <1>0, <1>10 DEF SaveCalendarWindowNextLink, Memory, WalkKept
  <2>3. /\ sync'[w] = [sync[w] EXCEPT !.next = run[p].link]
        /\ \A v \in AllWindows \ {w} : sync'[v] = sync[v]
        /\ sync[w] \in WindowState
    BY <1>10, <2>1 DEF SaveCalendarWindowNextLink, TypeOK
  <2>4. sync'[w].delta = sync[w].delta /\ sync'[w].next = run[p].link
    BY <2>3 DEF WindowState
  <2>5. Saves(p)
    BY <1>10, <2>1, <2>2, <2>3, <2>4 DEF SaveCalendarWindowNextLink, Saves, history
  <2> QED
    BY <2>5 DEF Effect
<1>11. CASE CommitCalendarWindowDeltaLink(p)
  <2> DEFINE w == run[p].window
             n == IF run[p].link.upto > 0 THEN run[p].link.upto ELSE run[p].base
             st == [next |-> NoLink, delta |-> n, failing |-> FALSE]
  <2>1. run[p].pc = "apply" /\ w \in AllWindows /\ run[p].page = {} /\ run[p].awaited = {}
    BY <1>11, Resting DEF CommitCalendarWindowDeltaLink, PageApplied
  <2>2. Rests(p)
    BY <1>11, RestsIdled DEF CommitCalendarWindowDeltaLink
  <2>3. sync'[w] = st /\ \A v \in AllWindows \ {w} : sync'[v] = sync[v]
    BY <1>11, <2>1 DEF CommitCalendarWindowDeltaLink, TypeOK
  <2>4. Commits(p)
    BY <1>11, <2>1, <2>2, <2>3 DEF CommitCalendarWindowDeltaLink, Commits, history
  <2> QED
    BY <2>4 DEF Effect
<1>12. CASE RangePage(p)
  <2>1. PICK listed \in SUBSET run[p].url.todo :
          run' = [run EXCEPT ![p].pc = "store",
                    ![p].page = {ItemOf(e) : e \in {l \in listed : InView(cal[l], run[p].window)}},
                    ![p].url.todo = @ \ listed]
    BY <1>12 DEF RangePage
  <2> DEFINE L == {l \in listed : InView(cal[l], run[p].window)}
             P == {ItemOf(e) : e \in L}
  <2>2. L \in SUBSET Events
    BY Locals, LinkFacts
  <2>3. run[p].url \in Link
    BY Locals
  <2>4. Lists(p, L)
    <3> HIDE DEF P
    <3>1. run' = [run EXCEPT ![p].pc = "store", ![p].page = P, ![p].url.todo = @ \ listed]
      BY <2>1 DEF P
    <3>2. /\ run'[p].pc = "store" /\ run'[p].page = P /\ run'[p].url.upto = run[p].url.upto
          /\ run'[p].link = run[p].link /\ BagKept(p) /\ WalkKept(p)
      BY <1>0, <2>3, <3>1 DEF Memory, Link, BagKept, WalkKept
    <3> QED
      BY <1>12, <2>2, <3>2 DEF RangePage, Lists, StoreKept, store, history, P
  <2> QED
    BY <2>2, <2>4 DEF Effect
<1>13. CASE RangeNext(p)
  <2>1. run[p].page = {} /\ run[p].awaited = {} /\ run[p].doomed = {}
    BY <1>13, Resting DEF RangeNext
  <2>2. Rests(p)
    <3>1. CASE run[p].url.todo = {}
      BY <1>13, <3>1, RestsIdled DEF RangeNext
    <3>2. CASE run[p].url.todo # {}
      <4>1. run' = [run EXCEPT ![p].pc = "list"]
        BY <1>13, <3>2 DEF RangeNext
      <4>2. /\ run'[p].pc = "list" /\ run'[p].page = run[p].page
            /\ run'[p].awaited = run[p].awaited /\ run'[p].doomed = run[p].doomed
            /\ run'[p].fetched = run[p].fetched /\ run'[p].base = run[p].base
            /\ run'[p].url = run[p].url /\ run'[p].link = run[p].link
        BY <1>0, <4>1 DEF Memory
      <4> QED
        BY <2>1, <4>2 DEF Rests, Walking
    <3> QED
      BY <3>1, <3>2
  <2> QED
    BY <1>13, <2>2, LinksDropCases DEF RangeNext, Effect, Stops, store, history
<1> QED
  BY <1>1, <1>2, <1>3, <1>4, <1>5, <1>6, <1>7, <1>8, <1>9, <1>10, <1>11, <1>12, <1>13 DEF Continue

LEMMA EffectOfFailure ==
    ASSUME TypeOK, NEW p \in Procs, Failure(p) \/ Command(p)
    PROVE  Effect(p)
<1>0. run \in [Procs -> Memory] /\ run[p] \in Memory
  BY DEF TypeOK
<1>1. CASE FetchEmptyBody(p)
  <2>1. /\ run'[p].pc = "apply" /\ run'[p].url = run[p].url /\ run'[p].page = run[p].page
        /\ run'[p].link = NoLink /\ BagKept(p) /\ WalkKept(p)
    BY <1>0, <1>1 DEF FetchEmptyBody, Memory, BagKept, WalkKept
  <2> QED
    BY <1>1, <2>1 DEF FetchEmptyBody, FetchesNothing, StoreKept, Effect, store
<1>2. CASE FetchFails(p) \/ ItemFails(p) \/ CursorFails(p)
  <2>1. Return(p) /\ UNCHANGED <<rows, masters, unfetched>>
    BY <1>2 DEF FetchFails, ItemFails, CursorFails, store
  <2>2. UNCHANGED sync \/ \E w \in AllWindows : RecordCalendarWindowFailure(w)
    BY <1>2, Resting DEF FetchFails, ItemFails, CursorFails, store
  <2> QED
    BY <2>1, <2>2, RestsIdled, LinksDropCases DEF Stops, Effect
<1>3. CASE RangeFails(p) \/ Crash(p)
  <2>1. run' = [run EXCEPT ![p] = Idle] /\ UNCHANGED <<rows, masters, unfetched, sync>>
    BY <1>3 DEF RangeFails, Crash, store, history
  <2> QED
    BY <2>1, RestsIdled, LinksDropCases DEF Stops, Effect
<1>4. CASE SyncWindows(p) \/ SyncFull(p)
  <2>1. run[p] = Idle /\ run' = [run EXCEPT ![p].queue = CurrentWindows]
        /\ UNCHANGED <<rows, masters, unfetched>>
    BY <1>4 DEF SyncWindows, SyncFull, store, history
  <2>2. run' = [run EXCEPT ![p] = [Idle EXCEPT !.queue = CurrentWindows]]
    BY <1>0, <2>1
  <2>3. LinksDrop
    BY <1>4, LinksDropCases DEF SyncWindows, SyncFull, store
  <2> QED
    BY <2>1, <2>2, <2>3, RestsIdled DEF Stops, Effect
<1>5. ASSUME NEW b \in Bounds, SyncRange(p, b) PROVE Effect(p)
  <2> DEFINE T == {e \in Events : InView(cal[e], b)}
  <2>1. run[p] = Idle /\ run' = [run EXCEPT ![p].pc = "list", ![p].window = b, ![p].url.todo = T]
    BY <1>5 DEF SyncRange
  <2> HIDE DEF T
  <2>2. run[p].url \in Link
    BY Locals
  <2>3. /\ run'[p].pc = "list" /\ run'[p].page = run[p].page
        /\ run'[p].awaited = run[p].awaited /\ run'[p].doomed = run[p].doomed
        /\ run'[p].fetched = run[p].fetched /\ run'[p].base = run[p].base
        /\ run'[p].url.upto = run[p].url.upto /\ run'[p].link = run[p].link
    BY <1>0, <2>1, <2>2 DEF Memory, Link
  <2>4. Rests(p)
    <3>1. run[p].page = {} /\ run[p].awaited = {} /\ run[p].doomed = {}
      BY <2>1 DEF Idle
    <3> QED
      BY <2>3, <3>1 DEF Rests, Walking
  <2> QED
    BY <1>5, <2>4, LinksDropCases DEF SyncRange, Stops, Effect, store
<1> QED
  BY <1>1, <1>2, <1>3, <1>4, <1>5 DEF Failure, Command

\* A step of the system, as the proofs below take it apart.
LEMMA StepsTaken ==
    ASSUME TypeOK, [Next]_vars
    PROVE  \/ Calendar
           \/ \E p \in Procs : /\ Effect(p) /\ UNCHANGED graph
                              /\ \A q \in Procs \ {p} : run'[q] = run[q]
           \/ UNCHANGED vars
BY Moves, OthersWait, EffectOfContinue, EffectOfFailure

-----------------------------------------------------------------------------
(* What the links and the pages stand for *)

Ids(items) == {item.id : item \in items}

\* No link is ahead of the calendar, and only a walk on its way has events to list.
LinksIssued ==
    /\ clock >= 1
    /\ \A e \in Events : cal[e].ver >= 1 /\ cal[e].ver <= clock
    /\ \A w \in AllWindows : sync[w].delta <= clock /\ sync[w].next.upto <= clock
    /\ \A p \in Procs :
         /\ run[p].base <= clock /\ run[p].url.upto <= clock /\ run[p].link.upto <= clock
         /\ run[p].pc = "fetch" /\ ~run[p].url.paging => run[p].url.todo = {}
         /\ ~run[p].link.paging => run[p].link.todo = {}

\* An item in memory shows the event as it is, or the walk does not stand for it.
PagesHonest == \A p \in Procs : \A i \in run[p].page :
    i = ItemOf(i.id) \/ (i.ver < cal[i.id].ver /\ run[p].link.upto < cal[i.id].ver)

LinkInv == TypeOK /\ LinksIssued /\ PagesHonest

LEMMA LinkInit == ASSUME Init PROVE LinkInv
<1>1. \A e \in Events : cal[e].ver = 1
  BY DEF Init
<1>2. \A w \in AllWindows : sync[w].delta = 0 /\ sync[w].next = NoLink
  BY DEF Init, NoState
<1>3. \A p \in Procs : /\ run[p].pc = "idle" /\ run[p].page = {}
                       /\ run[p].base = 0 /\ run[p].url = NoLink /\ run[p].link = NoLink
  BY IdleFields DEF Init, Fresh
<1>4. LinksIssued
  BY <1>1, <1>2, <1>3, LinkFacts DEF Init, LinksIssued
<1>5. PagesHonest
  BY <1>3 DEF PagesHonest
<1> QED
  BY <1>4, <1>5, TypeInit DEF LinkInv

LEMMA Numbers ==
    ASSUME TypeOK
    PROVE  /\ clock \in Nat
           /\ \A e \in Events : cal[e] \in Event /\ cal[e].ver \in Nat
           /\ \A w \in AllWindows : sync[w].delta \in Nat /\ sync[w].next \in Link /\ sync[w].next.upto \in Nat
           /\ \A p \in Procs : /\ run[p].base \in Nat /\ run[p].url.upto \in Nat
                               /\ run[p].link.upto \in Nat
                               /\ \A i \in run[p].page : i \in Item /\ i.id \in Events /\ i.ver \in Nat
BY Locals, LinkFacts DEF TypeOK, Event, Item

\* A change of the calendar has a number that no link has reached.
LEMMA LinkCalendar == ASSUME LinkInv, Calendar PROVE LinkInv'
<1>0. TypeOK /\ TypeOK'
  BY TypeCalendar DEF LinkInv
<1>1. ASSUME NEW e \in Events, NEW b \in Bounds, NEW alive \in BOOLEAN, CalendarChange(e, b, alive)
      PROVE  LinksIssued' /\ PagesHonest'
  <2>1. /\ clock' = clock + 1 /\ UNCHANGED <<run, sync>>
        /\ cal'[e].ver = clock + 1 /\ \A f \in Events \ {e} : cal'[f] = cal[f]
    BY <1>0, <1>1 DEF CalendarChange, store, TypeOK
  <2>2. LinksIssued'
    BY <1>0, <2>1, Numbers DEF LinkInv, LinksIssued
  <2>3. ASSUME NEW p \in Procs, NEW i \in run[p].page
        PROVE  i = ItemOf(i.id)' \/ (i.ver < cal'[i.id].ver /\ run[p].link.upto < cal'[i.id].ver)
    <3>1. i.id \in Events /\ i.ver \in Nat /\ run[p].link.upto \in Nat /\ clock \in Nat
      BY <1>0, Numbers
    <3>2. CASE i.id = e
      <4>1. i.ver <= cal[i.id].ver
        BY <1>0, <3>1, Numbers DEF LinkInv, PagesHonest, ItemOf
      <4>2. i.ver <= clock /\ run[p].link.upto <= clock
        BY <1>0, <3>1, <4>1, Numbers DEF LinkInv, LinksIssued
      <4> QED
        BY <2>1, <3>1, <3>2, <4>2
    <3>3. CASE i.id # e
      <4>1. cal'[i.id] = cal[i.id]
        BY <2>1, <3>1, <3>3
      <4>2. ItemOf(i.id)' = ItemOf(i.id)
        BY <4>1 DEF ItemOf
      <4> QED
        BY <4>1, <4>2 DEF LinkInv, PagesHonest
    <3> QED
      BY <3>2, <3>3
  <2>4. PagesHonest'
    BY <2>1, <2>3 DEF PagesHonest
  <2> QED
    BY <2>2, <2>4
<1>2. ASSUME NewMonth \/ \E w \in AllWindows : Expire(w)
      PROVE  LinksIssued' /\ PagesHonest'
  <2>1. UNCHANGED <<cal, run, sync>> /\ clock' \in {clock, clock + 1}
    BY <1>2 DEF NewMonth, Expire, store
  <2>2. LinksIssued'
    BY <1>0, <2>1, Numbers DEF LinkInv, LinksIssued
  <2>3. PagesHonest'
    BY <2>1 DEF LinkInv, PagesHonest, ItemOf
  <2> QED
    BY <2>2, <2>3
<1> QED
  BY <1>0, <1>1, <1>2 DEF Calendar, LinkInv

\* A step of p that respects what the links and the pages stand for.
LEMMA LinkStep ==
    ASSUME LinkInv, TypeOK', NEW p \in Procs, UNCHANGED graph,
           \A q \in Procs \ {p} : run'[q] = run[q],
           \A w \in AllWindows : sync'[w].delta <= clock /\ sync'[w].next.upto <= clock,
           run'[p].base <= clock, run'[p].url.upto <= clock, run'[p].link.upto <= clock,
           run'[p].pc = "fetch" /\ ~run'[p].url.paging => run'[p].url.todo = {},
           ~run'[p].link.paging => run'[p].link.todo = {},
           \A i \in run'[p].page :
             \/ i = ItemOf(i.id)
             \/ i.ver < cal[i.id].ver /\ run'[p].link.upto < cal[i.id].ver
    PROVE  LinkInv'
<1>1. LinksIssued'
  BY DEF LinkInv, LinksIssued, graph
<1>2. PagesHonest'
  BY DEF LinkInv, PagesHonest, ItemOf, graph
<1> QED
  BY <1>1, <1>2 DEF LinkInv

LEMMA LinkEffect ==
    ASSUME LinkInv, TypeOK', NEW p \in Procs, Effect(p), UNCHANGED graph,
           \A q \in Procs \ {p} : run'[q] = run[q]
    PROVE  LinkInv'
<1> DEFINE r == run[p]
           s == run'[p]
           Honest(i, n) == i = ItemOf(i.id) \/ (i.ver < cal[i.id].ver /\ n < cal[i.id].ver)
<1>0. TypeOK
  BY DEF LinkInv
<1>1. /\ clock \in Nat /\ clock >= 1
      /\ \A w \in AllWindows : sync[w].delta <= clock /\ sync[w].next.upto <= clock
      /\ r.base <= clock /\ r.url.upto <= clock /\ r.link.upto <= clock
      /\ r.pc = "fetch" /\ ~r.url.paging => r.url.todo = {}
      /\ ~r.link.paging => r.link.todo = {}
  BY <1>0, Numbers DEF LinkInv, LinksIssued
<1>2. \A i \in r.page : Honest(i, r.link.upto)
  BY DEF LinkInv, PagesHonest
<1>3. \A e : ItemOf(ItemOf(e).id) = ItemOf(e) /\ ItemOf(e).id = e
  <2>1. \A e : ItemOf(e).id = e
    BY DEF ItemOf
  <2> QED
    BY <2>1
<1>4. CASE Stops(p)
  <2>1. \A w \in AllWindows : sync'[w].delta <= clock /\ sync'[w].next.upto <= clock
    BY <1>1, <1>4, LinkFacts DEF Stops, LinksDrop
  <2>2. s.page = {} /\ s.pc # "fetch" /\ s.base <= clock /\ s.url.upto <= clock
        /\ (s.link = NoLink \/ s.link = r.link)
    BY <1>1, <1>4 DEF Stops, Rests, Walking
  <2> QED
    BY <1>1, <2>1, <2>2, LinkFacts, LinkStep
<1>5. CASE Begins(p)
  <2>1. s.url.upto <= clock /\ (~s.url.paging => s.url.todo = {}) /\ s.base <= clock
    BY <1>0, <1>1, <1>5, Numbers, LinkFacts DEF Begins
  <2> QED
    BY <1>1, <1>2, <1>5, <2>1, LinkStep DEF Begins, StoreKept
<1>6. ASSUME NEW walk \in Link, NEW listed \in SUBSET walk.todo, Fetches(p, walk, listed)
      PROVE  LinkInv'
  <2>1. walk.upto <= clock
    BY <1>1, <1>6 DEF Fetches, WalksOf
  <2>2. \A i \in s.page : i = ItemOf(i.id)
    BY <1>3, <1>6 DEF Fetches
  <2> QED
    BY <1>1, <1>6, <2>1, <2>2, LinkStep DEF Fetches, StoreKept, WalkKept
<1>7. CASE FetchesNothing(p)
  <2>1. \A i \in r.page : Honest(i, 0)
    BY <1>0, <1>1, <1>2, Numbers DEF LinkInv, LinksIssued
  <2> QED
    BY <1>1, <1>7, <2>1, LinkFacts, LinkStep DEF FetchesNothing, StoreKept, WalkKept
<1>8. ASSUME NEW item \in run[p].page, Stores(p, item) \/ Judges(p, item) PROVE LinkInv'
  <2>1. UNCHANGED sync /\ s.url = r.url /\ s.link = r.link /\ s.page \subseteq r.page /\ WalkKept(p)
        /\ s.pc # "fetch"
    BY <1>8 DEF Stores, Judges, StoreKept
  <2> QED
    BY <1>1, <1>2, <2>1, LinkStep DEF WalkKept
<1>9. CASE AsksMaster(p) \/ Tombstones(p)
  <2>1. UNCHANGED sync /\ s.url = r.url /\ s.link = r.link /\ s.page = r.page /\ WalkKept(p)
        /\ (s.pc = "fetch" => r.pc = "fetch")
    BY <1>9 DEF AsksMaster, Tombstones
  <2> QED
    BY <1>1, <1>2, <2>1, LinkStep DEF WalkKept
<1>10. CASE Saves(p)
  <2>1. \A w \in AllWindows : sync'[w].delta <= clock /\ sync'[w].next.upto <= clock
    BY <1>1, <1>10 DEF Saves
  <2> QED
    BY <1>1, <1>10, <2>1, LinkFacts, LinkStep DEF Saves, WalkKept
<1>11. CASE Commits(p)
  <2>1. \A w \in AllWindows : sync'[w].delta <= clock /\ sync'[w].next.upto <= clock
    BY <1>1, <1>11, LinkFacts DEF Commits
  <2>2. s.page = {} /\ s.pc # "fetch" /\ s.base <= clock /\ s.url.upto <= clock
        /\ (s.link = NoLink \/ s.link = r.link)
    BY <1>1, <1>11 DEF Commits, Rests, Walking
  <2> QED
    BY <1>1, <2>1, <2>2, LinkFacts, LinkStep
<1>12. ASSUME NEW listed \in SUBSET Events, Lists(p, listed) PROVE LinkInv'
  <2>1. \A i \in s.page : i = ItemOf(i.id)
    BY <1>3, <1>12 DEF Lists
  <2> QED
    BY <1>1, <1>12, <2>1, LinkStep DEF Lists, StoreKept, WalkKept
<1> QED
  BY <1>4, <1>5, <1>6, <1>7, <1>8, <1>9, <1>10, <1>11, <1>12 DEF Effect

LEMMA LinkNext == ASSUME LinkInv, [Next]_vars PROVE LinkInv'
<1>1. TypeOK /\ TypeOK'
  BY TypeNext DEF LinkInv
<1>2. CASE UNCHANGED vars
  BY <1>1, <1>2 DEF LinkInv, LinksIssued, PagesHonest, ItemOf, vars, graph, store
<1> QED
  BY <1>1, <1>2, LinkCalendar, LinkEffect, StepsTaken

-----------------------------------------------------------------------------
(* Which events the cursors and the walks stand for, and how a step changes them *)

\* The events that number n of window w stands for, those of todo apart.
Claims(w, n, todo) == {e \in Events \ todo : InView(cal[e], w) /\ cal[e].ver <= n}

\* What the stored links stand for.
Promised == UNION {Claims(w, sync[w].delta, {}) : w \in AllWindows}
Resumable == UNION {Claims(w, sync[w].next.upto, sync[w].next.todo) :
                      w \in {v \in AllWindows : sync[v].next.paging}}
Cursors == Promised \cup Resumable

\* What the walk of p relies on: what its window's delta link stood for when it
\* began, and what the link it will write will stand for.
Ahead(r) == IF r.pc = "fetch" THEN Claims(r.window, r.url.upto, r.url.todo)
            ELSE Claims(r.window, r.link.upto, r.link.todo \cup Ids(r.page))
Walked(p) == IF run[p].pc \in Walking
             THEN Claims(run[p].window, run[p].base, {}) \cup Ahead(run[p])
             ELSE {}

\* The events that a step leaves alone.
Kept == {e \in Events : cal'[e] = cal[e]}

\* A change of the calendar takes its event out of what links and walks stand for.
LEMMA ClaimsShrink ==
    ASSUME LinkInv, Calendar
    PROVE  /\ Cursors' \subseteq Cursors \cap Kept
           /\ \A p \in Procs : Walked(p)' \subseteq Walked(p) \cap Kept
<1>0. TypeOK /\ UNCHANGED <<run, sync>>
  BY DEF LinkInv, Calendar, CalendarChange, NewMonth, Expire, store
<1>1. ASSUME NEW w, NEW n \in Nat, n <= clock, NEW todo
      PROVE  Claims(w, n, todo)' \subseteq Claims(w, n, todo) \cap Kept
  <2>1. ASSUME NEW e \in Events, NEW b \in Bounds, NEW alive \in BOOLEAN, CalendarChange(e, b, alive)
        PROVE  Claims(w, n, todo)' \subseteq Claims(w, n, todo) \cap Kept
    <3>1. cal'[e].ver = clock + 1 /\ \A f \in Events \ {e} : cal'[f] = cal[f]
      BY <1>0, <2>1 DEF CalendarChange, TypeOK
    <3>2. ASSUME NEW f \in Claims(w, n, todo)' PROVE f \in Claims(w, n, todo) \cap Kept
      BY <1>0, <1>1, <3>1, Numbers DEF Claims, InView, Kept
    <3> QED
      BY <3>2
  <2>2. ASSUME UNCHANGED cal PROVE Claims(w, n, todo)' \subseteq Claims(w, n, todo) \cap Kept
    BY <2>2 DEF Claims, InView, Kept
  <2> QED
    BY <2>1, <2>2 DEF Calendar, NewMonth, Expire
<1>2. ASSUME NEW e \in Cursors' PROVE e \in Cursors \cap Kept
  <2>1. \A w \in AllWindows : /\ sync[w].delta \in Nat /\ sync[w].delta <= clock
                              /\ sync[w].next.upto \in Nat /\ sync[w].next.upto <= clock
    BY <1>0, Numbers DEF LinkInv, LinksIssued
  <2>2. \A w \in AllWindows :
          /\ Claims(w, sync[w].delta, {})' \subseteq Claims(w, sync[w].delta, {}) \cap Kept
          /\ Claims(w, sync[w].next.upto, sync[w].next.todo)' \subseteq
               Claims(w, sync[w].next.upto, sync[w].next.todo) \cap Kept
    BY <1>0, <1>1, <2>1
  <2> QED
    BY <1>0, <1>2, <2>2 DEF Cursors, Promised, Resumable
<1>3. ASSUME NEW p \in Procs PROVE Walked(p)' \subseteq Walked(p) \cap Kept
  <2>1. /\ run[p].base \in Nat /\ run[p].base <= clock
        /\ run[p].url.upto \in Nat /\ run[p].url.upto <= clock
        /\ run[p].link.upto \in Nat /\ run[p].link.upto <= clock
    BY <1>0, Numbers DEF LinkInv, LinksIssued
  <2>2. Claims(run[p].window, run[p].base, {})' \subseteq Claims(run[p].window, run[p].base, {}) \cap Kept
    BY <1>0, <1>1, <2>1
  <2>3. Claims(run[p].window, run[p].url.upto, run[p].url.todo)' \subseteq
          Claims(run[p].window, run[p].url.upto, run[p].url.todo) \cap Kept
    BY <1>0, <1>1, <2>1
  <2>4. Claims(run[p].window, run[p].link.upto, run[p].link.todo \cup Ids(run[p].page))' \subseteq
          Claims(run[p].window, run[p].link.upto, run[p].link.todo \cup Ids(run[p].page)) \cap Kept
    <3> DEFINE T == run[p].link.todo \cup Ids(run[p].page)
    <3>1. T' = T
      BY <1>0 DEF Ids
    <3> QED
      BY <1>0, <1>1, <2>1, <3>1
  <2> QED
    BY <1>0, <2>2, <2>3, <2>4 DEF Walked, Ahead
<1> QED
  BY <1>2, <1>3

LEMMA ItemIds ==
    /\ \A e : ItemOf(e).id = e
    /\ \A listed : Ids({ItemOf(e) : e \in listed}) = listed
<1>1. \A e : ItemOf(e).id = e
  BY DEF ItemOf
<1> QED
  BY <1>1 DEF Ids

\* The events of the walk of p, read off its place.
LEMMA WalkedAt ==
    ASSUME NEW p \in Procs
    PROVE  /\ run[p].pc \in Walking => Claims(run[p].window, run[p].base, {}) \subseteq Walked(p)
           /\ run[p].pc = "fetch" =>
                Claims(run[p].window, run[p].url.upto, run[p].url.todo) \subseteq Walked(p)
           /\ run[p].pc \in {"apply", "tombstone"} =>
                Claims(run[p].window, run[p].link.upto, run[p].link.todo \cup Ids(run[p].page))
                  \subseteq Walked(p)
           /\ run[p].pc \notin Walking => Walked(p) = {}
BY DEF Walked, Ahead, Walking

\* Membership in the events of the walk that p's next memory is in.
LEMMA WalkedAfter ==
    ASSUME NEW p \in Procs, UNCHANGED cal, NEW e \in Walked(p)'
    PROVE  /\ run'[p].pc \in Walking
           /\ \/ e \in Claims(run'[p].window, run'[p].base, {})
              \/ run'[p].pc = "fetch" /\ e \in Claims(run'[p].window, run'[p].url.upto, run'[p].url.todo)
              \/ /\ run'[p].pc \in {"apply", "tombstone"}
                 /\ e \in Claims(run'[p].window, run'[p].link.upto,
                                 run'[p].link.todo \cup Ids(run'[p].page))
BY DEF Walked, Ahead, Walking, Claims, InView, Ids

LEMMA CursorsAfter ==
    ASSUME UNCHANGED cal, NEW e \in Cursors'
    PROVE  \E w \in AllWindows :
             \/ e \in Claims(w, sync'[w].delta, {})
             \/ sync'[w].next.paging /\ e \in Claims(w, sync'[w].next.upto, sync'[w].next.todo)
BY DEF Cursors, Promised, Resumable, Claims, InView

LEMMA CursorsHold ==
    ASSUME NEW w \in AllWindows
    PROVE  /\ Claims(w, sync[w].delta, {}) \subseteq Cursors
           /\ sync[w].next.paging => Claims(w, sync[w].next.upto, sync[w].next.todo) \subseteq Cursors
BY DEF Cursors, Promised, Resumable

\* A link comes to stand only for what the walk that wrote it stood for, when
\* that walk was waiting for no master.
LEMMA CursorsFollow ==
    ASSUME LinkInv, NEW p \in Procs, Effect(p), UNCHANGED graph,
           NEW e \in Cursors'
    PROVE  e \in Cursors \/ (e \in Walked(p) /\ run[p].awaited = {} /\ run[p].pc = "apply")
<1> DEFINE r == run[p]
<1>0. TypeOK /\ UNCHANGED cal
  BY DEF LinkInv, graph
<1>1. PICK w \in AllWindows :
        \/ e \in Claims(w, sync'[w].delta, {})
        \/ sync'[w].next.paging /\ e \in Claims(w, sync'[w].next.upto, sync'[w].next.todo)
  BY <1>0, CursorsAfter
<1>2. e \in Events /\ cal[e].ver \in Nat /\ cal[e].ver >= 1
  BY <1>0, <1>1, Numbers DEF Claims, LinkInv, LinksIssued
<1>3. ASSUME sync'[w].delta = sync[w].delta, sync'[w].next = sync[w].next
      PROVE  e \in Cursors
  BY <1>1, <1>3, CursorsHold
<1>4. CASE Stops(p)
  <2>1. ~(sync'[w].delta = 0 /\ sync'[w].next = NoLink)
    BY <1>1, <1>2, LinkFacts DEF Claims
  <2> QED
    BY <1>3, <1>4, <2>1 DEF Stops, LinksDrop
<1>5. CASE Saves(p)
  <2>1. CASE w # r.window \/ e \in Claims(w, sync'[w].delta, {})
    BY <1>1, <1>5, <2>1, CursorsHold DEF Saves
  <2>2. CASE w = r.window /\ e \in Claims(w, sync'[w].next.upto, sync'[w].next.todo)
    <3>1. Ids(r.page) = {}
      BY <1>5 DEF Saves, Ids
    <3>2. e \in Claims(r.window, r.link.upto, r.link.todo \cup Ids(r.page))
      BY <1>5, <2>2, <3>1 DEF Saves
    <3> QED
      BY <1>5, <3>2, WalkedAt DEF Saves
  <2> QED
    BY <1>1, <2>1, <2>2
<1>6. CASE Commits(p)
  <2>1. CASE w # r.window
    BY <1>1, <1>6, <2>1, CursorsHold DEF Commits
  <2>2. CASE w = r.window /\ r.link.upto > 0
    <3>1. Ids(r.page) = {} /\ r.link.todo = {}
      BY <1>6 DEF Commits, Ids, LinkInv, LinksIssued
    <3>2. e \in Claims(r.window, r.link.upto, {})
      BY <1>1, <1>6, <2>2, LinkFacts DEF Commits
    <3>3. e \in Claims(r.window, r.link.upto, r.link.todo \cup Ids(r.page))
      BY <3>1, <3>2
    <3> QED
      BY <1>6, <3>3, WalkedAt DEF Commits
  <2>3. CASE w = r.window /\ ~(r.link.upto > 0)
    <3>1. e \in Claims(r.window, r.base, {})
      BY <1>1, <1>6, <2>3, LinkFacts DEF Commits
    <3> QED
      BY <1>6, <3>1, WalkedAt DEF Commits, Walking
  <2> QED
    BY <2>1, <2>2, <2>3
<1>7. CASE UNCHANGED sync
  BY <1>3, <1>7
<1> QED
  BY <1>4, <1>5, <1>6, <1>7 DEF Effect, Begins, Fetches, FetchesNothing, Stores, AsksMaster,
    Judges, Tombstones, Lists, StoreKept

\* A walk comes to stand for what it stood for, for what its window's links stood
\* for when it began, and for an event it has just stored as the event is.
LEMMA WalksFollow ==
    ASSUME LinkInv, NEW p \in Procs, Effect(p), UNCHANGED graph,
           NEW e \in Walked(p)'
    PROVE  \/ e \in Walked(p) \/ e \in Cursors
           \/ run[p].pc = "apply" /\ \E item \in run[p].page : Stores(p, item) /\ item = ItemOf(e)
<1> DEFINE r == run[p]
           s == run'[p]
<1>0. TypeOK /\ UNCHANGED cal
  BY DEF LinkInv, graph
<1>1. /\ s.pc \in Walking
      /\ \/ e \in Claims(s.window, s.base, {})
         \/ s.pc = "fetch" /\ e \in Claims(s.window, s.url.upto, s.url.todo)
         \/ s.pc \in {"apply", "tombstone"} /\ e \in Claims(s.window, s.link.upto, s.link.todo \cup Ids(s.page))
  BY <1>0, WalkedAfter
<1>2. e \in Events /\ cal[e].ver \in Nat /\ cal[e].ver >= 1
  BY <1>0, <1>1, Numbers DEF Claims, LinkInv, LinksIssued
<1>3. ASSUME WalkKept(p), r.pc \in Walking, e \in Claims(s.window, s.base, {}) PROVE e \in Walked(p)
  BY <1>3, WalkedAt DEF WalkKept
<1>4. CASE Begins(p)
  <2> DEFINE w == r.window
  <2>1. w \in AllWindows /\ s.window = w /\ s.base = sync[w].delta /\ s.pc = "fetch"
        /\ s.url = IF sync[w].next.paging THEN sync[w].next ELSE DeltaLink(sync[w].delta)
    BY <1>4 DEF Begins
  <2>2. CASE e \in Claims(w, s.base, {})
    BY <2>1, <2>2, CursorsHold
  <2>3. CASE e \in Claims(w, s.url.upto, s.url.todo)
    <3>1. CASE sync[w].next.paging
      BY <2>1, <2>3, <3>1, CursorsHold
    <3>2. CASE ~sync[w].next.paging
      <4>1. s.url.upto = sync[w].delta /\ s.url.todo = {}
        BY <1>0, <2>1, <3>2, Numbers, LinkFacts
      <4> QED
        BY <2>1, <2>3, <4>1, CursorsHold
    <3> QED
      BY <3>1, <3>2
  <2> QED
    BY <1>1, <2>1, <2>2, <2>3
<1>5. ASSUME NEW walk \in Link, NEW listed \in SUBSET walk.todo, Fetches(p, walk, listed)
      PROVE  e \in Walked(p)
  <2>1. s.window = r.window /\ r.pc = "fetch" /\ s.pc = "apply" /\ WalkKept(p)
    BY <1>5 DEF Fetches, WalkKept
  <2>2. CASE e \in Claims(s.window, s.base, {})
    BY <1>3, <2>1, <2>2 DEF Walking
  <2>3. CASE e \in Claims(s.window, s.link.upto, s.link.todo \cup Ids(s.page))
    <3>1. Ids(s.page) = listed
      BY <1>5, ItemIds DEF Fetches
    <3>2. s.link.todo \cup Ids(s.page) = walk.todo /\ s.link.upto = walk.upto
      BY <1>5, <3>1 DEF Fetches
    <3>3. e \notin walk.todo /\ InView(cal[e], r.window) /\ cal[e].ver <= walk.upto
      BY <2>1, <2>3, <3>2 DEF Claims
    <3>4. e \in Claims(r.window, r.url.upto, r.url.todo)
      <4>1. CASE r.url.paging
        BY <1>2, <1>5, <3>3, <4>1 DEF Fetches, WalksOf, Claims
      <4>2. CASE ~r.url.paging
        <5>1. r.url.todo = {} /\ r.url.upto \in Nat
          BY <1>0, <2>1, <4>2, Numbers DEF LinkInv, LinksIssued
        <5>2. Changed(r.window, r.url.upto) \subseteq walk.todo
          BY <1>5, <4>2 DEF Fetches, WalksOf
        <5>3. cal[e].ver <= r.url.upto
          BY <1>2, <3>3, <5>1, <5>2 DEF Changed
        <5> QED
          BY <1>2, <3>3, <5>1, <5>3 DEF Claims
      <4> QED
        BY <4>1, <4>2
    <3> QED
      BY <2>1, <3>4, WalkedAt
  <2> QED
    BY <1>1, <2>1, <2>2, <2>3
<1>6. CASE FetchesNothing(p)
  <2>1. r.pc = "fetch" /\ s.pc = "apply" /\ s.link.upto = 0 /\ WalkKept(p)
    BY <1>6, LinkFacts DEF FetchesNothing
  <2>2. e \in Claims(s.window, s.base, {})
    BY <1>1, <1>2, <2>1 DEF Claims
  <2> QED
    BY <1>3, <2>1, <2>2 DEF Walking
<1>7. ASSUME NEW item \in r.page, s.page = r.page \ {item}, s.link = r.link, WalkKept(p),
             r.pc = "apply", s.pc \in {"apply", "tombstone"}, e \notin Walked(p)
      PROVE  item = ItemOf(e) /\ InView(cal[e], r.window)
  <2>1. e \notin Claims(s.window, s.base, {})
    BY <1>3, <1>7 DEF Walking
  <2>2. e \in Claims(r.window, r.link.upto, r.link.todo \cup Ids(s.page))
    BY <1>1, <1>7, <2>1 DEF WalkKept
  <2>3. e \notin Claims(r.window, r.link.upto, r.link.todo \cup Ids(r.page))
    BY <1>7, WalkedAt
  <2>4. InView(cal[e], r.window) /\ cal[e].ver <= r.link.upto /\ e \in Ids(r.page) /\ e \notin Ids(s.page)
    BY <2>2, <2>3 DEF Claims
  <2>5. item.id = e
    BY <1>7, <2>4 DEF Ids
  <2>6. r.link.upto \in Nat
    BY <1>0, Numbers
  <2>7. item = ItemOf(item.id) \/ (item.ver < cal[item.id].ver /\ r.link.upto < cal[item.id].ver)
    BY DEF LinkInv, PagesHonest
  <2> QED
    BY <1>2, <2>4, <2>5, <2>6, <2>7
<1>8. ASSUME NEW item \in r.page, Stores(p, item)
      PROVE  e \in Walked(p) \/ (r.pc = "apply" /\ item = ItemOf(e))
  BY <1>1, <1>7, <1>8 DEF Stores, Walking
<1>9. ASSUME NEW item \in r.page, Judges(p, item) PROVE e \in Walked(p)
  <2>1. ~InView(item, r.window)
    BY <1>9 DEF Judges
  <2>2. InView(cal[e], r.window) => InView(ItemOf(e), r.window)
    BY DEF InView, ItemOf
  <2> QED
    BY <1>7, <1>9, <2>1, <2>2 DEF Judges
<1>10. CASE AsksMaster(p) \/ Tombstones(p)
  <2>1. /\ s.page = r.page /\ s.link = r.link /\ s.url = r.url /\ WalkKept(p)
        /\ r.pc = s.pc \/ (r.pc = "tombstone" /\ s.pc = "apply")
    BY <1>10 DEF AsksMaster, Tombstones
  <2> QED
    BY <1>1, <1>3, <2>1, WalkedAt DEF Walking, WalkKept
<1>11. CASE Saves(p)
  <2>1. Ids(r.page) = {}
    BY <1>11 DEF Saves, Ids
  <2>2. r.pc = "apply" /\ s.pc = "fetch" /\ s.url = r.link /\ WalkKept(p)
    BY <1>11 DEF Saves
  <2>3. CASE e \in Claims(s.window, s.base, {})
    BY <1>3, <2>2, <2>3 DEF Walking
  <2>4. CASE e \in Claims(s.window, s.url.upto, s.url.todo)
    <3>1. e \in Claims(r.window, r.link.upto, r.link.todo \cup Ids(r.page))
      BY <2>1, <2>2, <2>4 DEF WalkKept
    <3> QED
      BY <2>2, <3>1, WalkedAt
  <2> QED
    BY <1>1, <2>2, <2>3, <2>4
<1>12. ~(Stops(p) \/ Commits(p)) /\ \A listed \in SUBSET Events : ~Lists(p, listed)
  BY <1>1 DEF Stops, Commits, Rests, Lists, Walking
<1> QED
  BY <1>4, <1>5, <1>6, <1>8, <1>9, <1>10, <1>11, <1>12 DEF Effect

-----------------------------------------------------------------------------
(* Series masters *)

\* Events whose master is stored, or was refused.
Mastered == {e \in Events : Series[e] \in {None} \cup masters \cup unfetched}
Awaiting(p) == {e \in Events : Series[e] \in run[p].awaited}

MasterInv ==
    /\ Cursors \subseteq Mastered
    /\ \A p \in Procs : /\ run[p].fetched \subseteq masters \cup unfetched
                        /\ Walked(p) \subseteq Mastered \cup Awaiting(p)

\* At the start nothing is stood for.
LEMMA NothingClaimed == ASSUME Init PROVE Cursors = {} /\ \A p \in Procs : Walked(p) = {}
<1>1. LinkInv /\ TypeOK
  BY LinkInit DEF LinkInv
<1>2. \A p \in Procs : run[p].pc = "idle"
  BY IdleFields DEF Init, Fresh
<1>3. \A w \in AllWindows : Claims(w, sync[w].delta, {}) = {} /\ ~sync[w].next.paging
  <2>1. \A w \in AllWindows : sync[w].delta = 0 /\ sync[w].next = NoLink
    BY DEF Init, NoState
  <2>2. \A w : Claims(w, 0, {}) = {}
    BY <1>1, Numbers DEF Claims, LinkInv, LinksIssued
  <2> QED
    BY <2>1, <2>2, LinkFacts
<1> QED
  BY <1>2, <1>3 DEF Cursors, Promised, Resumable, Walked, Walking

LEMMA MasterInit == ASSUME Init PROVE MasterInv
<1>1. \A p \in Procs : run[p].fetched = {}
  BY IdleFields DEF Init, Fresh
<1> QED
  BY <1>1, NothingClaimed DEF MasterInv

LEMMA MasterEffect ==
    ASSUME LinkInv, MasterInv, NEW p \in Procs, Effect(p), UNCHANGED graph,
           \A q \in Procs \ {p} : run'[q] = run[q] /\ Walked(q)' \subseteq Walked(q)
    PROVE  MasterInv'
<1> DEFINE r == run[p]
           s == run'[p]
<1>0. TypeOK
  BY DEF LinkInv
<1>1. masters \subseteq masters' /\ unfetched \subseteq unfetched'
  BY DEF Effect, Stops, Begins, Fetches, FetchesNothing, Stores, AsksMaster, Judges, Tombstones,
    Saves, Commits, Lists, StoreKept
<1>2. Mastered \subseteq Mastered'
  BY <1>1 DEF Mastered
<1>3. Cursors' \subseteq Mastered'
  BY <1>2, CursorsFollow DEF MasterInv, Awaiting
<1>4. s.fetched \subseteq masters' \cup unfetched'
  <2>1. s.fetched \subseteq r.fetched \/ AsksMaster(p)
    BY DEF Effect, Stops, Begins, Fetches, FetchesNothing, Stores, Judges, Tombstones,
      Saves, Commits, Lists, BagKept, Rests
  <2> QED
    BY <1>1, <2>1 DEF MasterInv, AsksMaster
<1>5. ASSUME NEW e \in Walked(p)' PROVE e \in (Mastered \cup Awaiting(p))'
  <2>1. CASE e \in Mastered
    BY <1>2, <2>1
  <2>2. CASE e \in Awaiting(p)
    <3>1. r.awaited # {}
      BY <2>2 DEF Awaiting
    <3>2. ~(Stops(p) \/ Commits(p))
      BY <1>0, WalkedAfter DEF Stops, Commits, Rests, graph
    <3>3. r.awaited \subseteq s.awaited \/ AsksMaster(p)
      BY <3>1, <3>2 DEF Effect, Begins, Fetches, FetchesNothing, Stores, Judges, Tombstones,
        Saves, Lists, BagKept
    <3> QED
      BY <2>2, <3>3 DEF Awaiting, Mastered, AsksMaster
  <2>3. ASSUME NEW item \in r.page, Stores(p, item), item = ItemOf(e) PROVE e \in (Mastered \cup Awaiting(p))'
    <3>1. item.id = e /\ e \in Events /\ s.awaited = {Series[e]} \ ({None} \cup r.fetched)
      BY <2>3, ItemIds DEF Stores
    <3>2. Series[e] \in s.awaited \/ Series[e] = None \/ Series[e] \in r.fetched
      BY <3>1
    <3> QED
      BY <1>1, <3>1, <3>2 DEF Mastered, Awaiting, MasterInv
  <2> QED
    BY <2>1, <2>2, <2>3, WalksFollow DEF MasterInv
<1>6. ASSUME NEW q \in Procs \ {p}
      PROVE  /\ run'[q].fetched \subseteq masters' \cup unfetched'
             /\ Walked(q)' \subseteq (Mastered \cup Awaiting(q))'
  <2>1. Awaiting(q)' = Awaiting(q)
    BY DEF Awaiting
  <2> QED
    BY <1>1, <1>2, <2>1 DEF MasterInv
<1> QED
  BY <1>3, <1>4, <1>5, <1>6 DEF MasterInv

LEMMA OthersWalk ==
    ASSUME NEW q \in Procs, run'[q] = run[q], UNCHANGED cal
    PROVE  Walked(q)' \subseteq Walked(q)
BY DEF Walked, Ahead, Claims, InView, Ids

LEMMA MasterNext == ASSUME LinkInv, MasterInv, [Next]_vars PROVE MasterInv'
<1>0. TypeOK
  BY DEF LinkInv
<1>1. CASE UNCHANGED vars
  BY <1>1 DEF MasterInv, Cursors, Promised, Resumable, Walked, Ahead, Claims, InView, Ids, Mastered,
    Awaiting, vars, graph, store, history
<1>2. CASE Calendar
  <2>1. UNCHANGED <<run, masters, unfetched>>
    BY <1>2 DEF Calendar, CalendarChange, NewMonth, Expire, store, history
  <2>2. UNCHANGED Mastered /\ \A p \in Procs : Awaiting(p)' = Awaiting(p)
    BY <2>1 DEF Mastered, Awaiting
  <2> QED
    BY <1>2, <2>1, <2>2, ClaimsShrink DEF MasterInv
<1>3. ASSUME NEW p \in Procs, Effect(p), UNCHANGED graph, \A q \in Procs \ {p} : run'[q] = run[q]
      PROVE  MasterInv'
  BY <1>3, OthersWalk, MasterEffect DEF graph
<1> QED
  BY <1>0, <1>1, <1>2, <1>3, StepsTaken

\* A stored event that a delta link covers has its master, or its walk's one fetch
\* of it failed, however many processes synchronise the calendar.
THEOREM MastersAlwaysFollow == Spec => []MastersFollow
<1>1. Init => LinkInv /\ MasterInv
  BY LinkInit, MasterInit
<1>2. LinkInv /\ MasterInv /\ [Next]_vars => (LinkInv /\ MasterInv)'
  BY LinkNext, MasterNext
<1>3. MasterInv => MastersFollow
  <2> SUFFICES ASSUME MasterInv, NEW e \in Events, NEW w \in AllWindows,
                      InView(cal[e], w), cal[e].ver <= sync[w].delta
               PROVE  Series[e] \in {None} \cup masters \cup unfetched
    BY DEF MastersFollow
  <2>1. e \in Claims(w, sync[w].delta, {})
    BY DEF Claims
  <2> QED
    BY <2>1, CursorsHold DEF MasterInv, Mastered
<1> QED
  BY <1>1, <1>2, <1>3, PTL DEF Spec

-----------------------------------------------------------------------------
(* One process at a time *)

\* What follows is about a calendar that one process at a time synchronises.
OneProcess == \A p, q \in Procs : p = q

\* No row is newer than its event, nor than an item about to be applied.
VersionInv ==
    /\ \A e \in Events : rows[e].ver <= cal[e].ver
    /\ \A p \in Procs : \A i \in run[p].page : rows[i.id].ver <= i.ver /\ i.ver <= cal[i.id].ver
    /\ \A p \in Procs : \A i, j \in run[p].page : i.id = j.id => i = j

LEMMA VersionInit == ASSUME Init PROVE VersionInv
<1>1. \A e \in Events : rows[e].ver = 0 /\ cal[e].ver = 1
  BY DEF Init, NoRow
<1>2. \A p \in Procs : run[p].page = {}
  BY IdleFields DEF Init, Fresh
<1> QED
  BY <1>1, <1>2 DEF VersionInv

LEMMA RowTypes ==
    ASSUME TypeOK
    PROVE  \A e \in Events : rows[e] \in Row /\ rows[e].ver \in Nat /\ rows[e].live \in BOOLEAN
BY DEF TypeOK, Row

LEMMA VersionCalendar == ASSUME LinkInv, VersionInv, Calendar PROVE VersionInv'
<1>0. TypeOK /\ UNCHANGED <<run, rows>>
  BY DEF LinkInv, Calendar, CalendarChange, NewMonth, Expire, store
<1>1. \A e \in Events : cal'[e].ver \in Nat /\ cal[e].ver <= cal'[e].ver
  <2>1. ASSUME NEW e \in Events, NEW b \in Bounds, NEW alive \in BOOLEAN, CalendarChange(e, b, alive)
        PROVE  \A f \in Events : cal'[f].ver \in Nat /\ cal[f].ver <= cal'[f].ver
    <3>1. cal'[e].ver = clock + 1 /\ \A f \in Events \ {e} : cal'[f] = cal[f]
      BY <1>0, <2>1 DEF CalendarChange, TypeOK
    <3> QED
      BY <1>0, <3>1, Numbers DEF LinkInv, LinksIssued
  <2> QED
    BY <1>0, <2>1, Numbers DEF Calendar, NewMonth, Expire
<1> QED
  BY <1>0, <1>1, Numbers, RowTypes DEF VersionInv

\* What Stores does to the rows.
LEMMA StoredRow ==
    ASSUME TypeOK, NEW p \in Procs, NEW item \in run[p].page, Stores(p, item)
    PROVE  /\ rows'[item.id] = [at |-> item.at, ver |-> item.ver, live |-> TRUE]
           /\ \A e \in Events \ {item.id} : rows'[e] = rows[e]
BY DEF Stores, UpsertCalendarEvent, TypeOK

LEMMA TombstonedRow ==
    ASSUME TypeOK, NEW p \in Procs, Tombstones(p), NEW e \in Events
    PROVE  /\ rows'[e].at = rows[e].at /\ rows'[e].ver = rows[e].ver
           /\ e \in run[p].doomed => rows'[e].live = FALSE
           /\ e \notin run[p].doomed => rows'[e] = rows[e]
<1>1. rows[e] \in Row /\ rows'[e] = IF e \in run[p].doomed THEN [rows[e] EXCEPT !.live = FALSE] ELSE rows[e]
  BY RowTypes DEF Tombstones
<1>2. [rows[e] EXCEPT !.live = FALSE].at = rows[e].at /\ [rows[e] EXCEPT !.live = FALSE].ver = rows[e].ver
      /\ [rows[e] EXCEPT !.live = FALSE].live = FALSE
  BY <1>1 DEF Row
<1> QED
  BY <1>1, <1>2

LEMMA VersionEffect ==
    ASSUME OneProcess, LinkInv, VersionInv, NEW p \in Procs, Effect(p), UNCHANGED graph
    PROVE  VersionInv' /\ \A e \in Events : rows'[e].ver >= rows[e].ver
<1> DEFINE r == run[p]
           s == run'[p]
           Good == /\ \A i \in s.page : rows'[i.id].ver <= i.ver /\ i.ver <= cal[i.id].ver
                   /\ \A i, j \in s.page : i.id = j.id => i = j
                   /\ \A e \in Events : rows'[e].ver >= rows[e].ver /\ rows'[e].ver <= cal[e].ver
<1>0. TypeOK /\ UNCHANGED cal
  BY DEF LinkInv, graph
<1>1. /\ \A e \in Events : rows[e].ver \in Nat /\ cal[e].ver \in Nat /\ rows[e].ver <= cal[e].ver
      /\ \A i \in r.page : i.id \in Events /\ i.ver \in Nat /\ rows[i.id].ver <= i.ver /\ i.ver <= cal[i.id].ver
      /\ \A i, j \in r.page : i.id = j.id => i = j
  BY <1>0, Numbers, RowTypes DEF VersionInv
<1>2. ASSUME Good PROVE VersionInv' /\ \A e \in Events : rows'[e].ver >= rows[e].ver
  BY <1>0, <1>2 DEF VersionInv, OneProcess
<1>3. ASSUME UNCHANGED rows, s.page \subseteq r.page PROVE Good
  BY <1>1, <1>3
<1>4. ASSUME NEW listed \in SUBSET Events, UNCHANGED rows, s.page = {ItemOf(e) : e \in listed} PROVE Good
  <2>1. \A e \in Events : ItemOf(e).id = e /\ ItemOf(e).ver = cal[e].ver
    BY DEF ItemOf
  <2> QED
    BY <1>1, <1>4, <2>1
<1>5. ASSUME NEW walk \in Link, NEW listed \in SUBSET walk.todo, Fetches(p, walk, listed) PROVE Good
  BY <1>4, <1>5, LinkFacts DEF Fetches, StoreKept
<1>6. ASSUME NEW item \in r.page, Stores(p, item) PROVE Good
  <2>1. item.id \in Events /\ s.page = r.page \ {item}
    BY <1>6 DEF Stores
  <2>2. rows'[item.id].ver = item.ver /\ \A e \in Events \ {item.id} : rows'[e] = rows[e]
    <3>1. rows'[item.id] = [at |-> item.at, ver |-> item.ver, live |-> TRUE]
          /\ \A e \in Events \ {item.id} : rows'[e] = rows[e]
      BY <1>0, <1>6, StoredRow
    <3> QED
      BY <3>1
  <2> QED
    BY <1>1, <2>1, <2>2
<1>7. ASSUME Tombstones(p) PROVE Good
  BY <1>0, <1>1, <1>7, TombstonedRow DEF Tombstones
<1>8. ASSUME Stops(p) \/ Begins(p) \/ FetchesNothing(p) \/ AsksMaster(p) \/ Saves(p) \/ Commits(p)
      PROVE  Good
  BY <1>3, <1>8 DEF Stops, Begins, FetchesNothing, AsksMaster, Saves, Commits, Rests, StoreKept
<1>9. ASSUME NEW item \in r.page, Judges(p, item) PROVE Good
  BY <1>3, <1>9 DEF Judges, StoreKept
<1>10. ASSUME NEW listed \in SUBSET Events, Lists(p, listed) PROVE Good
  BY <1>4, <1>10 DEF Lists, StoreKept
<1> HIDE DEF Good
<1>11. Good
  BY <1>5, <1>6, <1>7, <1>8, <1>9, <1>10 DEF Effect
<1> QED
  BY <1>2, <1>11

LEMMA VersionNext == ASSUME OneProcess, LinkInv, VersionInv, [Next]_vars
                     PROVE  VersionInv' /\ \A e \in Events : rows'[e].ver >= rows[e].ver
<1>0. TypeOK
  BY DEF LinkInv
<1>1. \A e \in Events : rows[e].ver >= rows[e].ver
  BY <1>0, RowTypes
<1>2. CASE UNCHANGED vars
  BY <1>1, <1>2 DEF VersionInv, vars, graph, store
<1>3. CASE Calendar
  <2>1. UNCHANGED rows
    BY <1>3 DEF Calendar, CalendarChange, NewMonth, Expire, store
  <2> QED
    BY <1>1, <1>3, <2>1, VersionCalendar
<1> QED
  BY <1>0, <1>2, <1>3, VersionEffect, StepsTaken

\* While one process at a time synchronises the calendar, no row goes back to an
\* older version of its event.
THEOREM RowsNeverGoBack == ASSUME OneProcess PROVE Spec => RowsOnlyAdvance
<1>1. Init => LinkInv /\ VersionInv
  BY LinkInit, VersionInit
<1>2. LinkInv /\ VersionInv /\ [Next]_vars => (LinkInv /\ VersionInv)'
  BY LinkNext, VersionNext
<1>3. LinkInv /\ VersionInv /\ [Next]_vars => [\A e \in Events : rows'[e].ver >= rows[e].ver]_vars
  BY VersionNext
<1> QED
  BY <1>1, <1>2, <1>3, PTL DEF Spec, RowsOnlyAdvance

-----------------------------------------------------------------------------
(* What the cursors stand for is stored *)

Stored == {e \in Events : cal[e].live /\ Current(e)}

\* What a link or a walk stands for is stored, and a row about to be tombstoned
\* does not show its event.
RowInv ==
    /\ Cursors \subseteq Stored
    /\ \A p \in Procs : Walked(p) \subseteq Stored /\ run[p].doomed \cap Stored = {}

LEMMA RowInit == ASSUME Init PROVE RowInv
<1>1. MasterInv /\ \A p \in Procs : run[p].doomed = {}
  BY MasterInit, IdleFields DEF Init, Fresh
<1>2. Cursors = {} /\ \A p \in Procs : Walked(p) = {}
  BY NothingClaimed
<1> QED
  BY <1>1, <1>2 DEF RowInv

LEMMA RowCalendar == ASSUME LinkInv, VersionInv, RowInv, Calendar PROVE RowInv'
<1>0. TypeOK /\ UNCHANGED <<run, rows>>
  BY DEF LinkInv, Calendar, CalendarChange, NewMonth, Expire, store
<1>1. Stored \cap Kept \subseteq Stored'
  BY <1>0 DEF Stored, Kept, Current
<1>2. Stored' \subseteq Stored
  <2>1. ASSUME NEW e \in Events, NEW b \in Bounds, NEW alive \in BOOLEAN, CalendarChange(e, b, alive)
        PROVE  Stored' \subseteq Stored
    <3>1. cal'[e].ver = clock + 1 /\ \A f \in Events \ {e} : cal'[f] = cal[f]
      BY <1>0, <2>1 DEF CalendarChange, TypeOK
    <3>2. rows[e].ver < cal'[e].ver
      BY <1>0, <3>1, Numbers, RowTypes DEF LinkInv, LinksIssued, VersionInv
    <3>3. e \notin Stored'
      BY <1>0, <3>1, <3>2, Numbers, RowTypes DEF Stored, Current
    <3> QED
      BY <1>0, <3>1, <3>3 DEF Stored, Current
  <2>2. ASSUME UNCHANGED cal PROVE Stored' \subseteq Stored
    BY <1>0, <2>2 DEF Stored, Current
  <2> QED
    BY <2>1, <2>2 DEF Calendar, NewMonth, Expire
<1> QED
  BY <1>0, <1>1, <1>2, ClaimsShrink DEF RowInv

LEMMA RowEffect ==
    ASSUME OneProcess, LinkInv, VersionInv, RowInv, NEW p \in Procs, Effect(p), UNCHANGED graph
    PROVE  RowInv'
<1> DEFINE r == run[p]
           s == run'[p]
<1>0. TypeOK /\ UNCHANGED cal
  BY DEF LinkInv, graph
<1>1. \A i \in r.page :
        /\ i.id \in Events /\ i.ver \in Nat /\ rows[i.id].ver <= i.ver
        /\ i = ItemOf(i.id) \/ i.ver < cal[i.id].ver
  BY <1>0, Numbers DEF LinkInv, PagesHonest, VersionInv
<1>2. ASSUME NEW item \in r.page, Stores(p, item)
      PROVE  Stored \subseteq Stored' /\ (item = ItemOf(item.id) => item.id \in Stored')
  <2>1. /\ rows'[item.id] = [at |-> item.at, ver |-> item.ver, live |-> TRUE]
        /\ \A e \in Events \ {item.id} : rows'[e] = rows[e]
    BY <1>0, <1>2, StoredRow
  <2>2. CASE item = ItemOf(item.id)
    <3>1. item.live /\ item.id \in Events
      BY <1>2 DEF Stores, InView
    <3>2. cal[item.id].live /\ cal[item.id].at = item.at /\ cal[item.id].ver = item.ver
      BY <2>2, <3>1 DEF ItemOf
    <3>3. item.id \in Stored'
      BY <1>0, <2>1, <3>1, <3>2 DEF Stored, Current
    <3> QED
      BY <1>0, <2>1, <3>3 DEF Stored, Current
  <2>3. CASE item.ver < cal[item.id].ver /\ item # ItemOf(item.id)
    <3>1. item.id \notin Stored
      BY <1>0, <1>1, <2>3, Numbers, RowTypes DEF Stored, Current
    <3> QED
      BY <1>0, <2>1, <2>3, <3>1 DEF Stored, Current
  <2> QED
    BY <1>1, <2>2, <2>3
<1>3. ASSUME Tombstones(p) PROVE Stored \subseteq Stored'
  BY <1>0, <1>3, TombstonedRow DEF Stored, Current, RowInv
<1>4. UNCHANGED rows => Stored' = Stored
  BY <1>0 DEF Stored, Current
<1>5. Stored \subseteq Stored'
  BY <1>2, <1>3, <1>4 DEF Effect, Stops, Begins, Fetches, FetchesNothing, AsksMaster,
    Judges, Saves, Commits, Lists, StoreKept
<1>6. Cursors' \subseteq Stored'
  BY <1>5, CursorsFollow DEF RowInv
<1>7. Walked(p)' \subseteq Stored'
  <2>1. ASSUME NEW e \in Walked(p)' PROVE e \in Stored'
    BY <1>2, <1>5, <2>1, WalksFollow, ItemIds DEF RowInv
  <2> QED
    BY <2>1
<1>8. s.doomed \cap Stored' = {}
  <2>1. ASSUME NEW item \in r.page, Judges(p, item) PROVE s.doomed \cap Stored' = {}
    <3>1. s.doomed = (IF Owned(rows[item.id], r.window) THEN {item.id} ELSE {}) /\ ~InView(item, r.window)
          /\ UNCHANGED rows
      BY <2>1 DEF Judges, StoreKept
    <3>2. ASSUME Owned(rows[item.id], r.window), item.id \in Stored PROVE FALSE
      <4>1. cal[item.id].live /\ rows[item.id].at = cal[item.id].at /\ rows[item.id].ver = cal[item.id].ver
        BY <3>2 DEF Stored, Current
      <4>2. InView(cal[item.id], r.window)
        BY <3>2, <4>1 DEF Owned, InView
      <4>3. item # ItemOf(item.id)
        BY <3>1, <4>2 DEF InView, ItemOf
      <4> QED
        BY <1>0, <1>1, <4>1, <4>3, Numbers, RowTypes
    <3> QED
      BY <1>4, <3>1, <3>2
  <2>2. ASSUME NEW item \in r.page, Stores(p, item) PROVE s.doomed = {}
    BY <1>0, <2>2, Resting DEF Stores
  <2>3. s.doomed \subseteq r.doomed /\ UNCHANGED rows => s.doomed \cap Stored' = {}
    BY <1>4 DEF RowInv
  <2> QED
    BY <2>1, <2>2, <2>3 DEF Effect, Stops, Begins, Fetches, FetchesNothing, AsksMaster,
      Tombstones, Saves, Commits, Lists, StoreKept, BagKept, Rests
<1> QED
  BY <1>6, <1>7, <1>8 DEF RowInv, OneProcess

LEMMA RowNext == ASSUME OneProcess, LinkInv, VersionInv, RowInv, [Next]_vars PROVE RowInv'
<1>0. TypeOK
  BY DEF LinkInv
<1>1. CASE UNCHANGED vars
  BY <1>1 DEF RowInv, Cursors, Promised, Resumable, Walked, Ahead, Claims, InView, Ids, Stored,
    Current, vars, graph, store
<1> QED
  BY <1>0, <1>1, RowCalendar, RowEffect, StepsTaken

LEMMA RowAlways ==
    ASSUME OneProcess
    PROVE  /\ Init => LinkInv /\ VersionInv /\ RowInv
           /\ LinkInv /\ VersionInv /\ RowInv /\ [Next]_vars => (LinkInv /\ VersionInv /\ RowInv)'
BY LinkInit, VersionInit, RowInit, LinkNext, VersionNext, RowNext

\* What a window's delta link covers is stored as it is, through crashes, errors,
\* expired links, moves between windows and the rolling of the horizon.
THEOREM DeltaLinkCoversRows == ASSUME OneProcess PROVE Spec => []NothingMissed
<1>1. RowInv => NothingMissed
  BY DEF RowInv, Cursors, Promised, Claims, Stored, NothingMissed, Covered
<1> QED
  BY <1>1, RowAlways, PTL DEF Spec

\* A walk that resumes from the stored nextLink skips only what is stored.
THEOREM ResumeIsSafe == ASSUME OneProcess PROVE Spec => []ResumeSkipsNothing
<1>1. RowInv => ResumeSkipsNothing
  BY DEF RowInv, Cursors, Resumable, Claims, Stored, ResumeSkipsNothing, Covered
<1> QED
  BY <1>1, RowAlways, PTL DEF Spec

-----------------------------------------------------------------------------
(* Removal notices *)

\* A row of e in window w, from where e is gone, left it by number base, after
\* number n, or is an instant at the window's start.
Settled(row, w, n, base, e) ==
    InView(row, w) /\ ~InView(cal[e], w) /\ left[w][e] <= n
        => left[w][e] <= base \/ row.at = Window(w.start, w.start)

\* A walk of window w that began at number base and is on its way to number n has
\* dealt with the departures in between, those of todo apart.
Heard(w, n, base, todo) == \A e \in Events \ todo : Settled(rows[e], w, n, base, e)

\* An item whose event has left window w since.
Leaving(i, w) == InView(i, w) /\ ~InView(cal[i.id], w)

LinkHeard(w) == sync[w].delta > 0 /\ sync[w].next.paging =>
    Heard(w, sync[w].next.upto, sync[w].delta, sync[w].next.todo)

WalkHeard(p) ==
    LET r == run[p] IN
    /\ r.pc \in Walking => r.base = sync[r.window].delta
    /\ r.pc = "fetch" /\ ~r.url.paging => r.url.upto = r.base
    /\ r.pc = "fetch" /\ r.url.paging /\ r.base > 0 => Heard(r.window, r.url.upto, r.base, r.url.todo)
    /\ r.pc \in {"apply", "tombstone"} /\ r.base > 0 =>
         Heard(r.window, r.link.upto, r.base, r.link.todo \cup Ids(r.page) \cup r.doomed)

\* No link has passed the departure of an event that an item in memory shows in a
\* window: that window's removal notice is still to come.
PageHeard(p) == \A i \in run[p].page :
    /\ i.ver > 0
    /\ \A w \in AllWindows : Leaving(i, w) =>
         /\ left[w][i.id] > sync[w].delta
         /\ left[w][i.id] > sync[w].next.upto
         /\ left[w][i.id] > run[p].link.upto

DeletionInv ==
    /\ \A e \in Events : rows[e].live => rows[e].ver > 0
    /\ \A w \in AllWindows : LinkHeard(w)
    /\ \A p \in Procs : WalkHeard(p) /\ PageHeard(p)

LEMMA DeletionInit == ASSUME Init PROVE DeletionInv
<1>1. \A e \in Events : ~rows[e].live
  BY DEF Init, NoRow
<1>2. \A w \in AllWindows : sync[w].delta = 0
  BY DEF Init, NoState
<1>3. \A p \in Procs : run[p].page = {} /\ run[p].pc = "idle"
  BY IdleFields DEF Init, Fresh
<1> QED
  BY <1>1, <1>2, <1>3 DEF DeletionInv, LinkHeard, WalkHeard, PageHeard, Walking

LEMMA Departures ==
    ASSUME TypeOK
    PROVE  \A w \in AllWindows, e \in Events : left[w][e] \in Nat
BY DEF TypeOK

\* What the calendar does to a window's departures.
LEMMA DeparturesAfter ==
    ASSUME TypeOK, Calendar, NEW w \in AllWindows, NEW e \in Events, ~InView(cal'[e], w)
    PROVE  \/ ~InView(cal[e], w) /\ left'[w][e] = left[w][e]
           \/ InView(cal[e], w) /\ left'[w][e] = clock + 1
<1>1. ASSUME NEW f \in Events, NEW b \in Bounds, NEW alive \in BOOLEAN, CalendarChange(f, b, alive)
      PROVE  \/ ~InView(cal[e], w) /\ left'[w][e] = left[w][e]
             \/ InView(cal[e], w) /\ left'[w][e] = clock + 1
  <2>1. left'[w] = IF InView(cal[f], w) /\ ~InView(cal'[f], w)
                   THEN [left[w] EXCEPT ![f] = clock + 1] ELSE left[w]
    BY <1>1 DEF CalendarChange
  <2>2. left[w] \in [Events -> Nat]
    BY DEF TypeOK
  <2>3. e # f => cal'[e] = cal[e]
    BY <1>1 DEF CalendarChange, TypeOK
  <2>4. CASE e = f
    BY <2>1, <2>2, <2>4
  <2>5. CASE e # f
    <3>1. ~InView(cal[e], w)
      BY <2>3, <2>5
    <3> QED
      BY <2>1, <2>2, <2>5, <3>1
  <2> QED
    BY <2>4, <2>5
<1>2. ASSUME UNCHANGED <<cal, left>> PROVE ~InView(cal[e], w) /\ left'[w][e] = left[w][e]
  BY <1>2
<1> QED
  BY <1>1, <1>2 DEF Calendar, NewMonth, Expire

LEMMA DeletionCalendar ==
    ASSUME LinkInv, DeletionInv, Calendar
    PROVE  DeletionInv' /\ \A w \in AllWindows, e \in Events : DeletionLost(w, e)' => DeletionLost(w, e)
<1>0. TypeOK /\ UNCHANGED <<rows, run, sync>>
  BY DEF LinkInv, Calendar, CalendarChange, NewMonth, Expire, store
<1>1. /\ clock \in Nat
      /\ \A w \in AllWindows : /\ sync[w].delta \in Nat /\ sync[w].delta <= clock
                               /\ sync[w].next.upto \in Nat /\ sync[w].next.upto <= clock
      /\ \A p \in Procs : /\ run[p].url.upto \in Nat /\ run[p].url.upto <= clock
                          /\ run[p].link.upto \in Nat /\ run[p].link.upto <= clock
                          /\ \A i \in run[p].page : i.id \in Events
  BY <1>0, Numbers DEF LinkInv, LinksIssued
<1>2. ASSUME NEW w \in AllWindows, NEW n \in Nat, n <= clock, NEW base, NEW todo, Heard(w, n, base, todo)
      PROVE  Heard(w, n, base, todo)'
  <2>1. ASSUME NEW e \in Events, Settled(rows[e], w, n, base, e) PROVE Settled(rows[e], w, n, base, e)'
    <3> SUFFICES ASSUME InView(rows[e], w), ~InView(cal'[e], w), left'[w][e] <= n
                 PROVE  left'[w][e] <= base \/ rows[e].at = Window(w.start, w.start)
      BY <1>0 DEF Settled
    <3>1. ~InView(cal[e], w) /\ left'[w][e] = left[w][e]
      BY <1>0, <1>1, <1>2, DeparturesAfter
    <3> QED
      BY <2>1, <3>1 DEF Settled
  <2> QED
    BY <1>2, <2>1 DEF Heard
<1>3. \A w \in AllWindows : LinkHeard(w)'
  BY <1>0, <1>1, <1>2 DEF DeletionInv, LinkHeard
<1>4. ASSUME NEW p \in Procs PROVE WalkHeard(p)'
  <2> DEFINE r == run[p]
             T == r.link.todo \cup Ids(r.page) \cup r.doomed
  <2>1. r.pc \in Walking => r.window \in AllWindows
    BY <1>0, Resting DEF Walking
  <2>2. r.pc = "fetch" /\ r.url.paging /\ r.base > 0 => Heard(r.window, r.url.upto, r.base, r.url.todo)'
    BY <1>0, <1>1, <1>2, <2>1 DEF DeletionInv, WalkHeard, Walking
  <2>3. r.pc \in {"apply", "tombstone"} /\ r.base > 0 => Heard(r.window, r.link.upto, r.base, T)'
    <3>1. r.pc \in {"apply", "tombstone"} /\ r.base > 0 => Heard(r.window, r.link.upto, r.base, T)
      BY DEF DeletionInv, WalkHeard
    <3>2. T' = T /\ r' = r
      BY <1>0 DEF Ids
    <3> HIDE DEF T
    <3> QED
      BY <1>0, <1>1, <1>2, <2>1, <3>1, <3>2 DEF Walking
  <2>4. T = r.link.todo \cup Ids(r.page)' \cup r.doomed
    BY <1>0 DEF Ids
  <2> QED
    BY <1>0, <2>2, <2>3, <2>4 DEF DeletionInv, WalkHeard
<1>5. ASSUME NEW p \in Procs PROVE PageHeard(p)'
  <2>1. ASSUME NEW i \in run[p].page, NEW w \in AllWindows, Leaving(i, w)'
        PROVE  /\ left'[w][i.id] > sync[w].delta
               /\ left'[w][i.id] > sync[w].next.upto
               /\ left'[w][i.id] > run[p].link.upto
    <3>1. InView(i, w) /\ ~InView(cal'[i.id], w) /\ i.id \in Events
      BY <1>1, <2>1 DEF Leaving
    <3>2. CASE InView(cal[i.id], w) /\ left'[w][i.id] = clock + 1
      BY <1>1, <3>2
    <3>3. CASE ~InView(cal[i.id], w) /\ left'[w][i.id] = left[w][i.id]
      BY <3>1, <3>3 DEF DeletionInv, PageHeard, Leaving
    <3> QED
      BY <1>0, <3>1, <3>2, <3>3, DeparturesAfter
  <2> QED
    BY <1>0, <2>1 DEF DeletionInv, PageHeard
<1>6. DeletionInv'
  BY <1>0, <1>3, <1>4, <1>5 DEF DeletionInv
<1>7. ASSUME NEW w \in AllWindows, NEW e \in Events, DeletionLost(w, e)' PROVE DeletionLost(w, e)
  <2>1. ~InView(cal'[e], w) /\ left'[w][e] <= sync[w].delta
    BY <1>0, <1>7 DEF DeletionLost
  <2>2. ~InView(cal[e], w) /\ left'[w][e] = left[w][e]
    BY <1>0, <1>1, <2>1, DeparturesAfter
  <2> QED
    BY <1>0, <1>7, <2>1, <2>2 DEF DeletionLost
<1> QED
  BY <1>6, <1>7

\* An event stays settled in a window as long as no item of it is applied, and a
\* listed event leaves every window it has left behind after every link.
LEMMA SettledAfter ==
    ASSUME LinkInv, DeletionInv, NEW p \in Procs, Effect(p), UNCHANGED graph,
           NEW w \in AllWindows, NEW e \in Events, NEW base, NEW n \in Nat,
           n <= sync[w].delta \/ n <= sync[w].next.upto \/ n <= run[p].link.upto,
           \/ Settled(rows[e], w, n, base, e)
           \/ \E item \in run[p].page : Stores(p, item) /\ item.id = e
           \/ Tombstones(p) /\ e \in run[p].doomed
    PROVE  Settled(rows'[e], w, n, base, e)
<1>0. TypeOK /\ UNCHANGED <<cal, left>>
  BY DEF LinkInv, graph
<1>1. ASSUME UNCHANGED rows, Settled(rows[e], w, n, base, e) PROVE Settled(rows'[e], w, n, base, e)
  BY <1>0, <1>1 DEF Settled
<1>2. ASSUME NEW item \in run[p].page, Stores(p, item), item.id = e PROVE Settled(rows'[e], w, n, base, e)
  <2>1. rows'[e] = [at |-> item.at, ver |-> item.ver, live |-> TRUE] /\ item.live
    BY <1>0, <1>2, StoredRow DEF Stores, InView
  <2>2. InView(rows'[e], w) => InView(item, w)
    BY <2>1 DEF InView
  <2>3. Leaving(item, w) => ~(left[w][e] <= n)
    <3>1. /\ left[w][e] \in Nat /\ sync[w].delta \in Nat /\ sync[w].next.upto \in Nat
          /\ run[p].link.upto \in Nat
      BY <1>0, Departures, Numbers
    <3> QED
      BY <1>2, <3>1 DEF DeletionInv, PageHeard
  <2> QED
    BY <1>0, <1>2, <2>2, <2>3 DEF Settled, Leaving
<1>3. ASSUME NEW item \in run[p].page, Stores(p, item), item.id # e, Settled(rows[e], w, n, base, e)
      PROVE  Settled(rows'[e], w, n, base, e)
  BY <1>0, <1>3, StoredRow DEF Settled
<1>4. ASSUME Tombstones(p), e \in run[p].doomed \/ Settled(rows[e], w, n, base, e)
      PROVE  Settled(rows'[e], w, n, base, e)
  <2>1. CASE e \in run[p].doomed
    BY <1>0, <1>4, <2>1, TombstonedRow DEF Settled, InView
  <2>2. CASE e \notin run[p].doomed
    BY <1>0, <1>4, <2>2, TombstonedRow DEF Settled
  <2> QED
    BY <2>1, <2>2
<1>5. UNCHANGED rows \/ Tombstones(p) \/ \E item \in run[p].page : Stores(p, item)
  BY DEF Effect, Stops, Begins, Fetches, FetchesNothing, AsksMaster, Judges, Saves, Commits, Lists,
    StoreKept
<1>6. CASE UNCHANGED rows /\ Settled(rows[e], w, n, base, e)
  BY <1>1, <1>6
<1>7. CASE \E item \in run[p].page : Stores(p, item)
  BY <1>0, <1>2, <1>3, <1>7, <1>4, <1>6, <1>5
<1> QED
  BY <1>2, <1>4, <1>5, <1>6, <1>7

\* The rows that are live have been stored.
LEMMA LiveEffect ==
    ASSUME LinkInv, DeletionInv, NEW p \in Procs, Effect(p)
    PROVE  \A e \in Events : rows'[e].live => rows'[e].ver > 0
<1>0. TypeOK
  BY DEF LinkInv
<1>1. ASSUME NEW item \in run[p].page, Stores(p, item), NEW e \in Events PROVE rows'[e].live => rows'[e].ver > 0
  <2>1. item.ver > 0
    BY DEF DeletionInv, PageHeard
  <2>2. /\ rows'[item.id] = [at |-> item.at, ver |-> item.ver, live |-> TRUE]
        /\ e # item.id => rows'[e] = rows[e]
    BY <1>0, <1>1, StoredRow
  <2>3. rows'[item.id].ver = item.ver
    BY <2>2
  <2> QED
    BY <2>1, <2>2, <2>3 DEF DeletionInv
<1>2. ASSUME Tombstones(p), NEW e \in Events PROVE rows'[e].live => rows'[e].ver > 0
  BY <1>0, <1>2, TombstonedRow DEF DeletionInv
<1>3. UNCHANGED rows \/ Tombstones(p) \/ \E item \in run[p].page : Stores(p, item)
  BY DEF Effect, Stops, Begins, Fetches, FetchesNothing, AsksMaster, Judges, Saves, Commits, Lists,
    StoreKept
<1> QED
  BY <1>1, <1>2, <1>3 DEF DeletionInv

\* A walk hears of what its page holds, and of what its link stands for.
LEMMA HeardBy ==
    ASSUME NEW p \in Procs, WalkHeard(p), run[p].pc \in {"apply", "tombstone"}, run[p].base > 0,
           NEW e \in Events, e \notin run[p].link.todo, e \notin Ids(run[p].page),
           e \notin run[p].doomed
    PROVE  Settled(rows[e], run[p].window, run[p].link.upto, run[p].base, e)
BY DEF WalkHeard, Heard

LEMMA SettledWalk ==
    ASSUME LinkInv, DeletionInv, NEW p \in Procs, Effect(p), UNCHANGED graph,
           run[p].window \in AllWindows, NEW e \in Events,
           \/ Settled(rows[e], run[p].window, run[p].link.upto, run[p].base, e)
           \/ \E item \in run[p].page : Stores(p, item) /\ item.id = e
           \/ Tombstones(p) /\ e \in run[p].doomed
    PROVE  Settled(rows'[e], run[p].window, run[p].link.upto, run[p].base, e)
<1> DEFINE w == run[p].window
           n == run[p].link.upto
           base == run[p].base
<1>1. w \in AllWindows /\ n \in Nat /\ n <= run[p].link.upto
  BY Numbers DEF LinkInv
<1>2. \/ Settled(rows[e], w, n, base, e)
      \/ \E item \in run[p].page : Stores(p, item) /\ item.id = e
      \/ Tombstones(p) /\ e \in run[p].doomed
  OBVIOUS
<1>3. n <= sync[w].delta \/ n <= sync[w].next.upto \/ n <= run[p].link.upto
  BY <1>1
<1> HIDE DEF w, n, base
<1>4. Settled(rows'[e], w, n, base, e)
  BY <1>1, <1>2, <1>3, SettledAfter
<1> QED
  BY <1>4 DEF w, n, base

LEMMA WalkHeardAfter ==
    ASSUME NEW p \in Procs, UNCHANGED <<cal, left>>, NEW s, s = run'[p],
           s.pc \in Walking => s.base = sync'[s.window].delta,
           s.pc = "fetch" /\ ~s.url.paging => s.url.upto = s.base,
           s.pc = "fetch" /\ s.url.paging /\ s.base > 0 => \A e \in Events :
             e \notin s.url.todo => Settled(rows'[e], s.window, s.url.upto, s.base, e),
           s.pc \in {"apply", "tombstone"} /\ s.base > 0 => \A e \in Events :
             e \notin s.link.todo \cup Ids(s.page) \cup s.doomed =>
               Settled(rows'[e], s.window, s.link.upto, s.base, e)
    PROVE  WalkHeard(p)'
BY DEF WalkHeard, Heard, Settled, Ids

LEMMA WalkHeardEffect ==
    ASSUME OneProcess, LinkInv, DeletionInv, NEW p \in Procs, Effect(p), UNCHANGED graph
    PROVE  WalkHeard(p)'
<1> DEFINE r == run[p]
           s == run'[p]
           w == r.window
<1>0. TypeOK /\ UNCHANGED <<cal, left>>
  BY DEF LinkInv, graph
<1>1. WalkHeard(p) /\ PageHeard(p) /\ \A v \in AllWindows : LinkHeard(v)
  BY DEF DeletionInv
<1>3. CASE Stops(p) \/ Commits(p) \/ \E listed \in SUBSET Events : Lists(p, listed)
  <2>1. s.pc \notin Walking
    BY <1>3 DEF Stops, Commits, Lists, Rests, Walking
  <2> QED
    BY <2>1 DEF WalkHeard, Walking
<1>4. CASE Begins(p)
  <2>1. /\ w \in AllWindows /\ s.window = w /\ s.base = sync'[w].delta /\ s.pc = "fetch"
        /\ UNCHANGED <<rows, sync>>
        /\ s.url = IF sync[w].next.paging THEN sync[w].next ELSE DeltaLink(sync[w].delta)
    BY <1>4 DEF Begins, StoreKept
  <2>2. CASE sync[w].next.paging
    <3>1. s.base > 0 => Heard(w, s.url.upto, s.base, s.url.todo)
      BY <1>1, <2>1, <2>2 DEF LinkHeard
    <3>2. s.base > 0 => \A e \in Events :
            e \notin s.url.todo => Settled(rows'[e], w, s.url.upto, s.base, e)
      BY <2>1, <3>1 DEF Heard
    <3> QED
      BY <1>0, <2>1, <2>2, <3>2, WalkHeardAfter
  <2>3. CASE ~sync[w].next.paging
    <3>1. ~s.url.paging /\ s.url.upto = s.base
      BY <1>0, <2>1, <2>3, Numbers, LinkFacts
    <3> QED
      BY <1>0, <2>1, <3>1, WalkHeardAfter
  <2> QED
    BY <2>2, <2>3
<1>5. ASSUME s.pc \in {"apply", "tombstone"}, r.pc \in Walking, WalkKept(p), UNCHANGED sync,
             s.base > 0 => \A e \in Events :
               e \notin s.link.todo \cup Ids(s.page) \cup s.doomed => Settled(rows'[e], w, s.link.upto, r.base, e)
      PROVE  WalkHeard(p)'
  <2>1. s.window = w /\ s.base = r.base /\ s.base = sync'[w].delta
    BY <1>1, <1>5 DEF WalkHeard, WalkKept
  <2> QED
    BY <1>0, <1>5, <2>1, WalkHeardAfter
<1>6. ASSUME NEW walk \in Link, NEW listed \in SUBSET walk.todo, Fetches(p, walk, listed)
      PROVE  WalkHeard(p)'
  <2>1. /\ r.pc = "fetch" /\ w \in AllWindows /\ s.pc = "apply" /\ WalkKept(p) /\ UNCHANGED <<rows, sync>>
        /\ s.link.upto = walk.upto /\ s.link.todo = walk.todo \ listed
    BY <1>0, <1>6, Resting DEF Fetches, StoreKept
  <2>2. Ids(s.page) = listed
    BY <1>6, ItemIds DEF Fetches
  <2>3. ASSUME r.base > 0, NEW e \in Events, e \notin walk.todo PROVE Settled(rows[e], w, walk.upto, r.base, e)
    <3>1. CASE r.url.paging
      BY <1>1, <1>6, <2>1, <2>3, <3>1 DEF WalkHeard, Heard, Fetches, WalksOf
    <3>2. CASE ~r.url.paging
      <4>1. Changed(w, r.url.upto) \subseteq walk.todo /\ r.url.upto = r.base
        BY <1>1, <1>6, <2>1, <3>2 DEF Fetches, WalksOf, WalkHeard
      <4>2. ~InView(cal[e], w) => ~(left[w][e] > r.base)
        BY <2>3, <4>1 DEF Changed
      <4> QED
        BY <1>0, <2>1, <4>2, Departures, Numbers DEF Settled
    <3> QED
      BY <3>1, <3>2
  <2>4. ASSUME r.base > 0, NEW e \in Events, e \notin s.link.todo \cup Ids(s.page)
        PROVE  Settled(rows'[e], w, s.link.upto, r.base, e)
    BY <2>1, <2>2, <2>3, <2>4
  <2> QED
    BY <1>5, <2>1, <2>4 DEF Walking, WalkKept
<1>7. CASE FetchesNothing(p)
  <2>1. /\ r.pc = "fetch" /\ w \in AllWindows /\ s.pc = "apply" /\ WalkKept(p) /\ UNCHANGED <<rows, sync>>
        /\ s.link.upto = 0
    BY <1>0, <1>7, LinkFacts, Resting DEF FetchesNothing, StoreKept
  <2>2. \A e \in Events : Settled(rows[e], w, 0, r.base, e)
    BY <1>0, <2>1, Departures, Numbers DEF Settled
  <2> QED
    BY <1>5, <2>1, <2>2 DEF Walking
<1>8. ASSUME NEW item \in r.page, Stores(p, item) PROVE WalkHeard(p)'
  <2>1. CASE r.pc = "store"
    BY <1>8, <2>1 DEF Stores, WalkHeard, Walking
  <2>2. CASE r.pc = "apply"
    <3>1. /\ s.pc = "apply" /\ w \in AllWindows /\ WalkKept(p) /\ UNCHANGED sync
          /\ s.link = r.link /\ s.page = r.page \ {item} /\ s.doomed = r.doomed
          /\ r.link.upto \in Nat
      BY <1>0, <1>8, <2>2, Resting, Numbers DEF Stores
    <3>2. ASSUME r.base > 0, NEW e \in Events, e \notin s.link.todo \cup Ids(s.page) \cup s.doomed
          PROVE  Settled(rows'[e], w, s.link.upto, r.base, e)
      <4>1. CASE e = item.id
        BY <1>8, <3>1, <4>1, SettledWalk
      <4>2. CASE e # item.id
        <5>1. e \notin Ids(r.page)
          BY <3>1, <3>2, <4>2 DEF Ids
        <5>2. Settled(rows[e], w, r.link.upto, r.base, e)
          BY <1>1, <2>2, <3>1, <3>2, <5>1, HeardBy
        <5> QED
          BY <3>1, <5>2, SettledWalk
      <4> QED
        BY <4>1, <4>2
    <3> QED
      BY <1>5, <2>2, <3>1, <3>2 DEF Walking, WalkKept
  <2> QED
    BY <1>8, <2>1, <2>2 DEF Stores
<1>9. ASSUME NEW item \in r.page, Judges(p, item) PROVE WalkHeard(p)'
  <2>1. /\ r.pc = "apply" /\ w \in AllWindows /\ s.pc \in {"apply", "tombstone"} /\ WalkKept(p)
        /\ UNCHANGED <<rows, sync>> /\ s.link = r.link /\ s.page = r.page \ {item} /\ r.doomed = {}
        /\ s.doomed = IF Owned(rows[item.id], w) THEN {item.id} ELSE {}
        /\ item.id \in Events
    BY <1>0, <1>9, Resting DEF Judges, StoreKept
  <2>2. ASSUME r.base > 0, NEW e \in Events, e \notin s.link.todo \cup Ids(s.page) \cup s.doomed
        PROVE  Settled(rows[e], w, s.link.upto, r.base, e)
    <3>1. CASE e = item.id
      <4>1. ~Owned(rows[e], w)
        BY <2>1, <2>2, <3>1
      <4>2. rows[e].live => rows[e].ver > 0
        BY DEF DeletionInv
      <4> QED
        BY <4>1, <4>2 DEF Owned, InView, Settled
    <3>2. CASE e # item.id
      <4>1. e \notin Ids(r.page)
        BY <2>1, <2>2, <3>2 DEF Ids
      <4> QED
        BY <1>1, <2>1, <2>2, <4>1, HeardBy
    <3> QED
      BY <3>1, <3>2
  <2> QED
    BY <1>5, <2>1, <2>2 DEF Walking, WalkKept
<1>10. CASE Tombstones(p)
  <2>1. /\ r.pc = "tombstone" /\ s.pc = "apply" /\ w \in AllWindows /\ WalkKept(p) /\ UNCHANGED sync
        /\ s.link = r.link /\ s.page = r.page /\ s.doomed = {} /\ r.link.upto \in Nat
    BY <1>0, <1>10, Resting, Numbers DEF Tombstones
  <2>2. ASSUME r.base > 0, NEW e \in Events, e \notin s.link.todo \cup Ids(s.page) \cup s.doomed
        PROVE  Settled(rows'[e], w, s.link.upto, r.base, e)
    <3>1. e \in r.doomed \/ Settled(rows[e], w, r.link.upto, r.base, e)
      BY <1>1, <2>1, <2>2, HeardBy
    <3> QED
      BY <1>10, <2>1, <3>1, SettledWalk
  <2> QED
    BY <1>5, <2>1, <2>2 DEF Walking, WalkKept
<1>11. CASE AsksMaster(p)
  <2>1. /\ UNCHANGED <<rows, sync>> /\ WalkKept(p) /\ s.pc = r.pc /\ s.page = r.page
        /\ s.doomed = r.doomed /\ s.url = r.url /\ s.link = r.link
    BY <1>11 DEF AsksMaster
  <2> QED
    BY <1>0, <1>1, <2>1, WalkHeardAfter DEF WalkHeard, WalkKept, Heard
<1>12. CASE Saves(p)
  <2>1. /\ r.pc = "apply" /\ s.pc = "fetch" /\ w \in AllWindows /\ WalkKept(p) /\ UNCHANGED rows
        /\ s.url = r.link /\ s.url.paging /\ r.page = {} /\ r.doomed = {} /\ sync'[w].delta = sync[w].delta
    BY <1>0, <1>12, Resting DEF Saves
  <2>2. s.base = sync'[w].delta /\ s.window = w /\ s.base = r.base
    BY <1>1, <2>1 DEF WalkHeard, WalkKept, Walking
  <2>3. ASSUME r.base > 0, NEW e \in Events, e \notin r.link.todo PROVE Settled(rows[e], w, r.link.upto, r.base, e)
    BY <1>1, <2>1, <2>3, HeardBy DEF Ids
  <2> QED
    BY <1>0, <2>1, <2>2, <2>3, WalkHeardAfter
<1> QED
  BY <1>3, <1>4, <1>6, <1>7, <1>8, <1>9, <1>10, <1>11, <1>12 DEF Effect

LEMMA LinkHeardEffect ==
    ASSUME LinkInv, DeletionInv, NEW p \in Procs, Effect(p), UNCHANGED graph,
           NEW w \in AllWindows
    PROVE  LinkHeard(w)'
<1> DEFINE r == run[p]
           n == sync'[w].next
           base == sync'[w].delta
<1>0. TypeOK /\ UNCHANGED <<cal, left>>
  BY DEF LinkInv, graph
<1>1. WalkHeard(p) /\ LinkHeard(w) /\ sync[w].next.upto \in Nat
  BY <1>0, Numbers DEF DeletionInv
<1>2. ASSUME base > 0, n.paging, NEW e \in Events, e \notin n.todo,
             n = sync[w].next, base = sync[w].delta
      PROVE  Settled(rows'[e], w, n.upto, base, e)
  <2>1. Settled(rows[e], w, n.upto, base, e)
    BY <1>1, <1>2 DEF LinkHeard, Heard
  <2>2. n.upto \in Nat /\ n.upto <= sync[w].next.upto
    BY <1>1, <1>2
  <2> DEFINE k == sync[w].next.upto
             d == sync[w].delta
  <2>3. Settled(rows[e], w, k, d, e) /\ k \in Nat /\ k <= sync[w].next.upto
    BY <1>1, <1>2, <2>1
  <2> HIDE DEF k, d
  <2>4. Settled(rows'[e], w, k, d, e)
    BY <2>3, SettledAfter
  <2> QED
    BY <1>2, <2>4 DEF k, d
<1>3. ASSUME base > 0, n.paging, NEW e \in Events, e \notin n.todo, Saves(p), w = r.window
      PROVE  Settled(rows'[e], w, n.upto, base, e)
  <2>1. /\ r.pc = "apply" /\ UNCHANGED rows /\ n = r.link /\ base = r.base
        /\ r.page = {} /\ r.doomed = {}
    BY <1>0, <1>1, <1>3, Resting DEF Saves, WalkHeard, Walking
  <2>2. e \notin Ids(r.page)
    BY <2>1 DEF Ids
  <2>3. Settled(rows[e], w, n.upto, base, e)
    BY <1>1, <1>3, <2>1, <2>2, HeardBy
  <2> QED
    BY <2>1, <2>3
<1>4. \/ ~n.paging
      \/ n = sync[w].next /\ base = sync[w].delta
      \/ Saves(p) /\ w = r.window
  BY LinkFacts DEF Effect, Stops, Begins, Fetches, FetchesNothing, Stores, AsksMaster, Judges,
    Tombstones, Saves, Commits, Lists, StoreKept, LinksDrop
<1>5. base > 0 /\ n.paging => \A e \in Events : e \notin n.todo => Settled(rows'[e], w, n.upto, base, e)
  BY <1>2, <1>3, <1>4
<1> QED
  BY <1>0, <1>5 DEF LinkHeard, Heard, Settled

LEMMA PageHeardEffect ==
    ASSUME LinkInv, DeletionInv, NEW p \in Procs, Effect(p), UNCHANGED graph
    PROVE  PageHeard(p)'
<1> DEFINE r == run[p]
           s == run'[p]
           Ahead1(i, v) == /\ left[v][i.id] > sync[v].delta
                           /\ left[v][i.id] > sync[v].next.upto
           Fine == \A i \in s.page :
             /\ i.ver > 0
             /\ \A v \in AllWindows : Leaving(i, v) =>
                  /\ left[v][i.id] > sync'[v].delta
                  /\ left[v][i.id] > sync'[v].next.upto
                  /\ left[v][i.id] > s.link.upto
<1>0. TypeOK /\ UNCHANGED <<cal, left>>
  BY DEF LinkInv, graph
<1>1. ASSUME Fine PROVE PageHeard(p)'
  BY <1>0, <1>1 DEF PageHeard, Leaving
<1>2. \A i \in r.page :
        /\ i.ver > 0
        /\ \A v \in AllWindows : Leaving(i, v) => Ahead1(i, v) /\ left[v][i.id] > r.link.upto
  BY DEF DeletionInv, PageHeard
<1>3. ASSUME s.page = {} PROVE Fine
  BY <1>3
<1>4. ASSUME NEW listed \in SUBSET Events, s.page = {ItemOf(e) : e \in listed} PROVE Fine
  <2>1. ASSUME NEW e \in listed
        PROVE  ItemOf(e).ver > 0 /\ \A v \in AllWindows : ~Leaving(ItemOf(e), v)
    <3>1. ItemOf(e).id = e /\ ItemOf(e).ver = cal[e].ver /\ ItemOf(e).at = cal[e].at
          /\ ItemOf(e).live = cal[e].live
      BY DEF ItemOf
    <3>2. cal[e].ver > 0
      BY <1>0, Numbers DEF LinkInv, LinksIssued
    <3> QED
      BY <3>1, <3>2 DEF Leaving, InView
  <2> QED
    BY <1>4, <2>1
<1>5. ASSUME NEW walk \in Link, NEW listed \in SUBSET walk.todo, Fetches(p, walk, listed) PROVE Fine
  BY <1>4, <1>5, LinkFacts DEF Fetches
<1>6. ASSUME NEW listed \in SUBSET Events, Lists(p, listed) PROVE Fine
  BY <1>4, <1>6 DEF Lists
<1>7. ASSUME UNCHANGED sync, s.page \subseteq r.page, s.link = r.link PROVE Fine
  BY <1>2, <1>7
<1>8. ASSUME FetchesNothing(p) PROVE Fine
  <2>1. UNCHANGED sync /\ s.page = r.page /\ s.link.upto = 0
    BY <1>8, LinkFacts DEF FetchesNothing, StoreKept
  <2>2. ASSUME NEW i \in r.page, NEW v \in AllWindows, Leaving(i, v) PROVE left[v][i.id] > 0
    <3>1. left[v][i.id] \in Nat /\ sync[v].delta \in Nat
      BY <1>0, Departures, Numbers
    <3> QED
      BY <1>2, <2>2, <3>1
  <2> QED
    BY <1>2, <2>1, <2>2
<1>9. ASSUME Begins(p) \/ AsksMaster(p) \/ Tombstones(p)
             \/ \E item \in r.page : Stores(p, item) \/ Judges(p, item)
      PROVE  Fine
  <2>1. UNCHANGED sync /\ s.page \subseteq r.page /\ s.link = r.link
    BY <1>9 DEF Begins, AsksMaster, Tombstones, Stores, Judges, StoreKept
  <2> QED
    BY <1>7, <2>1
<1>10. ASSUME Stops(p) \/ Commits(p) \/ Saves(p) PROVE Fine
  <2>1. s.page = {}
    BY <1>10 DEF Stops, Commits, Saves, Rests
  <2> QED
    BY <1>3, <2>1
<1> HIDE DEF Fine
<1>11. Fine
  BY <1>5, <1>6, <1>8, <1>9, <1>10 DEF Effect
<1> QED
  BY <1>1, <1>11

\* A step of the only process loses no deletion.
LEMMA LostEffect ==
    ASSUME LinkInv, DeletionInv, NEW p \in Procs, Effect(p), UNCHANGED graph,
           NEW w \in AllWindows, NEW e \in Events, sync[w].delta > 0, DeletionLost(w, e)'
    PROVE  DeletionLost(w, e) \/ rows'[e].at = Window(w.start, w.start)
<1> DEFINE r == run[p]
<1>0. TypeOK /\ UNCHANGED <<cal, left>>
  BY DEF LinkInv, graph
<1>1. /\ left[w][e] \in Nat /\ sync[w].delta \in Nat /\ r.link.upto \in Nat
      /\ WalkHeard(p)
  BY <1>0, Departures, Numbers DEF DeletionInv
<1>2. /\ InView(rows'[e], w) /\ ~InView(cal[e], w)
      /\ sync'[w].delta > 0 /\ left[w][e] <= sync'[w].delta
  BY <1>0 DEF DeletionLost
<1>3. ASSUME left[w][e] <= sync[w].delta, rows'[e] = rows[e] PROVE DeletionLost(w, e)
  BY <1>2, <1>3 DEF DeletionLost
<1>4. ASSUME left[w][e] <= sync[w].delta, rows'[e] # rows[e] PROVE FALSE
  <2>1. ASSUME NEW item \in r.page, Stores(p, item) PROVE FALSE
    <3>1. e = item.id /\ rows'[e] = [at |-> item.at, ver |-> item.ver, live |-> TRUE] /\ item.live
      BY <1>0, <1>4, <2>1, StoredRow DEF Stores, InView
    <3>2. InView(item, w)
      BY <1>2, <3>1 DEF InView
    <3> QED
      BY <1>1, <1>2, <1>4, <3>1, <3>2 DEF DeletionInv, PageHeard, Leaving
  <2>2. ASSUME Tombstones(p) PROVE FALSE
    BY <1>0, <1>2, <1>4, <2>2, TombstonedRow DEF InView
  <2>3. UNCHANGED rows \/ Tombstones(p) \/ \E item \in r.page : Stores(p, item)
    BY DEF Effect, Stops, Begins, Fetches, FetchesNothing, AsksMaster, Judges, Saves, Commits, Lists,
      StoreKept
  <2> QED
    BY <1>4, <2>1, <2>2, <2>3
<1>5. CASE Commits(p) /\ w = r.window /\ r.link.upto > 0
  <2>1. /\ r.pc = "apply" /\ r.page = {} /\ r.doomed = {} /\ r.link.todo = {}
        /\ UNCHANGED rows /\ sync'[w].delta = r.link.upto /\ r.base = sync[w].delta
    BY <1>0, <1>1, <1>5, Resting DEF Commits, WalkHeard, Walking, LinkInv, LinksIssued
  <2>2. e \notin Ids(r.page)
    BY <2>1 DEF Ids
  <2>3. Settled(rows[e], w, r.link.upto, r.base, e)
    BY <1>1, <1>5, <2>1, <2>2, HeardBy
  <2>4. left[w][e] <= sync[w].delta \/ rows'[e].at = Window(w.start, w.start)
    BY <1>2, <2>1, <2>3 DEF Settled
  <2> QED
    BY <1>3, <2>1, <2>4
<1>6. CASE ~(Commits(p) /\ w = r.window /\ r.link.upto > 0)
  <2>1. sync'[w].delta = sync[w].delta
    <3>1. ASSUME Commits(p) PROVE sync'[w].delta = sync[w].delta
      BY <1>0, <1>1, <1>6, <3>1 DEF Commits, WalkHeard, Walking
    <3>2. ASSUME Stops(p) PROVE sync'[w].delta = sync[w].delta
      BY <1>2, <3>2 DEF Stops, LinksDrop
    <3>3. ASSUME Saves(p) PROVE sync'[w].delta = sync[w].delta
      BY <3>3 DEF Saves
    <3> QED
      BY <3>1, <3>2, <3>3 DEF Effect, Begins, Fetches, FetchesNothing, Stores, AsksMaster, Judges,
        Tombstones, Lists, StoreKept
  <2> QED
    BY <1>2, <1>3, <1>4, <2>1
<1> QED
  BY <1>5, <1>6

LEMMA DeletionNext ==
    ASSUME OneProcess, LinkInv, DeletionInv, [Next]_vars
    PROVE  /\ DeletionInv'
           /\ \A w \in AllWindows, e \in Events :
                sync[w].delta > 0 /\ DeletionLost(w, e)' =>
                  DeletionLost(w, e) \/ rows'[e].at = Window(w.start, w.start)
<1>0. TypeOK
  BY DEF LinkInv
<1>1. CASE UNCHANGED vars
  BY <1>1 DEF DeletionInv, LinkHeard, WalkHeard, PageHeard, Heard, Settled, Leaving, Ids, InView,
    DeletionLost, vars, graph, store
<1>2. CASE Calendar
  BY <1>2, DeletionCalendar
<1>3. ASSUME NEW p \in Procs, Effect(p), UNCHANGED graph PROVE DeletionInv'
  <2>1. WalkHeard(p)' /\ PageHeard(p)'
    BY <1>3, WalkHeardEffect, PageHeardEffect
  <2>2. \A q \in Procs : q = p
    BY DEF OneProcess
  <2>3. \A q \in Procs : WalkHeard(q)' /\ PageHeard(q)'
    BY <2>1, <2>2
  <2>4. \A w \in AllWindows : LinkHeard(w)'
    BY <1>3, LinkHeardEffect
  <2>5. \A e \in Events : rows'[e].live => rows'[e].ver > 0
    BY <1>3, LiveEffect
  <2> QED
    BY <2>3, <2>4, <2>5 DEF DeletionInv
<1>4. ASSUME NEW p \in Procs, Effect(p), UNCHANGED graph, NEW w \in AllWindows, NEW e \in Events,
             sync[w].delta > 0, DeletionLost(w, e)'
      PROVE  DeletionLost(w, e) \/ rows'[e].at = Window(w.start, w.start)
  BY <1>4, LostEffect
<1> QED
  BY <1>0, <1>1, <1>2, <1>3, <1>4, StepsTaken

\* While a window has a delta link no deletion and no move of an event is lost.
THEOREM NoDeletionLost == ASSUME OneProcess PROVE Spec => DeltaLosesNoDeletion
<1>1. Init => LinkInv /\ DeletionInv
  BY LinkInit, DeletionInit
<1>2. LinkInv /\ DeletionInv /\ [Next]_vars => (LinkInv /\ DeletionInv)'
  BY LinkNext, DeletionNext
<1>3. LinkInv /\ DeletionInv /\ [Next]_vars =>
        [\A w \in AllWindows, e \in Events :
           sync[w].delta > 0 /\ DeletionLost(w, e)' =>
             DeletionLost(w, e) \/ rows'[e].at = Window(w.start, w.start)]_vars
  BY DeletionNext
<1> QED
  BY <1>1, <1>2, <1>3, PTL DEF Spec, DeltaLosesNoDeletion

=============================================================================
