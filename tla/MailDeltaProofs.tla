--------------------------- MODULE MailDeltaProofs ---------------------------
(***************************************************************************)
(* Theorems about MailDelta, for every set of messages, folders and        *)
(* processes and every bound: type correctness, and, for one process, that *)
(* the committed delta link never runs ahead of the stored rows and that   *)
(* no deletion is lost once a folder has one.                              *)
(***************************************************************************)
EXTENDS MailDelta, TLAPS

-----------------------------------------------------------------------------
(* Type correctness *)

LEMMA TypeInit == ASSUME Init PROVE TypeOK
  <1>1. box \in [Messages -> Copy]
    BY DEF Init, Copy
  <1>2. QED
    BY <1>1 DEF Init, TypeOK, NoRow, Row, NoState, SyncState, NoLink, DeltaLink,
                Link, Steps, Places

\* A returning SyncFolder leaves well-typed memory.
LEMMA TypeReturn ==
    ASSUME TypeOK, NEW p \in Procs, Return(p)
    PROVE  /\ pc' \in [Procs -> Steps]
           /\ folder' \in [Procs -> Places]
           /\ base' \in [Procs -> Nat]
           /\ url' \in [Procs -> Link]
           /\ page' \in [Procs -> SUBSET Item]
           /\ link' \in [Procs -> Link]
           /\ mayReset' \in [Procs -> BOOLEAN]
           /\ \A q \in Procs : pc'[q] # "idle" => folder'[q] \in Folders
  BY DEF TypeOK, Return, Steps, Places, Link, NoLink, DeltaLink

LEMMA TypeRecordFailure ==
    ASSUME TypeOK, NEW f \in Folders, RecordMailSyncFailure(f)
    PROVE  sync' \in [Folders -> SyncState]
  BY DEF TypeOK, RecordMailSyncFailure, SyncState

LEMMA TypeReset ==
    ASSUME TypeOK, NEW F \in SUBSET Folders, ResetMailSyncState(F)
    PROVE  sync' \in [Folders -> SyncState]
  <1>1. NoLink \in Link
    BY DEF NoLink, DeltaLink, Link
  <1>2. \A f \in Folders : [sync[f] EXCEPT !.next = NoLink, !.delta = 0] \in SyncState
    BY <1>1 DEF TypeOK, SyncState
  <1>3. QED
    BY <1>2 DEF TypeOK, ResetMailSyncState

\* What the two outcomes of applying an item have in common: it leaves the page,
\* and its row is tombstoned, stored in full, spoiled by a lost answer, or left.
Applies(p, item) ==
    /\ page' = [page EXCEPT ![p] = @ \ {item}]
    /\ \/ /\ item.folder # folder[p]
          /\ TombstoneMail(item.id, folder[p])
          /\ UNCHANGED lost
       \/ /\ item.folder = folder[p]
          /\ UpsertMailMessage(item, TRUE)
          /\ lost' = [lost EXCEPT ![item.id] = 0]
       \/ /\ item.folder = folder[p]
          /\ UNCHANGED rows \/ UpsertMailMessage(item, FALSE)
          /\ lost' = [lost EXCEPT ![item.id] = item.ver]
       \/ /\ item.folder = folder[p]
          /\ ~item.content.match
          /\ UNCHANGED <<rows, lost>>

LEMMA ItemApplied ==
    ASSUME NEW p \in Procs, ApplyItem(p) \/ LookupLost(p)
    PROVE  /\ \E item \in page[p] : Applies(p, item)
           /\ pc[p] = "apply"
           /\ UNCHANGED <<mailbox, sync, pc, queue, folder, base, url, link, mayReset>>
  <1>1. CASE ApplyItem(p)
    BY <1>1 DEF ApplyItem, LeftOf, Applies
  <1>2. CASE LookupLost(p)
    BY <1>2 DEF LookupLost, LeftOf, Applies
  <1>3. QED
    BY <1>1, <1>2

LEMMA TypeApplied ==
    ASSUME TypeOK, NEW p \in Procs, ApplyItem(p) \/ LookupLost(p)
    PROVE  /\ rows' \in [Messages -> Row]
           /\ lost' \in [Messages -> Nat]
           /\ page' \in [Procs -> SUBSET Item]
  <1>1. PICK item \in page[p] : Applies(p, item)
    BY ItemApplied
  <1>2. item \in Item /\ item.id \in Messages /\ item.ver \in Nat
    BY DEF TypeOK, Item
  <1>3. rows' \in [Messages -> Row]
    <2>1. CASE TombstoneMail(item.id, folder[p])
      <3>1. \A r \in Row : [r EXCEPT !.live = FALSE] \in Row
        BY DEF Row
      <3>2. \A m \in Messages : rows'[m] \in Row
        BY <1>2, <2>1, <3>1 DEF TypeOK, TombstoneMail
      <3>3. QED
        BY <2>1, <3>2 DEF TypeOK, TombstoneMail
    <2>2. ASSUME NEW whole \in BOOLEAN, UpsertMailMessage(item, whole)
          PROVE  rows' \in [Messages -> Row]
      BY <1>2, <2>2 DEF TypeOK, UpsertMailMessage, Item, Row
    <2>3. QED
      BY <1>1, <2>1, <2>2 DEF TypeOK, Applies
  <1>4. lost' \in [Messages -> Nat]
    <2>1. /\ lost \in [Messages -> Nat]
          /\ \/ lost' = lost
             \/ lost' = [lost EXCEPT ![item.id] = 0]
             \/ lost' = [lost EXCEPT ![item.id] = item.ver]
      BY <1>1 DEF TypeOK, Applies
    <2>2. QED
      BY <1>2, <2>1
  <1>5. page' \in [Procs -> SUBSET Item]
    BY <1>1 DEF TypeOK, Applies
  <1>6. QED
    BY <1>3, <1>4, <1>5

LEMMA TypeNext == ASSUME TypeOK, [Next]_vars PROVE TypeOK'
  <1> USE DEF Steps, Places
  <1>1. ASSUME NEW m \in Messages, NEW g \in Places, NEW content \in Contents,
               MailboxChange(m, g, content)
        PROVE  TypeOK'
    <2>1. box' \in [Messages -> Copy]
      BY <1>1 DEF TypeOK, MailboxChange, Copy
    <2>2. gone' \in [Folders -> [Messages -> Nat]]
      BY <1>1 DEF TypeOK, MailboxChange
    <2>3. QED
      BY <1>1, <2>1, <2>2 DEF TypeOK, MailboxChange, database, memory
  <1>2. ASSUME NEW f \in Folders, Expire(f) PROVE TypeOK'
    BY <1>2 DEF TypeOK, Expire, Disturb, database, memory
  <1>3. ASSUME NEW p \in Procs, Work(p) PROVE TypeOK'
    <2>1. CASE SyncAll(p)
      BY <2>1 DEF TypeOK, SyncAll, mailbox, database
    <2>2. ASSUME NEW f \in Folders, SyncFolder(p, f) PROVE TypeOK'
      BY <2>2 DEF TypeOK, SyncFolder, mailbox, database
    <2>3. CASE Begin(p)
      <3>1. folder[p] \in Folders
        BY <2>3 DEF TypeOK, Begin
      <3>2. /\ sync[folder[p]].next \in Link
            /\ sync[folder[p]].delta \in Nat
        BY <3>1 DEF TypeOK, SyncState
      <3>3. DeltaLink(sync[folder[p]].delta) \in Link
        BY <3>2 DEF DeltaLink, Link
      <3>4. QED
        BY <2>3, <3>2, <3>3 DEF TypeOK, Begin, mailbox, database
    <2>4. CASE FetchPage(p)
      <3>1. folder[p] \in Folders /\ url[p] \in Link
        BY <2>4 DEF TypeOK, FetchPage
      <3>2. Walk(folder[p], url[p]) \in Link
        BY <3>1 DEF TypeOK, Walk, Changed, Link
      <3>3. PICK listed \in SUBSET Walk(folder[p], url[p]).todo :
              /\ page' = [page EXCEPT ![p] = {ItemOf(m) : m \in listed}]
              /\ link' = [link EXCEPT ![p] =
                            [Walk(folder[p], url[p]) EXCEPT
                                !.paging = (listed # Walk(folder[p], url[p]).todo),
                                !.todo = @ \ listed]]
        BY <2>4 DEF FetchPage
      <3>4. \A m \in Messages : ItemOf(m) \in Item
        BY DEF TypeOK, ItemOf, Item, Copy
      <3>5. page' \in [Procs -> SUBSET Item]
        <4>1. listed \subseteq Messages
          BY <3>2 DEF Link
        <4>2. {ItemOf(m) : m \in listed} \subseteq Item
          BY <3>4, <4>1
        <4>3. QED
          BY <3>3, <4>2 DEF TypeOK
      <3>6. link' \in [Procs -> Link]
        BY <3>2, <3>3 DEF TypeOK, Link
      <3>7. QED
        BY <2>4, <3>5, <3>6 DEF TypeOK, FetchPage, mailbox, database
    <2>5. CASE FetchGone(p)
      <3>1. sync' \in [Folders -> SyncState]
        BY <2>5, TypeReset DEF TypeOK, FetchGone
      <3>2. NoLink \in Link
        BY DEF NoLink, DeltaLink, Link
      <3>3. QED
        BY <2>5, <3>1, <3>2 DEF TypeOK, FetchGone, mailbox
    <2>6. CASE FetchGoneAgain(p)
      <3>1. sync' \in [Folders -> SyncState]
        BY <2>6, TypeRecordFailure DEF TypeOK, FetchGoneAgain
      <3>2. QED
        BY <2>6, <3>1, TypeReturn DEF TypeOK, FetchGoneAgain, mailbox
    <2>7. CASE ApplyItem(p)
      BY <2>7, TypeApplied DEF TypeOK, ApplyItem, mailbox
    <2>8. CASE SaveMailNextLink(p)
      <3>1. link[p] \in Link /\ folder[p] \in Folders
        BY <2>8 DEF TypeOK, SaveMailNextLink, PageApplied
      <3>2. sync' \in [Folders -> SyncState]
        <4>1. [sync[folder[p]] EXCEPT !.next = link[p]] \in SyncState
          <5>1. sync[folder[p]] \in SyncState
            BY <3>1 DEF TypeOK
          <5>2. QED
            BY <3>1, <5>1 DEF SyncState
        <4>2. QED
          BY <2>8, <3>1, <4>1 DEF TypeOK, SaveMailNextLink, PageApplied
      <3>3. NoLink \in Link
        BY DEF NoLink, DeltaLink, Link
      <3>4. QED
        BY <2>8, <3>1, <3>2, <3>3 DEF TypeOK, SaveMailNextLink, PageApplied, mailbox
    <2>9. CASE CommitMailDeltaLink(p)
      <3>1. link[p].upto \in Nat /\ base[p] \in Nat /\ folder[p] \in Folders
        BY <2>9
           DEF TypeOK, CommitMailDeltaLink, PageApplied, CommittedState,
               CommittedLink, Link
      <3>2. NoLink \in Link
        BY DEF NoLink, DeltaLink, Link
      <3>3. sync' \in [Folders -> SyncState]
        BY <2>9, <3>1, <3>2
           DEF TypeOK, CommitMailDeltaLink, PageApplied, CommittedState,
               CommittedLink, SyncState
      <3>4. QED
        BY <2>9, <3>3, TypeReturn
           DEF TypeOK, CommitMailDeltaLink, PageApplied, CommittedState,
               CommittedLink, mailbox
    <2>10. QED
      BY <1>3, <2>1, <2>2, <2>3, <2>4, <2>5, <2>6, <2>7, <2>8, <2>9 DEF Work
  <1>4. ASSUME NEW p \in Procs, Failure(p) PROVE TypeOK'
    <2>1. CASE FetchEmptyBody(p)
      <3>1. NoLink \in Link
        BY DEF NoLink, DeltaLink, Link
      <3>2. QED
        BY <2>1, <3>1 DEF TypeOK, FetchEmptyBody, Disturb, mailbox, database
    <2>2. CASE FetchFails(p)
      <3>1. sync' \in [Folders -> SyncState]
        BY <2>2, TypeRecordFailure DEF TypeOK, FetchFails
      <3>2. QED
        BY <2>2, <3>1, TypeReturn DEF TypeOK, FetchFails, Disturb, mailbox
    <2>3. CASE ItemFails(p)
      <3>1. sync' \in [Folders -> SyncState]
        BY <2>3, TypeRecordFailure DEF TypeOK, ItemFails
      <3>2. QED
        BY <2>3, <3>1, TypeReturn DEF TypeOK, ItemFails, Disturb, mailbox
    <2>4. CASE CursorFails(p)
      BY <2>4, TypeReturn DEF TypeOK, CursorFails, Disturb, mailbox, database
    <2>5. CASE Crash(p)
      BY <2>5, TypeReturn DEF TypeOK, Crash, Disturb, mailbox, database
    <2>6. CASE LookupLost(p)
      <3>1. /\ rows' \in [Messages -> Row] /\ lost' \in [Messages -> Nat]
            /\ page' \in [Procs -> SUBSET Item]
        BY <2>6, TypeApplied
      <3>2. UNCHANGED <<mailbox, sync, pc, queue, folder, base, url, link, mayReset>>
        BY <2>6, ItemApplied
      <3>3. faults' \in Nat
        BY <2>6 DEF TypeOK, LookupLost, Disturb
      <3>4. QED
        BY <3>1, <3>2, <3>3 DEF TypeOK, mailbox
    <2>7. QED
      BY <1>4, <2>1, <2>2, <2>3, <2>4, <2>5, <2>6 DEF Failure
  <1>5. ASSUME NEW p \in Procs, Operator(p) PROVE TypeOK'
    <2>1. ASSUME NEW f \in Folders, SyncOne(p, f) PROVE TypeOK'
      BY <2>1 DEF TypeOK, SyncOne, mailbox, database
    <2>2. ASSUME NEW F \in {Folders} \cup {{f} : f \in Folders}, SyncFull(p, F)
          PROVE  TypeOK'
      <3>1. F \in SUBSET Folders
        OBVIOUS
      <3>2. sync' \in [Folders -> SyncState]
        BY <2>2, <3>1, TypeReset DEF SyncFull
      <3>3. QED
        BY <2>2, <3>1, <3>2 DEF TypeOK, SyncFull, Disturb, mailbox
    <2>3. QED
      BY <1>5, <2>1, <2>2 DEF Operator
  <1>6. CASE UNCHANGED vars
    BY <1>6 DEF TypeOK, vars, mailbox, database, memory
  <1>7. QED
    BY <1>1, <1>2, <1>3, <1>4, <1>5, <1>6 DEF Next, Mailbox

\* The mailbox, the database and the memory of every process stay well typed
\* through every operation, failure and restart.
THEOREM TypeCorrect == Spec => []TypeOK
  <1>1. Init => TypeOK
    BY TypeInit
  <1>2. TypeOK /\ [Next]_vars => TypeOK'
    BY TypeNext
  <1>3. QED
    BY <1>1, <1>2, PTL DEF Spec

-----------------------------------------------------------------------------
(* One process: the delta link never runs ahead of the rows *)

\* The daemon and the command line do not run at the same time.
OneProcess == \A p, q \in Procs : p = q

\* MailInv without type correctness, in the parts the actions disturb.
CursorInv ==
    /\ LinksIssued
    /\ NothingMissed
    /\ ResumeSkipsNothing

WalkInv ==
    /\ \A p \in Procs : WalkCovers(p)
    /\ \A p \in Procs : \A item \in page[p] : Fresh(p, item)

LEMMA MailInvParts == MailInv <=> TypeOK /\ CursorInv /\ WalkInv
  BY DEF MailInv, CursorInv, WalkInv

\* Nothing is covered by the empty link.
LEMMA CoveredByNothing ==
    ASSUME TypeOK, LinksIssued, NEW f, NEW todo
    PROVE  Covered(f, 0, todo)
  <1>1. \A m \in Messages : box[m].ver \in Nat /\ box[m].ver >= 1
    BY DEF TypeOK, LinksIssued, Copy
  <1>2. QED
    BY <1>1 DEF Covered

LEMMA InvInit == ASSUME Init PROVE MailInv
  <1>1. TypeOK
    BY TypeInit
  <1>2. LinksIssued
    BY DEF Init, LinksIssued, NoState, NoLink, DeltaLink
  <1>3. NothingMissed
    BY <1>1, <1>2, CoveredByNothing DEF Init, NothingMissed, NoState
  <1>4. ResumeSkipsNothing
    BY DEF Init, ResumeSkipsNothing, NoState, NoLink, DeltaLink
  <1>5. ASSUME NEW p \in Procs PROVE WalkCovers(p)
    BY <1>5 DEF Init, WalkCovers
  <1>6. \A p \in Procs : page[p] = {}
    BY DEF Init
  <1>7. QED
    BY <1>1, <1>2, <1>3, <1>4, <1>5, <1>6 DEF MailInv

\* A step that leaves the messages, the rows, the cursors and the walks alone.
LEMMA InvStable ==
    ASSUME MailInv, UNCHANGED <<clock, box, rows, lost, sync, pc, folder, base, url, page, link>>
    PROVE  CursorInv' /\ WalkInv'
  BY
     DEF MailInv, CursorInv, WalkInv, LinksIssued, NothingMissed,
         ResumeSkipsNothing,
         WalkCovers, Fresh, Covered, Wanted, Spoiled, Current, ItemOf, Ids

\* Every link in the database and in memory is at most clock, so a change of the
\* mailbox, which is numbered clock + 1, is beyond all of them.
LEMMA InvMailboxChange ==
    ASSUME MailInv, NEW m \in Messages, NEW g \in Places, NEW content \in Contents,
           MailboxChange(m, g, content)
    PROVE  CursorInv' /\ WalkInv'
  <1> USE DEF MailInv
  <1>1. /\ clock' = clock + 1 /\ clock \in Nat
        /\ box'[m].ver = clock + 1
        /\ \A k \in Messages \ {m} : box'[k] = box[k]
        /\ UNCHANGED <<rows, sync, lost, pc, folder, base, url, page, link>>
    BY DEF MailboxChange, TypeOK, database, memory
  <1>2. /\ \A k \in Messages : box[k].ver \in Nat
        /\ \A f \in Folders : sync[f].delta \in Nat /\ sync[f].next.upto \in Nat
        /\ \A p \in Procs : base[p] \in Nat /\ url[p].upto \in Nat /\ link[p].upto \in Nat
        /\ \A p \in Procs : \A item \in page[p] : item.id \in Messages
    BY DEF TypeOK, Copy, SyncState, Link, Item
  <1>3. LinksIssued'
    BY <1>1, <1>2 DEF LinksIssued
  <1>4. ASSUME NEW f, NEW n \in Nat, n <= clock, NEW todo, Covered(f, n, todo)
        PROVE  Covered(f, n, todo)'
    BY <1>1, <1>2, <1>4 DEF Covered, Wanted, Spoiled, Current
  <1>5. NothingMissed'
    BY <1>1, <1>2, <1>4 DEF LinksIssued, NothingMissed
  <1>6. ResumeSkipsNothing'
    BY <1>1, <1>2, <1>4 DEF LinksIssued, ResumeSkipsNothing
  <1>7. ASSUME NEW p \in Procs PROVE WalkCovers(p)'
    BY <1>1, <1>2, <1>4 DEF LinksIssued, WalkCovers, Ids
  <1>8. ASSUME NEW p \in Procs, NEW item \in page[p] PROVE Fresh(p, item)'
    <2>1. CASE item.id = m
      BY <1>1, <1>2, <2>1 DEF LinksIssued, Fresh
    <2>2. CASE item.id # m
      BY <1>1, <1>2, <2>2 DEF Fresh, ItemOf
    <2>3. QED
      BY <2>1, <2>2
  <1>9. QED
    BY <1>1, <1>3, <1>5, <1>6, <1>7, <1>8 DEF CursorInv, WalkInv

\* What a walk leaves behind when it ends, whatever it did to the cursors.
LEMMA InvReturn ==
    ASSUME OneProcess, MailInv, NEW p \in Procs, Return(p),
           UNCHANGED <<clock, box, rows, lost>>, NothingMissed', ResumeSkipsNothing',
           \A f \in Folders : sync'[f].delta <= clock /\ sync'[f].next.upto <= clock
    PROVE  CursorInv' /\ WalkInv'
  <1> USE DEF MailInv
  <1>1. \A q \in Procs : /\ pc'[q] = "idle" /\ page'[q] = {}
                         /\ base'[q] = 0 /\ url'[q] = NoLink /\ link'[q] = NoLink
    BY DEF OneProcess, Return, TypeOK
  <1>2. LinksIssued'
    BY <1>1 DEF LinksIssued, TypeOK, NoLink, DeltaLink
  <1>3. QED
    BY <1>1, <1>2 DEF CursorInv, WalkInv, WalkCovers

\* A failed walk keeps the folder's cursors.
LEMMA InvFailure ==
    ASSUME OneProcess, MailInv, NEW p \in Procs, Return(p),
           UNCHANGED <<clock, box, rows, lost>>,
           RecordMailSyncFailure(folder[p]) \/ UNCHANGED sync
    PROVE  CursorInv' /\ WalkInv'
  <1>1. \A f \in Folders : sync'[f].delta = sync[f].delta /\ sync'[f].next = sync[f].next
    <2>1. \A f \in Folders : \/ sync'[f] = sync[f]
                             \/ sync'[f] = [sync[f] EXCEPT !.failing = TRUE]
      BY DEF MailInv, TypeOK, RecordMailSyncFailure
    <2>2. \A st \in SyncState : /\ [st EXCEPT !.failing = TRUE].delta = st.delta
                                /\ [st EXCEPT !.failing = TRUE].next = st.next
      BY DEF SyncState
    <2>3. QED
      BY <2>1, <2>2 DEF MailInv, TypeOK
  <1>2. NothingMissed' /\ ResumeSkipsNothing'
    BY <1>1 DEF MailInv, NothingMissed, ResumeSkipsNothing, Covered, Wanted, Spoiled, Current
  <1>3. \A f \in Folders : sync'[f].delta <= clock /\ sync'[f].next.upto <= clock
    BY <1>1 DEF MailInv, LinksIssued
  <1>4. QED
    BY <1>2, <1>3, InvReturn

\* Dropping cursors uncovers nothing.
LEMMA InvReset ==
    ASSUME MailInv, NEW F \in SUBSET Folders, ResetMailSyncState(F),
           UNCHANGED <<clock, box, rows, lost>>
    PROVE  /\ NothingMissed' /\ ResumeSkipsNothing'
           /\ \A f \in Folders : /\ sync'[f].delta <= sync[f].delta
                                /\ sync'[f].next.upto <= sync[f].next.upto
  <1>1. /\ \A f \in F : sync'[f].delta = 0 /\ sync'[f].next = NoLink
        /\ \A f \in Folders \ F : sync'[f] = sync[f]
    BY DEF MailInv, TypeOK, SyncState, ResetMailSyncState
  <1>2. \A f \in Folders : sync[f].delta \in Nat /\ sync[f].next.upto \in Nat
    BY DEF MailInv, TypeOK, SyncState, Link
  <1>3. \A f \in F : Covered(f, 0, {})
    BY CoveredByNothing DEF MailInv
  <1>4. NothingMissed'
    BY <1>1, <1>3 DEF MailInv, NothingMissed, Covered, Wanted, Spoiled, Current
  <1>5. ResumeSkipsNothing'
    BY <1>1
       DEF MailInv, ResumeSkipsNothing, NoLink, DeltaLink, Covered, Wanted, Spoiled, Current
  <1>6. QED
    BY <1>1, <1>2, <1>4, <1>5 DEF NoLink, DeltaLink

\* A step of p that leaves clock, messages and rows alone keeps what was covered.
LEMMA CoveredStable ==
    ASSUME UNCHANGED <<box, rows, lost>>
    PROVE  \A f, n, todo : Covered(f, n, todo) => Covered(f, n, todo)'
  BY DEF Covered, Wanted, Spoiled, Current

\* The links of a process are numbers.
LEMMA LinkTypes ==
    ASSUME TypeOK
    PROVE  /\ clock \in Nat
           /\ \A m \in Messages : box[m].ver \in Nat
           /\ \A f \in Folders : sync[f].delta \in Nat /\ sync[f].next \in Link
           /\ \A p \in Procs : /\ base[p] \in Nat /\ url[p] \in Link /\ link[p] \in Link
                               /\ page[p] \subseteq Item
           /\ \A k \in Link : k.upto \in Nat /\ k.todo \subseteq Messages
  BY DEF TypeOK, Copy, SyncState, Link

\* SyncFolder enters: nothing is read yet, nothing is to be covered yet.
LEMMA InvEnter ==
    ASSUME OneProcess, MailInv, NEW p \in Procs, NEW f \in Folders, SyncFolder(p, f)
    PROVE  CursorInv' /\ WalkInv'
  <1> USE DEF MailInv
  <1>1. UNCHANGED <<clock, box, rows, lost, sync, base, url, page, link>>
    BY DEF SyncFolder, mailbox, database
  <1>2. CursorInv'
    BY <1>1, CoveredStable
       DEF CursorInv, LinksIssued, NothingMissed, ResumeSkipsNothing
  <1>3. \A q \in Procs : pc'[q] = "begin"
    BY DEF SyncFolder, OneProcess, TypeOK
  <1>4. \A q \in Procs : WalkCovers(q)'
    BY <1>3 DEF WalkCovers
  <1>5. ASSUME NEW q \in Procs, NEW item \in page[q] PROVE Fresh(q, item)'
    BY <1>1 DEF Fresh, ItemOf
  <1>6. QED
    BY <1>1, <1>2, <1>4, <1>5 DEF WalkInv

\* The links read at the start are covered because the stored ones are.
LEMMA InvBegin ==
    ASSUME OneProcess, MailInv, NEW p \in Procs, Begin(p)
    PROVE  CursorInv' /\ WalkInv'
  <1> USE DEF MailInv
  <1> DEFINE st == sync[folder[p]]
  <1>1. /\ UNCHANGED <<clock, box, rows, lost, sync, folder, page, link>>
        /\ pc[p] = "begin" /\ folder[p] \in Folders
        /\ pc'[p] = "fetch"
        /\ base'[p] = st.delta
        /\ url'[p] = IF st.next.paging THEN st.next ELSE DeltaLink(st.delta)
    BY DEF Begin, TypeOK, mailbox, database
  <1>2. /\ url'[p].upto <= clock
        /\ ~url'[p].paging => url'[p].todo = {}
        /\ base'[p] <= clock
    BY <1>1 DEF LinksIssued, DeltaLink
  <1>3. CursorInv'
    <2>1. LinksIssued'
      BY <1>1, <1>2 DEF LinksIssued, OneProcess
    <2>2. QED
      BY <1>1, <2>1, CoveredStable DEF CursorInv, NothingMissed, ResumeSkipsNothing
  <1>4. WalkCovers(p)'
    <2>1. Covered(folder[p], base[p], {})'
      BY <1>1 DEF NothingMissed, Covered, Wanted, Spoiled, Current
    <2>2. Covered(folder[p], url'[p].upto, url'[p].todo)
      BY <1>1 DEF NothingMissed, ResumeSkipsNothing, DeltaLink
    <2>3. Covered(folder[p], url[p].upto, url[p].todo)'
      BY <1>1, <2>2 DEF Covered, Wanted, Spoiled, Current
    <2>4. QED
      BY <1>1, <2>1, <2>3 DEF WalkCovers
  <1>5. ASSUME NEW item \in page[p] PROVE Fresh(p, item)'
    BY <1>1 DEF Fresh, ItemOf
  <1>6. QED
    BY <1>1, <1>3, <1>4, <1>5 DEF WalkInv, OneProcess

\* A walk that opens lists whatever changed since its link, so it covers
\* everything else up to now.
LEMMA WalkOpens ==
    ASSUME TypeOK, LinksIssued, NEW f, NEW u \in Link, Covered(f, u.upto, u.todo),
           ~u.paging => u.todo = {}, u.upto <= clock
    PROVE  /\ Walk(f, u) \in Link
           /\ Walk(f, u).upto <= clock
           /\ Covered(f, Walk(f, u).upto, Walk(f, u).todo)
  <1>1. CASE u.paging
    BY <1>1 DEF Walk
  <1>2. CASE ~u.paging
    <2>1. Walk(f, u) = [paging |-> TRUE, upto |-> clock, todo |-> Changed(f, u.upto)]
      BY <1>2 DEF Walk
    <2>2. clock \in Nat /\ Changed(f, u.upto) \in SUBSET Messages
      BY DEF TypeOK, Changed
    <2>3. Covered(f, clock, Changed(f, u.upto))
      BY <1>2, LinkTypes DEF Covered, Changed, Wanted
    <2>4. QED
      BY <2>1, <2>2, <2>3 DEF Link
  <1>3. QED
    BY <1>1, <1>2

\* The items of the fetched page join what the walk leaves out.
LEMMA InvFetchPage ==
    ASSUME OneProcess, MailInv, NEW p \in Procs, FetchPage(p)
    PROVE  CursorInv' /\ WalkInv'
  <1> USE DEF MailInv
  <1> DEFINE walk == Walk(folder[p], url[p])
  <1>1. /\ UNCHANGED <<clock, box, rows, lost, sync, folder, base, url>>
        /\ pc[p] = "fetch" /\ pc'[p] = "apply"
        /\ folder[p] \in Folders /\ url[p] \in Link
    BY LinkTypes DEF FetchPage, TypeOK, mailbox, database
  <1>2. /\ walk \in Link /\ walk.upto <= clock
        /\ Covered(folder[p], walk.upto, walk.todo)
    BY <1>1, WalkOpens DEF WalkCovers, LinksIssued
  <1> HIDE DEF walk
  <1>3. PICK listed \in SUBSET walk.todo :
          /\ page'[p] = {ItemOf(m) : m \in listed}
          /\ link'[p] = [walk EXCEPT !.paging = (listed # walk.todo),
                                    !.todo = @ \ listed]
    BY DEF FetchPage, TypeOK, walk
  <1>4. link'[p] \in Link /\ page'[p] \subseteq Item
    <2>1. TypeOK'
      BY TypeNext DEF Next, Work
    <2>2. QED
      BY <2>1 DEF TypeOK
  <1>5. /\ link'[p].upto = walk.upto
        /\ link'[p].todo = walk.todo \ listed
        /\ ~link'[p].paging => link'[p].todo = {}
    BY <1>2, <1>3 DEF Link
  <1>6. LinksIssued'
    BY <1>1, <1>2, <1>5 DEF LinksIssued, OneProcess
  <1>7. CursorInv'
    BY <1>1, <1>6, CoveredStable DEF CursorInv, NothingMissed, ResumeSkipsNothing
  <1>8. Ids(page'[p]) = listed
    <2>1. \A m \in listed : ItemOf(m).id = m
      BY DEF ItemOf
    <2>2. Ids(page'[p]) = {ItemOf(m).id : m \in listed}
      BY <1>3 DEF Ids
    <2>3. QED
      BY <2>1, <2>2
  <1>9. Covered(folder[p], link[p].upto, link[p].todo \cup Ids(page[p]))'
    BY <1>1, <1>2, <1>5, <1>8 DEF Covered, Wanted, Spoiled, Current
  <1>10. WalkCovers(p)'
    BY <1>1, <1>9, CoveredStable DEF WalkCovers
  <1>11. ASSUME NEW item \in page'[p] PROVE Fresh(p, item)'
    <2>1. PICK m \in listed : item = ItemOf(m)
      BY <1>3
    <2>2. ItemOf(item.id) = item
      BY <2>1 DEF ItemOf
    <2>3. QED
      BY <1>1, <2>2 DEF Fresh, ItemOf
  <1>12. QED
    BY <1>7, <1>10, <1>11 DEF WalkInv, OneProcess

\* An empty answer brings no item and no link.
LEMMA InvFetchEmptyBody ==
    ASSUME OneProcess, MailInv, NEW p \in Procs, FetchEmptyBody(p)
    PROVE  CursorInv' /\ WalkInv'
  <1> USE DEF MailInv
  <1>1. /\ UNCHANGED <<clock, box, rows, lost, sync, folder, base, url>>
        /\ pc[p] = "fetch" /\ pc'[p] = "apply"
        /\ page'[p] = {} /\ link'[p] = NoLink
    BY DEF FetchEmptyBody, TypeOK, mailbox, database
  <1>2. link'[p].upto = 0 /\ link'[p].todo = {}
    BY <1>1 DEF NoLink, DeltaLink
  <1>3. CursorInv'
    <2>1. LinksIssued'
      BY <1>1, <1>2, LinkTypes DEF LinksIssued, OneProcess
    <2>2. QED
      BY <1>1, <2>1, CoveredStable DEF CursorInv, NothingMissed, ResumeSkipsNothing
  <1>4. Covered(folder[p], link[p].upto, link[p].todo \cup Ids(page[p]))'
    BY <1>1, <1>2, LinkTypes DEF Covered, LinksIssued
  <1>5. WalkCovers(p)'
    BY <1>1, <1>4, CoveredStable DEF WalkCovers
  <1>6. QED
    BY <1>1, <1>3, <1>5 DEF WalkInv, OneProcess

\* A reset restarts the walk with nothing to rely on.
LEMMA InvFetchGone ==
    ASSUME OneProcess, MailInv, NEW p \in Procs, FetchGone(p)
    PROVE  CursorInv' /\ WalkInv'
  <1> USE DEF MailInv
  <1>1. /\ UNCHANGED <<clock, box, rows, lost, folder, page, link>>
        /\ pc'[p] = "begin" /\ base'[p] = 0 /\ url'[p] = NoLink
        /\ {folder[p]} \in SUBSET Folders
        /\ ResetMailSyncState({folder[p]})
    BY DEF FetchGone, TypeOK, mailbox
  <1>2. /\ NothingMissed' /\ ResumeSkipsNothing'
        /\ \A f \in Folders : /\ sync'[f].delta <= sync[f].delta
                             /\ sync'[f].next.upto <= sync[f].next.upto
    BY <1>1, InvReset
  <1>3. \A f \in Folders : sync'[f] \in SyncState
    BY TypeNext DEF TypeOK, Next, Work
  <1>4. \A f \in Folders : sync'[f].delta \in Nat /\ sync'[f].next.upto \in Nat
    BY <1>3 DEF SyncState, Link
  <1>5. LinksIssued'
    BY <1>1, <1>2, <1>4, LinkTypes DEF LinksIssued, OneProcess, NoLink, DeltaLink
  <1>6. WalkCovers(p)'
    BY <1>1 DEF WalkCovers
  <1>7. ASSUME NEW item \in page[p] PROVE Fresh(p, item)'
    <2>1. item.id \in Messages
      BY LinkTypes DEF Item
    <2>2. box[item.id].ver > 0
      BY <2>1, LinkTypes DEF LinksIssued
    <2>3. QED
      BY <1>1, <1>2, <1>4, <2>1, <2>2, LinkTypes DEF Fresh, ItemOf
  <1>8. QED
    BY <1>1, <1>2, <1>5, <1>6, <1>7 DEF CursorInv, WalkInv, OneProcess

\* An item in memory is current or beyond every link, so storing it, or acting on
\* its @removed entry, disturbs nothing that a link covers, and makes its own
\* message current for the walk.
LEMMA InvApplyItem ==
    ASSUME OneProcess, MailInv, NEW p \in Procs, ApplyItem(p) \/ LookupLost(p)
    PROVE  CursorInv' /\ WalkInv'
  <1> USE DEF MailInv
  <1>1. PICK item \in page[p] : Applies(p, item)
    BY ItemApplied
  <1> DEFINE m == item.id
  <1>2. /\ UNCHANGED <<clock, box, sync, pc, folder, base, url, link>>
        /\ pc[p] = "apply" /\ folder[p] \in Folders
        /\ page'[p] = page[p] \ {item}
        /\ item \in Item /\ m \in Messages
    <2>1. page' = [page EXCEPT ![p] = @ \ {item}] /\ item \in Item
      BY <1>1, LinkTypes DEF Applies
    <2>2. QED
      BY <2>1, ItemApplied DEF TypeOK, mailbox, Item
  <1>3. \A k \in Messages \ {m} : rows'[k] = rows[k] /\ lost'[k] = lost[k]
    BY <1>1, <1>2 DEF Applies, TombstoneMail, UpsertMailMessage, TypeOK
  <1>4. Fresh(p, item)
    BY <1>1
  \* What a link covers stays covered.
  <1>5. ASSUME NEW f \in Folders, NEW n \in Nat, NEW todo, Covered(f, n, todo),
               ItemOf(m) # item => box[m].ver > n
        PROVE  Covered(f, n, todo)'
    <2>1. ASSUME m \notin todo, Wanted(m, f), box[m].ver <= n, ~Spoiled(m)'
          PROVE  Current(m)'
      <3>1. ItemOf(m) = item
        BY <1>2, <1>5, <2>1, LinkTypes
      <3>2. /\ item.folder = box[m].folder /\ item.ver = box[m].ver
            /\ item.content = box[m].content
        BY <3>1 DEF ItemOf
      <3>3. UNCHANGED lost => Current(m)
        BY <1>2, <1>5, <2>1 DEF Covered, Spoiled
      <3>4. CASE TombstoneMail(m, folder[p]) /\ item.folder # folder[p] /\ UNCHANGED lost
        BY <1>2, <3>2, <3>3, <3>4 DEF TombstoneMail, Current, TypeOK
      <3>5. CASE UpsertMailMessage(item, TRUE)
        BY <1>2, <3>2, <3>5 DEF UpsertMailMessage, Current, TypeOK
      <3>6. ~(lost' = [lost EXCEPT ![m] = item.ver])
        BY <1>2, <2>1, <3>2 DEF Spoiled, TypeOK
      <3>7. item.content.match
        BY <2>1, <3>2 DEF Wanted
      <3>8. QED
        BY <1>1, <3>4, <3>5, <3>6, <3>7 DEF Applies
    <2>2. QED
      BY <1>2, <1>3, <1>5, <2>1 DEF Covered, Wanted, Spoiled, Current
  <1>6. /\ \A f \in Folders : ItemOf(m) # item => box[m].ver > sync[f].delta
        /\ \A f \in Folders : ItemOf(m) # item => box[m].ver > sync[f].next.upto
        /\ ItemOf(m) # item => box[m].ver > base[p]
        /\ ItemOf(m) # item => box[m].ver > link[p].upto
    BY <1>4 DEF Fresh
  <1>7. NothingMissed'
    BY <1>2, <1>5, <1>6, LinkTypes DEF NothingMissed
  <1>8. ResumeSkipsNothing'
    BY <1>2, <1>5, <1>6, LinkTypes DEF ResumeSkipsNothing
  <1>9. LinksIssued'
    BY <1>2 DEF LinksIssued
  <1>10. Covered(folder[p], base[p], {})'
    BY <1>2, <1>5, <1>6, LinkTypes DEF WalkCovers
  <1>11. Covered(folder[p], link[p].upto, link[p].todo \cup Ids(page[p]))'
    <2>1. Covered(folder[p], link[p].upto, link[p].todo \cup Ids(page[p]))
      BY <1>2 DEF WalkCovers
    <2>2. ASSUME Wanted(m, folder[p]), box[m].ver <= link[p].upto, ~Spoiled(m)'
          PROVE  Current(m)'
      <3>1. ItemOf(m) = item
        BY <1>2, <1>6, <2>2, LinkTypes
      <3>2. item.folder = folder[p] /\ item.content.match /\ item.ver = box[m].ver
        BY <2>2, <3>1 DEF ItemOf, Wanted
      <3>3. ~(lost' = [lost EXCEPT ![m] = item.ver])
        BY <1>2, <2>2, <3>2 DEF Spoiled, TypeOK
      <3>4. UpsertMailMessage(item, TRUE)
        BY <1>1, <3>2, <3>3 DEF Applies
      <3>5. QED
        BY <1>2, <2>2, <3>2, <3>4 DEF UpsertMailMessage, Current, Wanted, TypeOK
    <2>3. \A k \in Messages \ (link[p].todo \cup Ids(page'[p])) :
            k = m \/ k \in Messages \ (link[p].todo \cup Ids(page[p]))
      BY <1>2 DEF Ids
    <2>4. QED
      BY <1>2, <1>3, <2>1, <2>2, <2>3 DEF Covered, Wanted, Spoiled, Current
  <1>12. WalkCovers(p)'
    BY <1>2, <1>10, <1>11 DEF WalkCovers
  <1>13. ASSUME NEW i \in page'[p] PROVE Fresh(p, i)'
    <2>1. Fresh(p, i)
      BY <1>2
    <2>2. QED
      BY <1>2, <2>1 DEF Fresh, ItemOf
  <1>14. QED
    BY <1>7, <1>8, <1>9, <1>12, <1>13 DEF CursorInv, WalkInv, OneProcess

\* The stored nextLink covers what the applied pages left to it.
LEMMA InvSaveMailNextLink ==
    ASSUME OneProcess, MailInv, NEW p \in Procs, SaveMailNextLink(p)
    PROVE  CursorInv' /\ WalkInv'
  <1> USE DEF MailInv
  <1>1. /\ UNCHANGED <<clock, box, rows, lost, folder, base, page>>
        /\ pc[p] = "apply" /\ pc'[p] = "fetch" /\ page[p] = {}
        /\ folder[p] \in Folders /\ link[p].paging
        /\ url'[p] = link[p] /\ link'[p] = NoLink
    BY DEF SaveMailNextLink, PageApplied, TypeOK, mailbox
  <1>2. /\ \A f \in Folders : sync'[f].delta = sync[f].delta
        /\ \A f \in Folders \ {folder[p]} : sync'[f].next = sync[f].next
        /\ sync'[folder[p]].next = link[p]
    BY <1>1 DEF SaveMailNextLink, PageApplied, TypeOK, SyncState
  <1>3. Covered(folder[p], link[p].upto, link[p].todo)
    <2>1. link[p].todo \cup Ids(page[p]) = link[p].todo
      BY <1>1 DEF Ids
    <2>2. QED
      BY <1>1, <2>1 DEF WalkCovers
  <1>4. LinksIssued'
    BY <1>1, <1>2, LinkTypes DEF LinksIssued, OneProcess, NoLink, DeltaLink
  <1>5. NothingMissed'
    BY <1>1, <1>2, CoveredStable DEF NothingMissed, Covered, Wanted, Spoiled, Current
  <1>6. ResumeSkipsNothing'
    BY <1>1, <1>2, <1>3 DEF ResumeSkipsNothing, Covered, Wanted, Spoiled, Current
  <1>7. WalkCovers(p)'
    BY <1>1, <1>3 DEF WalkCovers, Covered, Wanted, Spoiled, Current
  <1>8. QED
    BY <1>1, <1>4, <1>5, <1>6, <1>7 DEF CursorInv, WalkInv, OneProcess

\* The committed link covers the folder: the walk has nothing left, or the link is
\* the one it started from.
LEMMA InvCommitMailDeltaLink ==
    ASSUME OneProcess, MailInv, NEW p \in Procs, CommitMailDeltaLink(p)
    PROVE  CursorInv' /\ WalkInv'
  <1> USE DEF MailInv
  <1> DEFINE committed == IF link[p].upto > 0 THEN link[p].upto ELSE base[p]
  <1>1. /\ UNCHANGED <<clock, box, rows, lost>>
        /\ pc[p] = "apply" /\ page[p] = {}
        /\ folder[p] \in Folders /\ ~link[p].paging
        /\ Return(p)
    BY
       DEF CommitMailDeltaLink, CommittedState, CommittedLink, PageApplied, TypeOK,
           mailbox
  <1>2. /\ \A f \in Folders \ {folder[p]} : sync'[f] = sync[f]
        /\ sync'[folder[p]].next = NoLink
        /\ sync'[folder[p]].delta = committed
    BY <1>1
       DEF CommitMailDeltaLink, CommittedState, CommittedLink, PageApplied, TypeOK
  <1>3. Covered(folder[p], committed, {})
    <2>1. link[p].todo \cup Ids(page[p]) = {}
      BY <1>1 DEF LinksIssued, Ids
    <2>2. QED
      BY <1>1, <2>1 DEF WalkCovers
  <1>4. committed <= clock
    BY DEF LinksIssued
  <1> HIDE DEF committed
  <1>5. NothingMissed'
    BY <1>1, <1>2, <1>3 DEF NothingMissed, Covered, Wanted, Spoiled, Current
  <1>6. ResumeSkipsNothing'
    BY <1>1, <1>2
       DEF ResumeSkipsNothing, Covered, Wanted, Spoiled, Current, NoLink, DeltaLink
  <1>7. \A f \in Folders : sync'[f].delta <= clock /\ sync'[f].next.upto <= clock
    BY <1>2, <1>4, LinkTypes DEF LinksIssued, NoLink, DeltaLink
  <1>8. QED
    BY <1>1, <1>5, <1>6, <1>7, InvReturn

\* The operator drops cursors while no walk is in progress.
LEMMA InvSyncFull ==
    ASSUME OneProcess, MailInv, NEW p \in Procs, NEW F \in SUBSET Folders, SyncFull(p, F)
    PROVE  CursorInv' /\ WalkInv'
  <1> USE DEF MailInv
  <1>1. /\ UNCHANGED <<clock, box, rows, lost, pc, folder, base, url, page, link>>
        /\ pc[p] = "idle" /\ ResetMailSyncState(F)
    BY DEF SyncFull, mailbox
  <1>2. /\ NothingMissed' /\ ResumeSkipsNothing'
        /\ \A f \in Folders : /\ sync'[f].delta <= sync[f].delta
                             /\ sync'[f].next.upto <= sync[f].next.upto
    BY <1>1, InvReset
  <1>3. sync' \in [Folders -> SyncState]
    BY <1>1, TypeReset
  <1>4. \A f \in Folders : sync'[f].delta \in Nat /\ sync'[f].next.upto \in Nat
    BY <1>3 DEF SyncState, Link
  <1>5. LinksIssued'
    BY <1>1, <1>2, <1>4, LinkTypes DEF LinksIssued
  <1>6. WalkCovers(p)'
    BY <1>1 DEF WalkCovers
  <1>7. ASSUME NEW item \in page[p] PROVE Fresh(p, item)'
    <2>1. item.id \in Messages
      BY LinkTypes DEF Item
    <2>2. QED
      BY <1>1, <1>2, <1>4, <2>1, LinkTypes DEF Fresh, ItemOf
  <1>8. QED
    BY <1>1, <1>2, <1>5, <1>6, <1>7 DEF CursorInv, WalkInv, OneProcess

LEMMA InvNext == ASSUME OneProcess, MailInv, [Next]_vars PROVE MailInv'
  <1>1. TypeOK'
    BY TypeNext DEF MailInv
  <1> SUFFICES CursorInv' /\ WalkInv'
    BY <1>1 DEF MailInv, CursorInv, WalkInv
  <1>2. ASSUME NEW m \in Messages, NEW g \in Places, NEW content \in Contents,
               MailboxChange(m, g, content)
        PROVE  CursorInv' /\ WalkInv'
    BY <1>2, InvMailboxChange
  <1>3. ASSUME NEW f \in Folders, Expire(f) PROVE CursorInv' /\ WalkInv'
    <2>1. clock' = clock + 1 /\ UNCHANGED <<box, database, memory>>
      BY <1>3 DEF Expire
    <2>2. LinksIssued'
      BY <2>1, LinkTypes DEF MailInv, LinksIssued, Link, database, memory
    <2>3. QED
      BY <2>1, <2>2
         DEF MailInv, CursorInv, WalkInv, NothingMissed, ResumeSkipsNothing,
                        WalkCovers, Fresh, Covered, Wanted, Spoiled, Current, ItemOf, Ids,
                        database, memory
  <1>4. ASSUME NEW p \in Procs, Work(p) PROVE CursorInv' /\ WalkInv'
    <2>1. CASE SyncAll(p)
      BY <2>1, InvStable DEF SyncAll, mailbox, database
    <2>2. ASSUME NEW f \in Folders, SyncFolder(p, f) PROVE CursorInv' /\ WalkInv'
      BY <2>2, InvEnter
    <2>3. CASE Begin(p)
      BY <2>3, InvBegin
    <2>4. CASE FetchPage(p)
      BY <2>4, InvFetchPage
    <2>5. CASE FetchGone(p)
      BY <2>5, InvFetchGone
    <2>6. CASE FetchGoneAgain(p)
      BY <2>6, InvFailure DEF FetchGoneAgain, mailbox
    <2>7. CASE ApplyItem(p)
      BY <2>7, InvApplyItem
    <2>8. CASE SaveMailNextLink(p)
      BY <2>8, InvSaveMailNextLink
    <2>9. CASE CommitMailDeltaLink(p)
      BY <2>9, InvCommitMailDeltaLink
    <2>10. QED
      BY <1>4, <2>1, <2>2, <2>3, <2>4, <2>5, <2>6, <2>7, <2>8, <2>9 DEF Work
  <1>5. ASSUME NEW p \in Procs, Failure(p) PROVE CursorInv' /\ WalkInv'
    <2>1. CASE FetchEmptyBody(p)
      BY <2>1, InvFetchEmptyBody
    <2>2. CASE FetchFails(p)
      BY <2>2, InvFailure DEF FetchFails, mailbox
    <2>3. CASE ItemFails(p)
      BY <2>3, InvFailure DEF ItemFails, mailbox
    <2>4. CASE CursorFails(p)
      BY <2>4, InvFailure DEF CursorFails, mailbox, database
    <2>5. CASE Crash(p)
      BY <2>5, InvFailure DEF Crash, mailbox, database
    <2>6. CASE LookupLost(p)
      BY <2>6, InvApplyItem
    <2>7. QED
      BY <1>5, <2>1, <2>2, <2>3, <2>4, <2>5, <2>6 DEF Failure
  <1>6. ASSUME NEW p \in Procs, Operator(p) PROVE CursorInv' /\ WalkInv'
    <2>1. ASSUME NEW f \in Folders, SyncOne(p, f) PROVE CursorInv' /\ WalkInv'
      BY <2>1, InvStable DEF SyncOne, mailbox, database
    <2>2. ASSUME NEW F \in {Folders} \cup {{f} : f \in Folders}, SyncFull(p, F)
          PROVE  CursorInv' /\ WalkInv'
      <3>1. F \in SUBSET Folders
        OBVIOUS
      <3>2. QED
        BY <2>2, <3>1, InvSyncFull
    <2>3. QED
      BY <1>6, <2>1, <2>2 DEF Operator
  <1>7. CASE UNCHANGED vars
    BY <1>7, InvStable DEF vars, mailbox, database, memory
  <1>8. QED
    BY <1>2, <1>3, <1>4, <1>5, <1>6, <1>7 DEF Next, Mailbox

\* Whatever fails, expires or is interrupted, and whenever the operator asks for a
\* full resynchronisation, a single process never commits a delta link ahead of
\* the rows: every matching message that changed by the link's number is stored
\* as it is in the mailbox.
THEOREM DeltaLinkCoversRows == ASSUME OneProcess PROVE Spec => []NothingMissed
  <1>1. Init => MailInv
    BY InvInit
  <1>2. MailInv /\ [Next]_vars => MailInv'
    BY InvNext
  <1>3. MailInv => NothingMissed
    BY DEF MailInv
  <1>4. QED
    BY <1>1, <1>2, <1>3, PTL DEF Spec

\* A single process that resumes from a stored nextLink skips no page whose
\* messages are not in the database.
THEOREM ResumeIsSafe == ASSUME OneProcess PROVE Spec => []ResumeSkipsNothing
  <1>1. Init => MailInv
    BY InvInit
  <1>2. MailInv /\ [Next]_vars => MailInv'
    BY InvNext
  <1>3. MailInv => ResumeSkipsNothing
    BY DEF MailInv
  <1>4. QED
    BY <1>1, <1>2, <1>3, PTL DEF Spec

-----------------------------------------------------------------------------
(* One process: no deletion is lost once there is a delta link *)

\* The row of m, if it is still live in folder f, has not waited for a departure
\* between numbers from and n.
Settled(f, n, from, m) ==
    rows[m].live /\ rows[m].folder = f /\ box[m].folder # f /\ gone[f][m] <= n
        => gone[f][m] <= from

\* A walk of folder f that began at number from and is on its way to number n has
\* dealt with the departures in between, those of todo apart.
Heard(f, n, from, todo) == \A m \in Messages \ todo : Settled(f, n, from, m)

LinkHeard(f) ==
    sync[f].delta > 0 /\ sync[f].next.paging =>
        Heard(f, sync[f].next.upto, sync[f].delta, sync[f].next.todo)

WalkHeard(p) ==
    /\ pc[p] \in {"fetch", "apply"} => base[p] = sync[folder[p]].delta
    /\ pc[p] = "fetch" /\ ~url[p].paging => url[p].upto = base[p]
    /\ pc[p] = "fetch" /\ url[p].paging /\ base[p] > 0 =>
         Heard(folder[p], url[p].upto, base[p], url[p].todo)
    /\ pc[p] = "apply" /\ base[p] > 0 =>
         Heard(folder[p], link[p].upto, base[p], link[p].todo \cup Ids(page[p]))

\* No link has passed the departure of a message that an item in memory shows in a
\* folder it has left: that folder's @removed entry is still to come.
PageHeard(p) ==
    \A i \in page[p] : i.folder \in Folders /\ box[i.id].folder # i.folder =>
        /\ gone[i.folder][i.id] > sync[i.folder].delta
        /\ gone[i.folder][i.id] > sync[i.folder].next.upto
        /\ gone[i.folder][i.id] > link[p].upto

DeletionInv ==
    /\ \A f \in Folders : LinkHeard(f)
    /\ \A p \in Procs : WalkHeard(p) /\ PageHeard(p)

\* What DeltaLosesNoDeletion says of a step.
NoneLost ==
    \A f \in Folders, m \in Messages :
        sync[f].delta > 0 /\ DeletionLost(f, m)' => DeletionLost(f, m)

LEMMA DeletionTypes ==
    ASSUME TypeOK
    PROVE  /\ \A f \in Folders, m \in Messages : gone[f][m] \in Nat
           /\ \A p \in Procs : \A i \in page[p] : i.id \in Messages
           /\ \A p \in Procs : pc[p] # "idle" => folder[p] \in Folders
           /\ \A k \in Link : k.upto \in Nat /\ k.todo \subseteq Messages
           /\ \A p \in Procs : /\ base[p] \in Nat /\ url[p].upto \in Nat
                               /\ link[p].upto \in Nat
           /\ \A f \in Folders : sync[f].delta \in Nat /\ sync[f].next.upto \in Nat
  BY DEF TypeOK, Item, Link, SyncState

LEMMA DeletionInit == ASSUME Init PROVE DeletionInv
  <1>1. /\ \A f \in Folders : sync[f].delta = 0
        /\ \A p \in Procs : pc[p] = "idle" /\ page[p] = {}
    BY DEF Init, NoState
  <1>2. QED
    BY <1>1 DEF DeletionInv, LinkHeard, WalkHeard, PageHeard

\* A departure is numbered beyond every link handed out so far.
LEMMA DeletionMailboxChange ==
    ASSUME MailInv, DeletionInv, NEW k \in Messages, NEW g \in Places,
           NEW content \in Contents, MailboxChange(k, g, content)
    PROVE  DeletionInv' /\ NoneLost
  <1> USE DEF MailInv
  <1>1. UNCHANGED <<rows, sync, lost, pc, folder, base, url, page, link>>
    BY DEF MailboxChange, database, memory
  <1>2. /\ clock \in Nat
        /\ \A f \in Folders : sync[f].delta <= clock /\ sync[f].next.upto <= clock
        /\ \A p \in Procs : url[p].upto <= clock /\ link[p].upto <= clock
    BY DEF TypeOK, LinksIssued
  <1>3. ASSUME NEW f \in Folders, NEW m \in Messages, box'[m].folder # f
        PROVE  \/ box[m].folder # f /\ gone'[f][m] = gone[f][m]
               \/ gone'[f][m] = clock + 1
    <2>1. gone'[f] = IF f = box[k].folder /\ f # g THEN [gone[f] EXCEPT ![k] = clock + 1]
                                                  ELSE gone[f]
      BY DEF MailboxChange
    <2>2. /\ gone[f] \in [Messages -> Nat]
          /\ box'[k].folder = g
          /\ m # k => box'[m] = box[m]
      BY DEF MailboxChange, TypeOK
    <2>3. CASE m = k
      BY <1>3, <2>1, <2>2, <2>3 DEF MailboxChange, TypeOK
    <2>4. CASE m # k
      BY <1>3, <2>1, <2>2, <2>4
    <2>5. QED
      BY <2>3, <2>4
  <1>4. ASSUME NEW f \in Folders, NEW n \in Nat, n <= clock, NEW from, NEW todo,
               Heard(f, n, from, todo)
        PROVE  Heard(f, n, from, todo)'
    <2>1. ASSUME NEW m \in Messages, Settled(f, n, from, m)
          PROVE  Settled(f, n, from, m)'
      BY <1>1, <1>2, <1>3, <1>4, <2>1 DEF Settled
    <2>2. QED
      BY <1>4, <2>1 DEF Heard
  <1>5. ASSUME NEW f \in Folders PROVE LinkHeard(f)'
    BY <1>1, <1>2, <1>4, DeletionTypes DEF DeletionInv, LinkHeard
  <1>6. ASSUME NEW p \in Procs PROVE WalkHeard(p)'
    BY <1>1, <1>2, <1>4, DeletionTypes DEF DeletionInv, WalkHeard, Ids
  <1>7. ASSUME NEW p \in Procs PROVE PageHeard(p)'
    <2>1. ASSUME NEW i \in page[p], i.folder \in Folders, box'[i.id].folder # i.folder
          PROVE  \/ box[i.id].folder # i.folder /\ gone'[i.folder][i.id] = gone[i.folder][i.id]
                 \/ gone'[i.folder][i.id] = clock + 1
      BY <1>3, <2>1, DeletionTypes
    <2>2. QED
      BY <1>1, <1>2, <2>1, DeletionTypes DEF DeletionInv, PageHeard
  <1>8. NoneLost
    BY <1>1, <1>2, <1>3, DeletionTypes DEF NoneLost, DeletionLost
  <1>9. QED
    BY <1>5, <1>6, <1>7, <1>8 DEF DeletionInv

\* A step between two walks, or one that ends a walk without committing it: the
\* links of a folder stay or are dropped.
LEMMA DeletionBetween ==
    ASSUME OneProcess, MailInv, DeletionInv, NEW p \in Procs,
           UNCHANGED <<box, gone, rows>>,
           pc'[p] \notin {"fetch", "apply"},
           \/ page'[p] = {}
           \/ page'[p] = page[p] /\ link'[p] = link[p],
           \A f \in Folders :
             \/ sync'[f].delta = sync[f].delta /\ sync'[f].next = sync[f].next
             \/ sync'[f].delta = 0 /\ sync'[f].next = NoLink
    PROVE  DeletionInv' /\ NoneLost
  <1>1. NoLink.upto = 0 /\ ~NoLink.paging
    BY DEF NoLink, DeltaLink
  <1>2. \A f \in Folders : LinkHeard(f)'
    BY <1>1 DEF DeletionInv, LinkHeard, Heard, Settled
  <1>3. WalkHeard(p)'
    BY DEF WalkHeard
  <1>4. PageHeard(p)'
    <2>1. \A f \in Folders, m \in Messages :
            /\ gone[f][m] \in Nat
            /\ gone[f][m] > sync[f].delta => gone[f][m] > sync'[f].delta
            /\ gone[f][m] > sync[f].delta /\ gone[f][m] > sync[f].next.upto
                 => gone[f][m] > sync'[f].next.upto
      BY <1>1, DeletionTypes DEF MailInv
    <2>2. QED
      BY <2>1, DeletionTypes DEF DeletionInv, PageHeard, MailInv
  <1>5. NoneLost
    BY DEF NoneLost, DeletionLost
  <1>6. QED
    BY <1>2, <1>3, <1>4, <1>5 DEF DeletionInv, OneProcess

\* The links that are dropped, and those that are not.
LEMMA LinksDropped ==
    ASSUME TypeOK, NEW F \in SUBSET Folders, ResetMailSyncState(F)
    PROVE  \A f \in Folders :
             \/ sync'[f].delta = sync[f].delta /\ sync'[f].next = sync[f].next
             \/ sync'[f].delta = 0 /\ sync'[f].next = NoLink
  BY DEF ResetMailSyncState, TypeOK, SyncState

LEMMA LinksKept ==
    ASSUME TypeOK, NEW f, RecordMailSyncFailure(f) \/ UNCHANGED sync
    PROVE  \A g \in Folders : sync'[g].delta = sync[g].delta /\ sync'[g].next = sync[g].next
  <1>1. sync \in [Folders -> SyncState]
    BY DEF TypeOK
  <1>2. CASE RecordMailSyncFailure(f)
    BY <1>1, <1>2 DEF RecordMailSyncFailure, SyncState
  <1>3. QED
    BY <1>2

LEMMA DeletionFailure ==
    ASSUME OneProcess, MailInv, DeletionInv, NEW p \in Procs, Return(p),
           UNCHANGED <<box, gone, rows>>,
           RecordMailSyncFailure(folder[p]) \/ UNCHANGED sync
    PROVE  DeletionInv' /\ NoneLost
  <1>1. pc'[p] = "idle" /\ page'[p] = {}
    BY DEF Return, MailInv, TypeOK
  <1>2. \A g \in Folders : sync'[g].delta = sync[g].delta /\ sync'[g].next = sync[g].next
    BY LinksKept DEF MailInv
  <1>3. QED
    BY <1>1, <1>2, DeletionBetween

\* Within a walk: what the step has to establish.
LEMMA DeletionWithin ==
    ASSUME OneProcess, MailInv, DeletionInv, NEW p \in Procs,
           UNCHANGED <<box, gone, sync>>, WalkHeard(p)',
           \A f \in Folders, m \in Messages :
             \/ rows'[m] = rows[m]
             \/ ~rows'[m].live
             \/ /\ \E i \in page[p] : i.folder = rows'[m].folder /\ i.id = m
                /\ rows'[m].folder \in Folders,
           PageHeard(p)'
    PROVE  DeletionInv' /\ NoneLost
  <1>1. ASSUME NEW f \in Folders, NEW m \in Messages, NEW n \in Nat, NEW from,
               n <= sync[f].delta \/ n <= sync[f].next.upto, Settled(f, n, from, m)
        PROVE  Settled(f, n, from, m)'
    <2>1. CASE rows'[m] = rows[m] \/ ~rows'[m].live
      BY <1>1, <2>1 DEF Settled
    <2>2. ASSUME NEW i \in page[p], i.folder = rows'[m].folder, i.id = m,
                 rows'[m].folder = f, box[m].folder # f
          PROVE  ~(gone[f][m] <= n)
      BY <1>1, <2>2, DeletionTypes DEF DeletionInv, PageHeard, MailInv
    <2>3. QED
      BY <2>1, <2>2 DEF Settled
  <1>2. ASSUME NEW f \in Folders PROVE LinkHeard(f)'
    BY <1>1, DeletionTypes DEF DeletionInv, LinkHeard, Heard, MailInv
  <1>3. NoneLost
    <2>1. ASSUME NEW f \in Folders, NEW m \in Messages, DeletionLost(f, m)'
          PROVE  DeletionLost(f, m)
      <3>1. /\ rows'[m].live /\ rows'[m].folder = f /\ box[m].folder # f
            /\ sync[f].delta > 0 /\ gone[f][m] <= sync[f].delta
        BY <2>1 DEF DeletionLost
      <3>2. rows'[m] = rows[m]
        BY <3>1, DeletionTypes DEF DeletionInv, PageHeard, MailInv
      <3>3. QED
        BY <3>1, <3>2 DEF DeletionLost
    <2>2. QED
      BY <2>1 DEF NoneLost
  <1>4. QED
    BY <1>2, <1>3 DEF DeletionInv, OneProcess

\* The walk takes the stored links over with what they have heard.
LEMMA DeletionBegin ==
    ASSUME OneProcess, MailInv, DeletionInv, NEW p \in Procs, Begin(p)
    PROVE  DeletionInv' /\ NoneLost
  <1> USE DEF MailInv
  <1> DEFINE st == sync[folder[p]]
  <1>1. /\ UNCHANGED <<box, gone, rows, sync, folder, page, link>>
        /\ folder[p] \in Folders /\ pc'[p] = "fetch" /\ base'[p] = st.delta
        /\ url'[p] = IF st.next.paging THEN st.next ELSE DeltaLink(st.delta)
    BY DEF Begin, TypeOK, mailbox, database
  <1>2. WalkHeard(p)'
    <2>1. CASE st.next.paging
      <3>1. st.delta > 0 => Heard(folder[p], st.next.upto, st.delta, st.next.todo)
        BY <1>1, <2>1 DEF DeletionInv, LinkHeard
      <3>2. QED
        BY <1>1, <2>1, <3>1 DEF WalkHeard, Heard, Settled
    <2>2. CASE ~st.next.paging
      BY <1>1, <2>2 DEF WalkHeard, DeltaLink
    <2>3. QED
      BY <2>1, <2>2
  <1>3. PageHeard(p)'
    BY <1>1 DEF DeletionInv, PageHeard
  <1>4. QED
    BY <1>1, <1>2, <1>3, DeletionWithin

\* A walk that opens lists the departures since its link; a fetched page shows its
\* messages where they are.
LEMMA DeletionFetchPage ==
    ASSUME OneProcess, MailInv, DeletionInv, NEW p \in Procs, FetchPage(p)
    PROVE  DeletionInv' /\ NoneLost
  <1> USE DEF MailInv
  <1> DEFINE walk == Walk(folder[p], url[p])
  <1>1. /\ UNCHANGED <<box, gone, rows, sync, folder, base>>
        /\ pc[p] = "fetch" /\ pc'[p] = "apply"
        /\ folder[p] \in Folders /\ url[p] \in Link
    BY LinkTypes DEF FetchPage, TypeOK, mailbox, database
  <1>2. walk \in Link
    BY <1>1, WalkOpens DEF WalkCovers, LinksIssued
  <1>3. ASSUME base[p] > 0 PROVE Heard(folder[p], walk.upto, base[p], walk.todo)
    <2>1. CASE url[p].paging
      BY <1>1, <1>3, <2>1 DEF Walk, DeletionInv, WalkHeard
    <2>2. CASE ~url[p].paging
      <3>1. walk.todo = Changed(folder[p], base[p])
        BY <1>1, <2>2 DEF Walk, DeletionInv, WalkHeard
      <3>2. \A m \in Messages \ walk.todo :
              box[m].folder # folder[p] => ~(gone[folder[p]][m] > base[p])
        BY <1>3, <3>1 DEF Changed
      <3>3. QED
        BY <1>1, <3>2, DeletionTypes DEF Heard, Settled
    <2>3. QED
      BY <2>1, <2>2
  <1> HIDE DEF walk
  <1>4. PICK listed \in SUBSET walk.todo :
          /\ page'[p] = {ItemOf(m) : m \in listed}
          /\ link'[p] = [walk EXCEPT !.paging = (listed # walk.todo),
                                    !.todo = @ \ listed]
    BY DEF FetchPage, TypeOK, walk
  <1>5. link'[p].upto = walk.upto /\ link'[p].todo = walk.todo \ listed
    BY <1>2, <1>4 DEF Link
  <1>6. \A m \in listed : ItemOf(m).id = m /\ ItemOf(m).folder = box[m].folder
    BY DEF ItemOf
  <1>7. Ids(page'[p]) = listed
    <2>1. Ids(page'[p]) = {ItemOf(m).id : m \in listed}
      BY <1>4 DEF Ids
    <2>2. QED
      BY <1>6, <2>1
  <1>8. WalkHeard(p)'
    <2>1. link'[p].todo \cup Ids(page'[p]) = walk.todo
      BY <1>5, <1>7
    <2>2. base[p] = sync[folder[p]].delta
      BY <1>1 DEF DeletionInv, WalkHeard
    <2>3. base[p] > 0 => Heard(folder[p], link[p].upto, base[p], link[p].todo \cup Ids(page[p]))'
      BY <1>1, <1>3, <1>5, <2>1 DEF Heard, Settled, Ids
    <2>4. QED
      BY <1>1, <2>2, <2>3 DEF WalkHeard
  <1>9. PageHeard(p)'
    BY <1>1, <1>4, <1>6 DEF PageHeard
  <1>10. QED
    BY <1>1, <1>8, <1>9, DeletionWithin

LEMMA DeletionFetchEmptyBody ==
    ASSUME OneProcess, MailInv, DeletionInv, NEW p \in Procs, FetchEmptyBody(p)
    PROVE  DeletionInv' /\ NoneLost
  <1> USE DEF MailInv
  <1>1. /\ UNCHANGED <<box, gone, rows, sync, folder, base>>
        /\ pc[p] = "fetch" /\ pc'[p] = "apply" /\ folder[p] \in Folders
        /\ page'[p] = {} /\ link'[p].upto = 0
    BY DEF FetchEmptyBody, TypeOK, mailbox, database, NoLink, DeltaLink
  <1>2. WalkHeard(p)'
    <2>1. \A m \in Messages : gone[folder[p]][m] <= 0 => gone[folder[p]][m] <= base[p]
      BY <1>1, DeletionTypes
    <2>2. QED
      BY <1>1, <2>1 DEF DeletionInv, WalkHeard, Heard, Settled
  <1>3. PageHeard(p)'
    BY <1>1 DEF PageHeard
  <1>4. QED
    BY <1>1, <1>2, <1>3, DeletionWithin

\* An @removed entry puts an end to the live row; a stored item whose message has
\* left since waits for an entry that no link has passed.
LEMMA DeletionApplyItem ==
    ASSUME OneProcess, MailInv, DeletionInv, NEW p \in Procs, ApplyItem(p) \/ LookupLost(p)
    PROVE  DeletionInv' /\ NoneLost
  <1> USE DEF MailInv
  <1>1. PICK item \in page[p] : Applies(p, item)
    BY ItemApplied
  <1> DEFINE m == item.id
             f == folder[p]
  <1>2. /\ UNCHANGED <<box, gone, sync, pc, folder, base, url, link>>
        /\ pc[p] = "apply" /\ f \in Folders
        /\ page'[p] = page[p] \ {item} /\ m \in Messages
    BY <1>1, DeletionTypes, ItemApplied DEF Applies, TypeOK, mailbox
  <1>3. /\ \A k \in Messages \ {m} : rows'[k] = rows[k]
        /\ \/ rows'[m] = rows[m] /\ (item.folder = f \/ rows[m].folder # f)
           \/ ~rows'[m].live
           \/ rows'[m].folder = f /\ item.folder = f
    <2>1. CASE TombstoneMail(m, f)
      BY <1>1, <1>2, <2>1 DEF TombstoneMail, TypeOK, Row
    <2>2. ASSUME NEW whole, item.folder = f, UpsertMailMessage(item, whole)
          PROVE  /\ \A k \in Messages \ {m} : rows'[k] = rows[k]
                 /\ rows'[m].folder = f
      BY <1>2, <2>2 DEF UpsertMailMessage, TypeOK
    <2>3. QED
      BY <1>1, <2>1, <2>2 DEF Applies
  <1>4. PageHeard(p)'
    BY <1>2 DEF DeletionInv, PageHeard
  <1>5. Settled(f, link[p].upto, base[p], m)'
    <2>1. ASSUME item.folder = f, box[m].folder # f PROVE ~(gone[f][m] <= link[p].upto)
      BY <1>2, <2>1, DeletionTypes DEF DeletionInv, PageHeard
    <2>2. QED
      BY <1>2, <1>3, <2>1 DEF Settled
  <1>6. WalkHeard(p)'
    <2>1. \A k \in Messages \ (link[p].todo \cup Ids(page'[p])) :
            k = m \/ k \in Messages \ (link[p].todo \cup Ids(page[p]))
      BY <1>2 DEF Ids
    <2>2. base[p] > 0 => Heard(f, link[p].upto, base[p], link[p].todo \cup Ids(page[p]))
      BY <1>2 DEF DeletionInv, WalkHeard
    <2>3. base[p] > 0 => Heard(f, link[p].upto, base[p], link[p].todo \cup Ids(page[p]))'
      BY <1>2, <1>3, <1>5, <2>1, <2>2 DEF Heard, Settled, Ids
    <2>4. QED
      BY <1>2, <2>3 DEF DeletionInv, WalkHeard
  <1>7. \A k \in Messages :
          \/ rows'[k] = rows[k]
          \/ ~rows'[k].live
          \/ /\ \E i \in page[p] : i.folder = rows'[k].folder /\ i.id = k
             /\ rows'[k].folder \in Folders
    BY <1>2, <1>3
  <1>8. QED
    BY <1>2, <1>4, <1>6, <1>7, DeletionWithin

\* The stored nextLink has heard what its pages reported.
LEMMA DeletionSaveMailNextLink ==
    ASSUME OneProcess, MailInv, DeletionInv, NEW p \in Procs, SaveMailNextLink(p)
    PROVE  DeletionInv' /\ NoneLost
  <1> USE DEF MailInv
  <1>1. /\ UNCHANGED <<box, gone, rows, folder, base, page>>
        /\ pc[p] = "apply" /\ pc'[p] = "fetch" /\ page[p] = {}
        /\ folder[p] \in Folders /\ link[p].paging /\ url'[p] = link[p]
    BY DEF SaveMailNextLink, PageApplied, TypeOK, mailbox
  <1>2. /\ \A f \in Folders : sync'[f].delta = sync[f].delta
        /\ \A f \in Folders \ {folder[p]} : sync'[f].next = sync[f].next
        /\ sync'[folder[p]].next = link[p]
    BY <1>1 DEF SaveMailNextLink, PageApplied, TypeOK, SyncState
  <1>3. /\ base[p] = sync[folder[p]].delta
        /\ base[p] > 0 => Heard(folder[p], link[p].upto, base[p], link[p].todo)
    <2>1. link[p].todo \cup Ids(page[p]) = link[p].todo
      BY <1>1 DEF Ids
    <2>2. QED
      BY <1>1, <2>1 DEF DeletionInv, WalkHeard
  <1>4. WalkHeard(p)'
    BY <1>1, <1>2, <1>3 DEF WalkHeard, Heard, Settled
  <1>5. ASSUME NEW f \in Folders PROVE LinkHeard(f)'
    BY <1>1, <1>2, <1>3 DEF DeletionInv, LinkHeard, Heard, Settled
  <1>6. PageHeard(p)'
    BY <1>1 DEF PageHeard
  <1>7. NoneLost
    BY <1>1, <1>2 DEF NoneLost, DeletionLost
  <1>8. QED
    BY <1>4, <1>5, <1>6, <1>7 DEF DeletionInv, OneProcess

\* The committed link has heard every departure since the one it replaces.
LEMMA DeletionCommitMailDeltaLink ==
    ASSUME OneProcess, MailInv, DeletionInv, NEW p \in Procs, CommitMailDeltaLink(p)
    PROVE  DeletionInv' /\ NoneLost
  <1> USE DEF MailInv
  <1>1. /\ UNCHANGED <<box, gone, rows>>
        /\ pc[p] = "apply" /\ page[p] = {}
        /\ folder[p] \in Folders /\ ~link[p].paging
        /\ pc'[p] = "idle" /\ page'[p] = {}
    BY DEF CommitMailDeltaLink, PageApplied, TypeOK, mailbox, Return
  <1>2. /\ \A f \in Folders \ {folder[p]} : sync'[f] = sync[f]
        /\ sync'[folder[p]].next = NoLink
        /\ sync'[folder[p]].delta = CommittedLink(p)
    BY <1>1 DEF CommitMailDeltaLink, CommittedState, PageApplied, TypeOK
  <1>3. /\ base[p] = sync[folder[p]].delta
        /\ base[p] > 0 => Heard(folder[p], link[p].upto, base[p], {})
    <2>1. link[p].todo \cup Ids(page[p]) = {}
      BY <1>1 DEF LinksIssued, Ids
    <2>2. QED
      BY <1>1, <2>1 DEF DeletionInv, WalkHeard
  <1>4. ASSUME NEW f \in Folders PROVE LinkHeard(f)'
    BY <1>1, <1>2 DEF DeletionInv, LinkHeard, Heard, Settled, NoLink, DeltaLink
  <1>5. NoneLost
    <2>1. ASSUME NEW f \in Folders, f = folder[p], NEW m \in Messages, base[p] > 0,
                 DeletionLost(f, m)'
          PROVE  DeletionLost(f, m)
      <3>1. /\ rows[m].live /\ rows[m].folder = f /\ box[m].folder # f
            /\ gone[f][m] <= CommittedLink(p)
        BY <1>1, <1>2, <2>1 DEF DeletionLost
      <3>2. gone[f][m] <= base[p]
        BY <1>3, <2>1, <3>1 DEF CommittedLink, Heard, Settled
      <3>3. QED
        BY <1>3, <2>1, <3>1, <3>2 DEF DeletionLost
    <2>2. QED
      BY <1>1, <1>2, <1>3, <2>1 DEF NoneLost, DeletionLost
  <1>6. WalkHeard(p)' /\ PageHeard(p)'
    BY <1>1 DEF WalkHeard, PageHeard
  <1>7. QED
    BY <1>4, <1>5, <1>6 DEF DeletionInv, OneProcess

LEMMA DeletionNext ==
    ASSUME OneProcess, MailInv, DeletionInv, [Next]_vars
    PROVE  DeletionInv' /\ NoneLost
  <1>1. ASSUME NEW m \in Messages, NEW g \in Places, NEW content \in Contents,
               MailboxChange(m, g, content)
        PROVE  DeletionInv' /\ NoneLost
    BY <1>1, DeletionMailboxChange
  <1>2. ASSUME UNCHANGED <<box, gone, rows, sync, pc, folder, base, url, page, link>>
        PROVE  DeletionInv' /\ NoneLost
    BY <1>2
       DEF DeletionInv, LinkHeard, WalkHeard, PageHeard, Heard, Settled, Ids,
           NoneLost, DeletionLost
  <1>3. ASSUME NEW f \in Folders, Expire(f) PROVE DeletionInv' /\ NoneLost
    BY <1>2, <1>3 DEF Expire, database, memory
  <1>4. ASSUME NEW p \in Procs, Work(p) PROVE DeletionInv' /\ NoneLost
    <2>1. CASE SyncAll(p)
      BY <1>2, <2>1 DEF SyncAll, mailbox, database
    <2>2. ASSUME NEW f \in Folders, SyncFolder(p, f) PROVE DeletionInv' /\ NoneLost
      <3>1. /\ UNCHANGED <<box, gone, rows, sync, page, link>>
            /\ pc'[p] = "begin"
        BY <2>2 DEF SyncFolder, mailbox, database, MailInv, TypeOK
      <3>2. QED
        BY <3>1, DeletionBetween
    <2>3. CASE Begin(p)
      BY <2>3, DeletionBegin
    <2>4. CASE FetchPage(p)
      BY <2>4, DeletionFetchPage
    <2>5. CASE FetchGone(p)
      <3>1. /\ UNCHANGED <<box, gone, rows, page, link>>
            /\ pc'[p] = "begin" /\ {folder[p]} \in SUBSET Folders
            /\ ResetMailSyncState({folder[p]})
        BY <2>5 DEF FetchGone, mailbox, MailInv, TypeOK
      <3>2. \A f \in Folders :
              \/ sync'[f].delta = sync[f].delta /\ sync'[f].next = sync[f].next
              \/ sync'[f].delta = 0 /\ sync'[f].next = NoLink
        BY <3>1, LinksDropped DEF MailInv
      <3>3. QED
        BY <3>1, <3>2, DeletionBetween
    <2>6. CASE FetchGoneAgain(p)
      BY <2>6, DeletionFailure DEF FetchGoneAgain, mailbox
    <2>7. CASE ApplyItem(p)
      BY <2>7, DeletionApplyItem
    <2>8. CASE SaveMailNextLink(p)
      BY <2>8, DeletionSaveMailNextLink
    <2>9. CASE CommitMailDeltaLink(p)
      BY <2>9, DeletionCommitMailDeltaLink
    <2>10. QED
      BY <1>4, <2>1, <2>2, <2>3, <2>4, <2>5, <2>6, <2>7, <2>8, <2>9 DEF Work
  <1>5. ASSUME NEW p \in Procs, Failure(p) PROVE DeletionInv' /\ NoneLost
    <2>1. CASE FetchEmptyBody(p)
      BY <2>1, DeletionFetchEmptyBody
    <2>2. CASE FetchFails(p) \/ ItemFails(p)
      BY <2>2, DeletionFailure DEF FetchFails, ItemFails, mailbox
    <2>3. CASE CursorFails(p) \/ Crash(p)
      BY <2>3, DeletionFailure DEF CursorFails, Crash, mailbox, database
    <2>4. CASE LookupLost(p)
      BY <2>4, DeletionApplyItem
    <2>5. QED
      BY <1>5, <2>1, <2>2, <2>3, <2>4 DEF Failure
  <1>6. ASSUME NEW p \in Procs, Operator(p) PROVE DeletionInv' /\ NoneLost
    <2>1. ASSUME NEW f \in Folders, SyncOne(p, f) PROVE DeletionInv' /\ NoneLost
      BY <1>2, <2>1 DEF SyncOne, mailbox, database
    <2>2. ASSUME NEW F \in {Folders} \cup {{f} : f \in Folders}, SyncFull(p, F)
          PROVE  DeletionInv' /\ NoneLost
      <3>1. /\ UNCHANGED <<box, gone, rows, pc, page, link>>
            /\ pc[p] = "idle" /\ F \in SUBSET Folders /\ ResetMailSyncState(F)
        BY <2>2 DEF SyncFull, mailbox
      <3>2. \A f \in Folders :
              \/ sync'[f].delta = sync[f].delta /\ sync'[f].next = sync[f].next
              \/ sync'[f].delta = 0 /\ sync'[f].next = NoLink
        BY <3>1, LinksDropped DEF MailInv
      <3>3. QED
        BY <3>1, <3>2, DeletionBetween
    <2>3. QED
      BY <1>6, <2>1, <2>2 DEF Operator
  <1>7. CASE UNCHANGED vars
    BY <1>2, <1>7 DEF vars, mailbox, database, memory
  <1>8. QED
    BY <1>1, <1>3, <1>4, <1>5, <1>6, <1>7 DEF Next, Mailbox

\* While a folder has a delta link a single process loses no deletion: a message that
\* leaves the folder is tombstoned by the walk that first passes its departure,
\* whatever fails, expires or is resumed in between, and no page that waited in
\* memory brings it back for good.
THEOREM NoDeletionLost == ASSUME OneProcess PROVE Spec => DeltaLosesNoDeletion
  <1>1. Init => MailInv /\ DeletionInv
    BY InvInit, DeletionInit
  <1>2. MailInv /\ DeletionInv /\ [Next]_vars => (MailInv /\ DeletionInv)'
    BY InvNext, DeletionNext
  <1>3. MailInv /\ DeletionInv /\ [Next]_vars =>
          [\A f \in Folders, m \in Messages :
             sync[f].delta > 0 /\ DeletionLost(f, m)' => DeletionLost(f, m)]_vars
    BY DeletionNext DEF NoneLost
  <1>4. QED
    BY <1>1, <1>2, <1>3, PTL DEF Spec, DeltaLosesNoDeletion

=============================================================================
