-------------------------- MODULE MailReplicaProofs --------------------------
(***************************************************************************)
(* One process of MailDelta implements DeltaReplica, for every set of      *)
(* messages and folders: its initial states are initial states there, and  *)
(* each of its steps is a step there or leaves the replica as it is.  The  *)
(* inductive invariant is that of MailDeltaProofs, for the commits, and    *)
(* two more: VersionInv, for the rows, which are never set back, and       *)
(* AheadInv, for the answers that are lost, which spoil only versions that *)
(* no delta link has passed.                                               *)
(***************************************************************************)
EXTENDS MailDeltaProofs

-----------------------------------------------------------------------------
(* Rows are never set back *)

\* A row is not newer than the mailbox, nor than what a page in memory will make
\* of it, and a page lists a message once.
VersionInv ==
    /\ \A m \in Messages : rows[m].ver <= box[m].ver
    /\ \A p \in Procs : \A i \in page[p] :
         rows[i.id].ver <= i.ver /\ i.ver <= box[i.id].ver
    /\ \A p \in Procs : \A i, j \in page[p] : i.id = j.id => i = j

LEMMA VersionTypes ==
    ASSUME TypeOK
    PROVE  /\ clock \in Nat
           /\ \A m \in Messages : rows[m].ver \in Nat /\ box[m].ver \in Nat
           /\ \A p \in Procs : \A i \in page[p] :
                i \in Item /\ i.id \in Messages /\ i.ver \in Nat
  BY DEF TypeOK, Row, Copy, Item

\* A step that drops pages, if anything.
LEMMA VersionStable ==
    ASSUME VersionInv, UNCHANGED <<box, rows>>,
           \A p \in Procs : page'[p] \subseteq page[p]
    PROVE  VersionInv'
  BY DEF VersionInv

LEMMA VersionMailboxChange ==
    ASSUME MailInv, VersionInv, NEW m \in Messages, NEW g \in Places,
           NEW content \in Contents, MailboxChange(m, g, content)
    PROVE  VersionInv'
  <1>1. /\ box'[m].ver = clock + 1
        /\ \A k \in Messages \ {m} : box'[k] = box[k]
        /\ UNCHANGED <<rows, page>>
    BY DEF MailboxChange, MailInv, TypeOK, database, memory
  <1>2. /\ clock \in Nat
        /\ \A k \in Messages : /\ rows[k].ver \in Nat /\ box[k].ver \in Nat
                              /\ box[k].ver <= clock
        /\ \A p \in Procs : \A i \in page[p] : i.id \in Messages /\ i.ver \in Nat
    BY VersionTypes DEF MailInv, LinksIssued
  <1>3. \A k \in Messages : box[k].ver <= box'[k].ver
    BY <1>1, <1>2
  <1>4. \A k \in Messages : box'[k].ver \in Nat
    BY <1>1, <1>2
  <1>5. \A k \in Messages : rows[k].ver <= box'[k].ver
    BY <1>2, <1>3, <1>4 DEF VersionInv
  <1>6. \A p \in Procs : \A i \in page[p] : i.ver <= box'[i.id].ver
    BY <1>2, <1>3, <1>4 DEF VersionInv
  <1>7. QED
    BY <1>1, <1>5, <1>6 DEF VersionInv

\* A page is what the mailbox holds when it is fetched.
LEMMA VersionFetchPage ==
    ASSUME MailInv, VersionInv, NEW p \in Procs, FetchPage(p), OneProcess
    PROVE  VersionInv'
  <1>1. /\ UNCHANGED <<box, rows>>
        /\ folder[p] \in Folders /\ url[p] \in Link
    BY DEF FetchPage, MailInv, TypeOK, mailbox, database
  <1>2. PICK listed \in SUBSET Walk(folder[p], url[p]).todo :
          page' = [page EXCEPT ![p] = {ItemOf(m) : m \in listed}]
    BY DEF FetchPage
  <1>3. listed \subseteq Messages
    BY <1>1, <1>2 DEF Walk, Changed, Link
  <1>4. page'[p] = {ItemOf(m) : m \in listed}
    BY <1>2 DEF MailInv, TypeOK
  <1>5. \A i \in page'[p] : i.id \in Messages /\ i = ItemOf(i.id)
    BY <1>3, <1>4 DEF ItemOf
  <1>6. \A m \in Messages : rows[m].ver <= box[m].ver /\ box[m].ver <= box[m].ver
    BY VersionTypes DEF VersionInv, MailInv
  <1>7. \A i \in page'[p] : rows[i.id].ver <= i.ver /\ i.ver <= box[i.id].ver
    BY <1>5, <1>6 DEF ItemOf
  <1>8. QED
    BY <1>1, <1>5, <1>6, <1>7 DEF VersionInv, OneProcess

\* What an item makes of the row: a copy of its own version, or a tombstone of the
\* version there was.
LEMMA AppliedRow ==
    ASSUME TypeOK, NEW p \in Procs, NEW item \in page[p], Applies(p, item)
    PROVE  /\ \A k \in Messages \ {item.id} : rows'[k] = rows[k] /\ lost'[k] = lost[k]
           /\ rows'[item.id].ver \in {rows[item.id].ver, item.ver}
  <1>1. item.id \in Messages /\ rows \in [Messages -> Row] /\ lost \in [Messages -> Nat]
    BY VersionTypes DEF TypeOK
  <1>2. \A k \in Messages \ {item.id} : lost'[k] = lost[k]
    BY <1>1 DEF Applies
  <1>3. CASE TombstoneMail(item.id, folder[p])
    BY <1>1, <1>2, <1>3 DEF TombstoneMail, Row
  <1>4. ASSUME NEW whole, UpsertMailMessage(item, whole)
        PROVE  /\ \A k \in Messages \ {item.id} : rows'[k] = rows[k]
               /\ rows'[item.id].ver = item.ver
    BY <1>1, <1>4 DEF UpsertMailMessage
  <1>5. QED
    BY <1>2, <1>3, <1>4 DEF Applies

LEMMA VersionApplyItem ==
    ASSUME OneProcess, MailInv, VersionInv, NEW p \in Procs,
           ApplyItem(p) \/ LookupLost(p)
    PROVE  VersionInv' /\ \A m \in Messages : rows[m].ver <= rows'[m].ver
  <1>1. PICK item \in page[p] : Applies(p, item)
    BY ItemApplied
  <1>2. /\ page'[p] = page[p] \ {item} /\ box' = box
        /\ item.id \in Messages
    BY <1>1, VersionTypes, ItemApplied DEF MailInv, TypeOK, Applies, mailbox
  <1>3. /\ \A k \in Messages \ {item.id} : rows'[k] = rows[k]
        /\ rows'[item.id].ver \in {rows[item.id].ver, item.ver}
    BY <1>1, AppliedRow DEF MailInv
  <1>4. \A i \in page'[p] : i \in page[p] /\ i.id \in Messages \ {item.id}
    BY <1>2, VersionTypes DEF VersionInv, MailInv
  <1>5. \A i \in page'[p] : rows'[i.id].ver <= i.ver /\ i.ver <= box[i.id].ver
    BY <1>3, <1>4 DEF VersionInv
  <1>6. /\ \A m \in Messages : rows'[m].ver <= box[m].ver
        /\ \A m \in Messages : rows[m].ver <= rows'[m].ver
    BY <1>2, <1>3, VersionTypes DEF VersionInv, MailInv
  <1>7. \A i, j \in page'[p] : i.id = j.id => i = j
    BY <1>4 DEF VersionInv
  <1>8. QED
    BY <1>2, <1>5, <1>6, <1>7 DEF VersionInv, OneProcess

LEMMA PageDropped ==
    ASSUME MailInv, NEW p \in Procs, Return(p) \/ page' = [page EXCEPT ![p] = {}]
    PROVE  \A q \in Procs : page'[q] \subseteq page[q]
  BY DEF Return, MailInv, TypeOK

LEMMA VersionNext ==
    ASSUME OneProcess, MailInv, VersionInv, [Next]_vars
    PROVE  VersionInv' /\ \A m \in Messages : rows[m].ver <= rows'[m].ver
  <1>1. CASE UNCHANGED rows
    <2>1. \A m \in Messages : rows[m].ver <= rows'[m].ver
      BY <1>1, VersionTypes DEF MailInv
    <2>2. ASSUME NEW m \in Messages, NEW g \in Places, NEW content \in Contents,
                 MailboxChange(m, g, content)
          PROVE  VersionInv'
      BY <2>2, VersionMailboxChange
    <2>3. ASSUME NEW f \in Folders, Expire(f) PROVE VersionInv'
      BY <2>3, VersionStable DEF Expire, database, memory
    <2>4. ASSUME NEW p \in Procs, Work(p) PROVE VersionInv'
      <3>1. CASE FetchPage(p)
        BY <3>1, VersionFetchPage
      <3>2. CASE ApplyItem(p)
        BY <3>2, VersionApplyItem
      <3>3. CASE SyncAll(p) \/ \E f \in Folders : SyncFolder(p, f)
        BY <3>3, VersionStable DEF SyncAll, SyncFolder, mailbox, database
      <3>4. CASE Begin(p) \/ FetchGone(p) \/ SaveMailNextLink(p)
        BY <3>4, VersionStable DEF Begin, FetchGone, SaveMailNextLink, mailbox, database
      <3>5. CASE FetchGoneAgain(p) \/ CommitMailDeltaLink(p)
        <4>1. Return(p) /\ UNCHANGED <<box, rows>>
          BY <3>5 DEF FetchGoneAgain, CommitMailDeltaLink, mailbox
        <4>2. QED
          BY <4>1, PageDropped, VersionStable
      <3>6. QED
        BY <2>4, <3>1, <3>2, <3>3, <3>4, <3>5 DEF Work
    <2>5. ASSUME NEW p \in Procs, Failure(p) PROVE VersionInv'
      <3>1. CASE LookupLost(p)
        BY <3>1, VersionApplyItem
      <3>2. CASE ~LookupLost(p)
        <4>1. /\ Return(p) \/ page' = [page EXCEPT ![p] = {}]
              /\ UNCHANGED <<box, rows>>
          BY <2>5, <3>2
             DEF Failure, FetchEmptyBody, FetchFails, ItemFails, CursorFails, Crash,
                 mailbox, database
        <4>2. QED
          BY <4>1, PageDropped, VersionStable
      <3>3. QED
        BY <3>1, <3>2
    <2>6. ASSUME NEW p \in Procs, Operator(p) PROVE VersionInv'
      BY <2>6, VersionStable DEF Operator, SyncOne, SyncFull, mailbox, database
    <2>7. ASSUME UNCHANGED vars PROVE VersionInv'
      BY <2>7, VersionStable DEF vars, mailbox, database, memory
    <2>8. QED
      BY <2>1, <2>2, <2>3, <2>4, <2>5, <2>6, <2>7 DEF Next, Mailbox
  <1>2. ASSUME NEW p \in Procs, ApplyItem(p) \/ LookupLost(p)
        PROVE  VersionInv' /\ \A m \in Messages : rows[m].ver <= rows'[m].ver
    BY <1>2, VersionApplyItem
  <1>3. (\E p \in Procs : ApplyItem(p) \/ LookupLost(p)) \/ UNCHANGED rows
    BY DEF Next, Mailbox, MailboxChange, Expire, Work, Failure, Operator, SyncAll,
           SyncFolder, Begin, FetchPage, FetchGone, FetchGoneAgain, SaveMailNextLink,
           CommitMailDeltaLink, FetchEmptyBody, FetchFails, ItemFails, CursorFails,
           Crash, SyncOne, SyncFull, vars, database
  <1>4. QED
    BY <1>1, <1>2, <1>3

LEMMA VersionInit == ASSUME Init PROVE VersionInv
  <1>1. \A m \in Messages : rows[m].ver = 0 /\ box[m].ver = 1
    BY DEF Init, NoRow
  <1>2. \A p \in Procs : page[p] = {}
    BY DEF Init
  <1>3. QED
    BY <1>1, <1>2 DEF VersionInv

\* A page that waited in memory while the mailbox changed never sets a row back to
\* an older version of its message, whatever pages and resets came between.
THEOREM RowsNeverGoBack == ASSUME OneProcess PROVE Spec => RowsOnlyAdvance
  <1>1. Init => MailInv /\ VersionInv
    BY InvInit, VersionInit
  <1>2. MailInv /\ VersionInv /\ [Next]_vars => (MailInv /\ VersionInv)'
    BY InvNext, VersionNext
  <1>3. MailInv /\ VersionInv /\ [Next]_vars
           => [\A m \in Messages : rows'[m].ver >= rows[m].ver]_vars
    <2> SUFFICES ASSUME MailInv, VersionInv, [Next]_vars
                 PROVE  \A m \in Messages : rows'[m].ver >= rows[m].ver
      OBVIOUS
    <2>1. MailInv'
      BY InvNext
    <2>2. \A m \in Messages : rows[m].ver \in Nat /\ rows'[m].ver \in Nat
      BY <2>1 DEF MailInv, TypeOK, Row
    <2>3. QED
      BY <2>2, VersionNext
  <1>4. QED
    BY <1>1, <1>2, <1>3, PTL DEF Spec, RowsOnlyAdvance

-----------------------------------------------------------------------------
(* Answers are lost only for versions that no delta link has passed *)

\* The messages of todo that are still in folder f changed after f's delta link.
Ahead(f, todo) == \A m \in todo : box[m].folder = f => box[m].ver > sync[f].delta

AheadInv ==
    /\ \A f \in Folders : sync[f].next.paging => Ahead(f, sync[f].next.todo)
    /\ \A p \in Procs :
         /\ pc[p] = "fetch" => Ahead(folder[p], url[p].todo)
         /\ pc[p] = "apply" => Ahead(folder[p], link[p].todo)
         /\ pc[p] = "apply" =>
              \A i \in page[p] : i.folder = folder[p] => i.ver > sync[folder[p]].delta

LEMMA AheadInit == ASSUME Init PROVE AheadInv
  BY DEF Init, AheadInv, NoState, NoLink, DeltaLink

LEMMA AheadMailboxChange ==
    ASSUME MailInv, AheadInv, NEW m \in Messages, NEW g \in Places,
           NEW content \in Contents, MailboxChange(m, g, content)
    PROVE  AheadInv'
  <1>1. /\ box'[m].ver = clock + 1
        /\ \A k \in Messages \ {m} : box'[k] = box[k]
        /\ UNCHANGED <<sync, pc, folder, url, page, link>>
    BY DEF MailboxChange, MailInv, TypeOK, database, memory
  <1>2. /\ clock \in Nat
        /\ \A f \in Folders : sync[f].delta \in Nat /\ sync[f].delta <= clock
    BY LinkTypes DEF MailInv, LinksIssued
  <1>3. ASSUME NEW f \in Folders, NEW todo \in SUBSET Messages, Ahead(f, todo)
        PROVE  Ahead(f, todo)'
    BY <1>1, <1>2, <1>3 DEF Ahead
  <1>4. /\ \A f \in Folders : sync[f].next.todo \in SUBSET Messages
        /\ \A p \in Procs : /\ url[p].todo \in SUBSET Messages
                            /\ link[p].todo \in SUBSET Messages
                            /\ pc[p] # "idle" => folder[p] \in Folders
    BY LinkTypes DEF MailInv, TypeOK
  <1>5. \A f \in Folders : (sync[f].next.paging => Ahead(f, sync[f].next.todo))'
    BY <1>1, <1>3, <1>4 DEF AheadInv
  <1>6. \A p \in Procs : /\ (pc[p] = "fetch" => Ahead(folder[p], url[p].todo))'
                         /\ (pc[p] = "apply" => Ahead(folder[p], link[p].todo))'
    BY <1>1, <1>3, <1>4 DEF AheadInv
  <1>7. QED
    BY <1>1, <1>5, <1>6 DEF AheadInv

\* A step outside a walk: the links of a folder stay or are dropped, those apart of
\* a folder that has no walk to resume.
LEMMA AheadBetween ==
    ASSUME OneProcess, AheadInv, NEW p \in Procs, UNCHANGED box,
           pc'[p] \notin {"fetch", "apply"},
           \A f \in Folders :
             \/ sync'[f].delta = sync[f].delta /\ sync'[f].next = sync[f].next
             \/ sync'[f].next = NoLink
    PROVE  AheadInv'
  <1>1. ~NoLink.paging
    BY DEF NoLink, DeltaLink
  <1>2. QED
    BY <1>1 DEF AheadInv, Ahead, OneProcess

\* A step within a walk that leaves the stored links.
LEMMA AheadWithin ==
    ASSUME OneProcess, AheadInv, NEW p \in Procs, UNCHANGED <<box, sync, folder>>,
           pc'[p] = "fetch" => Ahead(folder[p], url'[p].todo),
           pc'[p] = "apply" => Ahead(folder[p], link'[p].todo),
           pc'[p] = "apply" =>
             \A i \in page'[p] : i.folder = folder[p] => i.ver > sync[folder[p]].delta
    PROVE  AheadInv'
  BY DEF AheadInv, Ahead, OneProcess

LEMMA AheadFetchPage ==
    ASSUME OneProcess, MailInv, DeletionInv, AheadInv, NEW p \in Procs, FetchPage(p)
    PROVE  AheadInv'
  <1> DEFINE walk == Walk(folder[p], url[p])
  <1>1. /\ UNCHANGED <<box, sync, folder>>
        /\ pc[p] = "fetch" /\ pc'[p] = "apply"
        /\ folder[p] \in Folders /\ url[p] \in Link
    BY LinkTypes DEF FetchPage, MailInv, TypeOK, mailbox, database
  <1>2. walk \in Link
    BY <1>1 DEF MailInv, TypeOK, Walk, Changed, Link
  <1>3. Ahead(folder[p], walk.todo)
    <2>1. CASE url[p].paging
      BY <1>1, <2>1 DEF Walk, AheadInv
    <2>2. CASE ~url[p].paging
      <3>1. walk.todo = Changed(folder[p], sync[folder[p]].delta)
        BY <1>1, <2>2 DEF Walk, DeletionInv, WalkHeard
      <3>2. QED
        BY <3>1 DEF Ahead, Changed
    <2>3. QED
      BY <2>1, <2>2
  <1> HIDE DEF walk
  <1>4. PICK listed \in SUBSET walk.todo :
          /\ page'[p] = {ItemOf(m) : m \in listed}
          /\ link'[p] = [walk EXCEPT !.paging = (listed # walk.todo),
                                    !.todo = @ \ listed]
    BY DEF FetchPage, MailInv, TypeOK, walk
  <1>5. link'[p].todo \subseteq walk.todo
    BY <1>2, <1>4 DEF Link
  <1>6. \A m \in listed : /\ ItemOf(m).folder = box[m].folder
                          /\ ItemOf(m).ver = box[m].ver
    BY DEF ItemOf
  <1>7. \A i \in page'[p] : i.folder = folder[p] => i.ver > sync[folder[p]].delta
    BY <1>3, <1>4, <1>6 DEF Ahead
  <1>8. Ahead(folder[p], link'[p].todo)
    BY <1>3, <1>5 DEF Ahead
  <1>9. QED
    BY <1>1, <1>7, <1>8, AheadWithin

LEMMA AheadNext ==
    ASSUME OneProcess, MailInv, DeletionInv, AheadInv, [Next]_vars
    PROVE  AheadInv'
  <1>1. ASSUME NEW m \in Messages, NEW g \in Places, NEW content \in Contents,
               MailboxChange(m, g, content)
        PROVE  AheadInv'
    BY <1>1, AheadMailboxChange
  <1>2. ASSUME UNCHANGED <<box, sync, pc, folder, url, page, link>>
        PROVE  AheadInv'
    BY <1>2 DEF AheadInv, Ahead
  <1>3. ASSUME NEW f \in Folders, Expire(f) PROVE AheadInv'
    BY <1>2, <1>3 DEF Expire, database, memory
  <1>4. ASSUME NEW p \in Procs, ApplyItem(p) \/ LookupLost(p) PROVE AheadInv'
    <2>1. PICK item \in page[p] : Applies(p, item)
      BY <1>4, ItemApplied
    <2>2. page'[p] \subseteq page[p]
      BY <2>1 DEF Applies, MailInv, TypeOK
    <2>3. UNCHANGED <<box, sync, pc, folder, link>> /\ pc[p] = "apply"
      BY <1>4, ItemApplied DEF mailbox
    <2>4. QED
      BY <2>2, <2>3, AheadWithin DEF AheadInv
  <1>5. ASSUME NEW p \in Procs, Work(p) PROVE AheadInv'
    <2>1. CASE SyncAll(p)
      BY <1>2, <2>1 DEF SyncAll, mailbox, database
    <2>2. ASSUME NEW f \in Folders, SyncFolder(p, f) PROVE AheadInv'
      <3>1. UNCHANGED <<box, sync>> /\ pc'[p] = "begin"
        BY <2>2 DEF SyncFolder, mailbox, database, MailInv, TypeOK
      <3>2. QED
        BY <3>1, AheadBetween
    <2>3. CASE Begin(p)
      <3>1. /\ UNCHANGED <<box, sync, folder>> /\ pc'[p] = "fetch"
            /\ folder[p] \in Folders
            /\ url'[p] = IF sync[folder[p]].next.paging THEN sync[folder[p]].next
                         ELSE DeltaLink(sync[folder[p]].delta)
        BY <2>3 DEF Begin, MailInv, TypeOK, mailbox, database
      <3>2. Ahead(folder[p], url'[p].todo)
        BY <3>1 DEF AheadInv, Ahead, DeltaLink
      <3>3. QED
        BY <3>1, <3>2, AheadWithin
    <2>4. CASE FetchPage(p)
      BY <2>4, AheadFetchPage
    <2>5. CASE FetchGone(p)
      <3>1. /\ UNCHANGED box /\ pc'[p] = "begin"
            /\ {folder[p]} \in SUBSET Folders
            /\ ResetMailSyncState({folder[p]})
        BY <2>5 DEF FetchGone, mailbox, MailInv, TypeOK
      <3>2. QED
        BY <3>1, LinksDropped, AheadBetween DEF MailInv
    <2>6. CASE FetchGoneAgain(p)
      <3>1. UNCHANGED box /\ pc'[p] = "idle" /\ RecordMailSyncFailure(folder[p])
        BY <2>6 DEF FetchGoneAgain, Return, mailbox, MailInv, TypeOK
      <3>2. QED
        BY <3>1, LinksKept, AheadBetween DEF MailInv
    <2>7. CASE SaveMailNextLink(p)
      <3>1. /\ UNCHANGED <<box, folder>> /\ pc[p] = "apply" /\ pc'[p] = "fetch"
            /\ folder[p] \in Folders /\ url'[p] = link[p]
        BY <2>7 DEF SaveMailNextLink, PageApplied, MailInv, TypeOK, mailbox
      <3>2. /\ \A f \in Folders : sync'[f].delta = sync[f].delta
            /\ \A f \in Folders \ {folder[p]} : sync'[f].next = sync[f].next
            /\ sync'[folder[p]].next = link[p]
        BY <2>7, <3>1 DEF SaveMailNextLink, MailInv, TypeOK, SyncState
      <3>3. Ahead(folder[p], link[p].todo)
        BY <3>1 DEF AheadInv
      <3>4. QED
        BY <3>1, <3>2, <3>3 DEF AheadInv, Ahead, OneProcess
    <2>8. CASE CommitMailDeltaLink(p)
      <3>1. /\ UNCHANGED box /\ pc'[p] = "idle" /\ folder[p] \in Folders
            /\ \A f \in Folders \ {folder[p]} : sync'[f] = sync[f]
            /\ sync'[folder[p]].next = NoLink
        BY <2>8
           DEF CommitMailDeltaLink, CommittedState, PageApplied, Return, MailInv,
               TypeOK, mailbox
      <3>2. QED
        BY <3>1, AheadBetween
    <2>9. QED
      BY <1>4, <1>5, <2>1, <2>2, <2>3, <2>4, <2>5, <2>6, <2>7, <2>8 DEF Work
  <1>6. ASSUME NEW p \in Procs, Failure(p) PROVE AheadInv'
    <2>1. CASE FetchEmptyBody(p)
      <3>1. /\ UNCHANGED <<box, sync, folder>> /\ pc'[p] = "apply"
            /\ page'[p] = {} /\ link'[p] = NoLink
        BY <2>1 DEF FetchEmptyBody, mailbox, database, MailInv, TypeOK
      <3>2. QED
        BY <3>1, AheadWithin DEF Ahead, NoLink, DeltaLink
    <2>2. CASE FetchFails(p) \/ ItemFails(p) \/ CursorFails(p) \/ Crash(p)
      <3>1. /\ UNCHANGED box /\ Return(p)
            /\ RecordMailSyncFailure(folder[p]) \/ UNCHANGED sync
        BY <2>2 DEF FetchFails, ItemFails, CursorFails, Crash, mailbox, database
      <3>2. pc'[p] = "idle"
        BY <3>1 DEF Return, MailInv, TypeOK
      <3>3. QED
        BY <3>1, <3>2, LinksKept, AheadBetween DEF MailInv
    <2>3. QED
      BY <1>4, <1>6, <2>1, <2>2 DEF Failure
  <1>7. ASSUME NEW p \in Procs, Operator(p) PROVE AheadInv'
    <2>1. ASSUME NEW f \in Folders, SyncOne(p, f) PROVE AheadInv'
      BY <1>2, <2>1 DEF SyncOne, mailbox, database
    <2>2. ASSUME NEW F \in {Folders} \cup {{f} : f \in Folders}, SyncFull(p, F)
          PROVE  AheadInv'
      <3>1. /\ UNCHANGED <<box, pc>> /\ pc[p] = "idle" /\ F \in SUBSET Folders
            /\ ResetMailSyncState(F)
        BY <2>2 DEF SyncFull, mailbox
      <3>2. QED
        BY <3>1, LinksDropped, AheadBetween DEF MailInv
    <2>3. QED
      BY <1>7, <2>1, <2>2 DEF Operator
  <1>8. CASE UNCHANGED vars
    BY <1>2, <1>8 DEF vars, mailbox, database, memory
  <1>9. QED
    BY <1>1, <1>3, <1>5, <1>6, <1>7, <1>8 DEF Next, Mailbox

-----------------------------------------------------------------------------
(* The refinement *)

\* A message that a cursor has passed is one of its folder, not newer than the
\* folder's delta link, and, unless its version is spoiled, current.
LEMMA ReplicaPassed ==
    ASSUME MailInv, NEW m \in Messages, Replica!Passed(m)
    PROVE  /\ box[m].content.match /\ box[m].folder \in Folders
           /\ box[m].ver <= sync[box[m].folder].delta
           /\ ~Spoiled(m) => Current(m)
  <1>1. /\ ReplicaSource[m].feed \in Folders
        /\ ReplicaSource[m].ver = box[m].ver
        /\ ReplicaSource[m].feed
             = IF box[m].content.match THEN box[m].folder ELSE Elsewhere
        /\ box[m].ver <= sync[ReplicaSource[m].feed].delta
    BY DEF Replica!Passed, ReplicaSource
  <1>2. box[m].content.match /\ box[m].folder \in Folders
    BY <1>1, MailAssumption
  <1>3. QED
    BY <1>1, <1>2 DEF MailInv, NothingMissed, Covered, Wanted

LEMMA ReplicaStutters ==
    ASSUME UNCHANGED <<clock, box, rows, lost>>,
           \A f \in Folders : sync'[f].delta = sync[f].delta
    PROVE  UNCHANGED Replica!vars
  BY DEF Replica!vars, ReplicaSource, ReplicaCopy

LEMMA ReplicaForgets ==
    ASSUME UNCHANGED <<clock, box, rows, lost>>, NEW F \in SUBSET Folders,
           ResetMailSyncState(F), TypeOK
    PROVE  Replica!Next
  <1>1. \A f \in Folders : sync'[f].delta = IF f \in F THEN 0 ELSE sync[f].delta
    BY DEF ResetMailSyncState, TypeOK, SyncState
  <1>2. Replica!Forget(F)
    BY <1>1 DEF Replica!Forget, ReplicaSource, ReplicaCopy
  <1>3. QED
    BY <1>2 DEF Replica!Next

LEMMA ReplicaChanges ==
    ASSUME MailInv, NEW m \in Messages, NEW g \in Places, NEW content \in Contents,
           MailboxChange(m, g, content)
    PROVE  Replica!Next
  <1> DEFINE feed == IF content.match THEN g ELSE Elsewhere
  <1>1. feed \in Replica!Places
    BY DEF Places, Replica!Places
  <1>2. /\ clock' = clock + 1
        /\ box'[m] = [folder |-> g, ver |-> clock + 1, content |-> content]
        /\ \A k \in Messages \ {m} : box'[k] = box[k]
        /\ UNCHANGED <<rows, sync, lost>>
    BY DEF MailboxChange, MailInv, TypeOK, database
  <1> DEFINE version == [feed |-> feed, ver |-> clock + 1, whole |-> TRUE]
  <1>3. ReplicaSource' = [ReplicaSource EXCEPT ![m] = version]
    <2>1. [feed  |-> IF box'[m].content.match THEN box'[m].folder ELSE Elsewhere,
           ver   |-> box'[m].ver,
           whole |-> TRUE] = version
      BY <1>2
    <2> HIDE DEF version
    <2>2. QED
      BY <1>2, <2>1 DEF ReplicaSource
  <1>4. Replica!Change(m, feed)
    BY <1>2, <1>3 DEF Replica!Change, ReplicaCopy
  <1>5. QED
    BY <1>1, <1>4 DEF Replica!Next

\* The item stores the row that a cursor promises, or no cursor promises anything
\* about the message.
LEMMA ReplicaStores ==
    ASSUME OneProcess, MailInv, VersionInv, AheadInv, NEW p \in Procs,
           ApplyItem(p) \/ LookupLost(p)
    PROVE  Replica!Next
  <1>1. PICK item \in page[p] : Applies(p, item)
    BY ItemApplied
  <1> DEFINE m == item.id
             r == rows'[m]
             g == IF r.live THEN r.folder ELSE Elsewhere
             stored == [feed |-> g, ver |-> r.ver, whole |-> r.whole]
  <1>2. /\ m \in Messages /\ item \in Item /\ folder[p] \in Folders /\ pc[p] = "apply"
        /\ UNCHANGED <<clock, box, sync>>
        /\ \A k \in Messages \ {m} : rows'[k] = rows[k] /\ lost'[k] = lost[k]
    BY <1>1, AppliedRow, VersionTypes, ItemApplied DEF MailInv, TypeOK, mailbox
  <1>3. MailInv' /\ rows[m].ver <= rows'[m].ver /\ rows'[m].ver <= box[m].ver
    BY <1>2, VersionApplyItem, InvNext DEF VersionInv, Next, Work, Failure
  <1>4. /\ g \in Replica!Places /\ r.whole \in BOOLEAN
        /\ r.ver \in rows[m].ver .. clock /\ item.ver \in rows[m].ver .. clock
    <2>1. rows'[m] \in Row
      BY <1>2, <1>3 DEF MailInv, TypeOK
    <2>2. /\ box[m].ver <= clock /\ rows[m].ver <= item.ver /\ item.ver <= box[m].ver
          /\ box[m].ver \in Nat /\ clock \in Nat /\ rows[m].ver \in Nat
          /\ item.ver \in Nat
      BY <1>2, VersionTypes DEF VersionInv, MailInv, LinksIssued
    <2>3. QED
      BY <1>3, <2>1, <2>2 DEF Row, Places, Replica!Places
  <1>5. ReplicaCopy' = [ReplicaCopy EXCEPT ![m] = stored]
    BY <1>2 DEF ReplicaCopy
  <1>6. ReplicaCopy[m].ver = rows[m].ver /\ UNCHANGED ReplicaSource
    BY <1>2 DEF ReplicaCopy, ReplicaSource
  <1>7. /\ lost \in [Messages -> Nat] /\ lost' \in [Messages -> Nat]
        /\ box[m].ver >= 1
    BY <1>2, <1>3 DEF MailInv, TypeOK, LinksIssued
  <1>8. ASSUME Replica!Passed(m), ~Spoiled(m)' PROVE ReplicaSource[m] = stored
    <2>1. /\ box[m].content.match /\ box[m].folder \in Folders
          /\ box[m].ver <= sync[box[m].folder].delta
      BY <1>2, <1>8, ReplicaPassed
    <2>2. Current(m)'
      BY <1>2, <1>3, <1>8, <2>1 DEF MailInv, NothingMissed, Covered, Wanted
    <2>3. QED
      BY <1>2, <2>1, <2>2 DEF Current, ReplicaSource
  <1>9. CASE UNCHANGED lost
    <2>1. Replica!Passed(m) /\ Replica!Intact(m) => stored = ReplicaSource[m]
      BY <1>2, <1>8, <1>9 DEF Replica!Intact, Spoiled, ReplicaSource
    <2> HIDE DEF g, r
    <2>2. Replica!Store(m)
      BY <1>2, <1>4, <1>5, <1>6, <1>9, <2>1 DEF Replica!Store
    <2>3. QED
      BY <1>2, <2>2 DEF Replica!Next
  <1>10. CASE UpsertMailMessage(item, TRUE) /\ lost' = [lost EXCEPT ![m] = 0]
    <2>1. lost'[m] = 0 /\ r.whole
      BY <1>2, <1>7, <1>10 DEF UpsertMailMessage, MailInv, TypeOK
    <2>2. ~Spoiled(m)'
      BY <1>2, <1>7, <2>1, VersionTypes DEF Spoiled, MailInv
    <2>3. Replica!Passed(m) => stored = ReplicaSource[m]
      BY <1>8, <2>2
    <2> HIDE DEF g, r
    <2>4. Replica!Store(m)
      BY <1>2, <1>4, <1>5, <1>6, <1>10, <2>1, <2>3 DEF Replica!Store
    <2>5. QED
      BY <1>2, <2>4 DEF Replica!Next
  <1>11. CASE /\ item.folder = folder[p]
              /\ UNCHANGED rows \/ UpsertMailMessage(item, FALSE)
              /\ lost' = [lost EXCEPT ![m] = item.ver]
    <2>1. ~Replica!Passed(m)
      <3>1. item.ver > sync[folder[p]].delta
        BY <1>2, <1>11 DEF AheadInv
      <3>2. Fresh(p, item)
        BY DEF MailInv
      <3>3. box[m].folder \in Folders => ~(box[m].ver <= sync[box[m].folder].delta)
        BY <1>2, <1>11, <3>1, <3>2, LinkTypes DEF Fresh, ItemOf, MailInv
      <3>4. QED
        BY <1>2, <3>3, ReplicaPassed
    <2>2. CASE UNCHANGED rows
      <3>1. UNCHANGED ReplicaCopy
        BY <2>2 DEF ReplicaCopy
      <3>2. Replica!Spoil(m)
        BY <1>2, <1>4, <1>6, <1>11, <2>1, <3>1 DEF Replica!Spoil
      <3>3. QED
        BY <1>2, <3>2 DEF Replica!Next
    <2>3. CASE UpsertMailMessage(item, FALSE)
      <3>1. rows'[m] = [folder |-> folder[p], ver |-> item.ver, live |-> TRUE,
                        whole |-> FALSE]
        BY <1>2, <1>11, <2>3 DEF UpsertMailMessage, MailInv, TypeOK
      <3>2. stored = [feed |-> folder[p], ver |-> item.ver, whole |-> FALSE]
        BY <3>1
      <3> HIDE DEF stored
      <3>3. PICK h \in Folders : h = folder[p]
        BY <1>2
      <3>4. Replica!Spoil(m)
        BY <1>2, <1>4, <1>5, <1>6, <1>11, <2>1, <3>2, <3>3 DEF Replica!Spoil
      <3>5. QED
        BY <1>2, <3>4 DEF Replica!Next
    <2>4. QED
      BY <1>11, <2>2, <2>3
  <1>12. QED
    BY <1>1, <1>9, <1>10, <1>11 DEF Applies

\* What the committed link covers is stored.
LEMMA ReplicaCommits ==
    ASSUME OneProcess, MailInv, NEW p \in Procs, CommitMailDeltaLink(p)
    PROVE  Replica!Next
  <1> DEFINE n == CommittedLink(p)
             f == folder[p]
  <1>1. /\ f \in Folders /\ UNCHANGED <<clock, box, rows, lost>>
        /\ clock \in Nat
    BY DEF MailInv, TypeOK, CommitMailDeltaLink, PageApplied, mailbox
  <1>2. \A h \in Folders : sync'[h].delta = IF h = f THEN n ELSE sync[h].delta
    BY <1>1 DEF MailInv, TypeOK, CommitMailDeltaLink, CommittedState
  <1>3. n \in 0 .. clock
    BY LinkTypes DEF MailInv, LinksIssued, CommittedLink, Link
  <1>4. MailInv'
    BY InvNext DEF Next, Work
  <1>5. ASSUME NEW k \in Messages, ReplicaSource[k].feed = f,
               ReplicaSource[k].ver <= n, Replica!Intact(k)
        PROVE  ReplicaCopy[k] = ReplicaSource[k]
    <2>1. /\ box[k].content.match /\ box[k].folder = f /\ box[k].ver <= n
          /\ ~Spoiled(k)
      BY <1>1, <1>5, MailAssumption DEF ReplicaSource, Replica!Intact, Spoiled
    <2>2. Current(k)'
      BY <1>1, <1>2, <1>4, <2>1 DEF MailInv, NothingMissed, Covered, Wanted, Spoiled
    <2>3. QED
      BY <1>1, <2>1, <2>2 DEF Current, ReplicaCopy, ReplicaSource
  <1> HIDE DEF n, f
  <1>6. PICK h \in Folders : h = f
    BY <1>1
  <1>7. PICK i \in 0 .. clock : i = n
    BY <1>3
  <1>8. Replica!Commit(h, i)
    BY <1>1, <1>2, <1>5, <1>6, <1>7 DEF Replica!Commit, ReplicaCopy, ReplicaSource
  <1>9. QED
    BY <1>8 DEF Replica!Next

LEMMA ReplicaNext ==
    ASSUME OneProcess, MailInv, VersionInv, AheadInv, [Next]_vars
    PROVE  Replica!Next \/ UNCHANGED Replica!vars
  <1>1. ASSUME NEW m \in Messages, NEW g \in Places, NEW content \in Contents,
               MailboxChange(m, g, content)
        PROVE  Replica!Next
    BY <1>1, ReplicaChanges
  <1>2. ASSUME NEW f \in Folders, Expire(f) PROVE Replica!Next
    BY <1>2
       DEF Expire, database, Replica!Next, Replica!Pass, ReplicaSource, ReplicaCopy
  <1>3. ASSUME NEW p \in Procs, Work(p) PROVE Replica!Next \/ UNCHANGED Replica!vars
    <2>1. CASE FetchGone(p)
      <3>1. folder[p] \in Folders
        BY <2>1 DEF FetchGone, MailInv, TypeOK
      <3>2. QED
        BY <2>1, <3>1, ReplicaForgets DEF FetchGone, mailbox, MailInv
    <2>2. CASE ApplyItem(p)
      BY <2>2, ReplicaStores
    <2>3. CASE CommitMailDeltaLink(p)
      BY <2>3, ReplicaCommits
    <2>4. CASE SaveMailNextLink(p) \/ FetchGoneAgain(p)
      <3>1. \A f \in Folders : sync'[f].delta = sync[f].delta
        <4>1. sync \in [Folders -> SyncState]
          BY DEF MailInv, TypeOK
        <4>2. CASE SaveMailNextLink(p)
          BY <4>1, <4>2 DEF SaveMailNextLink, SyncState
        <4>3. CASE FetchGoneAgain(p)
          BY <4>1, <4>3 DEF FetchGoneAgain, RecordMailSyncFailure, SyncState
        <4>4. QED
          BY <2>4, <4>2, <4>3
      <3>2. QED
        BY <2>4, <3>1, ReplicaStutters DEF SaveMailNextLink, FetchGoneAgain, mailbox
    <2>5. CASE SyncAll(p) \/ Begin(p) \/ FetchPage(p) \/ \E f \in Folders : SyncFolder(p, f)
      BY <2>5, ReplicaStutters
         DEF SyncAll, SyncFolder, Begin, FetchPage, mailbox, database
    <2>6. QED
      BY <1>3, <2>1, <2>2, <2>3, <2>4, <2>5 DEF Work
  <1>4. ASSUME NEW p \in Procs, Failure(p) PROVE Replica!Next \/ UNCHANGED Replica!vars
    <2>1. CASE LookupLost(p)
      BY <2>1, ReplicaStores
    <2>2. CASE ~LookupLost(p)
      <3>1. UNCHANGED <<clock, box, rows, lost>>
        BY <1>4, <2>2
           DEF Failure, FetchEmptyBody, FetchFails, ItemFails, CursorFails, Crash,
               mailbox, database
      <3>2. \A f \in Folders : sync'[f].delta = sync[f].delta
        BY <1>4, <2>2
           DEF Failure, FetchEmptyBody, FetchFails, ItemFails, CursorFails, Crash,
               database, RecordMailSyncFailure, MailInv, TypeOK, SyncState
      <3>3. QED
        BY <3>1, <3>2, ReplicaStutters
    <2>3. QED
      BY <2>1, <2>2
  <1>5. ASSUME NEW p \in Procs, Operator(p) PROVE Replica!Next \/ UNCHANGED Replica!vars
    <2>1. CASE \E f \in Folders : SyncOne(p, f)
      BY <2>1, ReplicaStutters DEF SyncOne, mailbox, database
    <2>2. ASSUME NEW F \in {Folders} \cup {{f} : f \in Folders}, SyncFull(p, F)
          PROVE  Replica!Next
      BY <2>2, ReplicaForgets DEF SyncFull, mailbox, MailInv
    <2>3. QED
      BY <1>5, <2>1, <2>2 DEF Operator
  <1>6. CASE UNCHANGED vars
    BY <1>6, ReplicaStutters DEF vars, mailbox, database
  <1>7. QED
    BY <1>1, <1>2, <1>3, <1>4, <1>5, <1>6 DEF Next, Mailbox

LEMMA ReplicaBegins == ASSUME Init PROVE Replica!Init
  <1>1. \A m \in Messages : /\ box[m].folder \in Places /\ box[m].ver = 1
                           /\ rows[m] = NoRow
    BY DEF Init
  <1>2. ReplicaSource \in [Messages -> [feed : Replica!Places, ver : {1}, whole : {TRUE}]]
    BY <1>1 DEF ReplicaSource, Places, Replica!Places
  <1>3. ReplicaCopy = [m \in Messages |-> [feed |-> Elsewhere, ver |-> 0, whole |-> TRUE]]
    <2>1. ~NoRow.live /\ NoRow.ver = 0
      BY DEF NoRow
    <2>2. NoRow.whole = TRUE
      BY DEF NoRow
    <2>3. QED
      BY <1>1, <2>1, <2>2 DEF ReplicaCopy
  <1>4. QED
    BY <1>2, <1>3 DEF Init, Replica!Init, NoState

\* One process that synchronises is a delta replica: paging, resuming, starting
\* again after 410 Gone, failing and crashing, it only stores what is not older,
\* leaves alone what a delta link covers, loses answers only about what no delta
\* link covers yet, and commits a link only when all it covers is stored or had its
\* answer lost.
THEOREM OneProcessIsReplica == ASSUME OneProcess PROVE Spec => IsReplica
  <1> DEFINE IInv == MailInv /\ DeletionInv /\ VersionInv /\ AheadInv
  <1>1. Init => IInv /\ Replica!Init
    BY InvInit, DeletionInit, VersionInit, AheadInit, ReplicaBegins
  <1>2. IInv /\ [Next]_vars => IInv'
    BY InvNext, DeletionNext, VersionNext, AheadNext
  <1>3. IInv /\ [Next]_vars => [Replica!Next]_(Replica!vars)
    BY ReplicaNext
  <1> HIDE DEF IInv
  <1>4. QED
    BY <1>1, <1>2, <1>3, PTL DEF Spec, IsReplica, Replica!Spec

=============================================================================
