---------------------------- MODULE OutlookDaemon ----------------------------
(***************************************************************************)
(* The outlook-knowledge daemon: the loop of daemonCmd, the runs of mail   *)
(* and calendar that it starts, the folders that a run resolves, and every *)
(* Graph call on the way, with its retries and its access token, next to   *)
(* the auth commands of the user.  The walk of a folder or a calendar is   *)
(* one call here: MailDelta and CalendarSync are about what it does.       *)
(***************************************************************************)
EXTENDS TokenCache

CONSTANTS
    Daemon,     \* the daemon, one of Users
    None,       \* no item
    Include, Exclude,   \* the folders of the configuration, by name or id
    Folder,     \* such a name or id -> the folder it stands for
    NoId,       \* the id of no folder, "" in the code
    Skipped,    \* names that skipFolder leaves out
    Calendars,  \* the enabled calendars
    Retries,    \* sync.max_retries
    Faults,     \* the disturbances this instance admits
    MaxFaults, MaxCommands   \* bounds

Shells == Users \ {Daemon}   \* where the user runs auth commands
FaultKinds == {"error", "busy", "emptyBody", "store", "token", "kill"}

ASSUME DaemonAssumption ==
    /\ Daemon \in Users
    /\ None \notin Include \cup Exclude \cup Calendars
    /\ Include \cup Exclude \subseteq DOMAIN Folder
    /\ \A t \in Include \cup Exclude : Folder[t] # NoId
    /\ Faults \subseteq FaultKinds
    /\ {Retries, MaxFaults, MaxCommands} \subseteq Nat

VARIABLES
    stage,     \* what the daemon is at
    left,      \* the items of the stage still to do
    item,      \* the item whose Graph call runs, or None
    tries,     \* retries of this call
    waiting,   \* the call waits before its next attempt
    excluded,  \* ResolveFolders: folders of the exclude list
    resolved,  \* ResolveFolders: the folders to walk, with the names they were found by
    looping,   \* the ticker runs and signals go to a channel, after the first run
    tick,      \* at select: a tick is in the ticker's channel
    signal,    \* at select: a signal is in its channel
    unlooked,  \* history: names of the exclude list whose lookup in this run failed
               \* or lost the body of its answer
    clear,     \* history: every call of this run has been answered in full
    faults, commands   \* disturbances and auth commands so far

call == <<item, tries, waiting>>
lists == <<excluded, resolved>>
channels == <<looping, tick, signal>>
counts == <<faults, commands>>
vars == <<tokenVars, stage, left, call, lists, channels, unlooked, clear, counts>>

Stages == {"select", "exclude", "include", "mail", "list", "calendar", "stopped"}
Items == Include \cup Exclude \cup Calendars \cup {"calendars"}
Results == {"ok", "empty", "error"}   \* "empty": a 2xx answer whose body was lost

TypeOK ==
    /\ TokenTypeOK
    /\ stage \in Stages
    /\ left \subseteq Items
    /\ item \in Items \cup {None}
    /\ tries \in 0 .. Retries
    /\ excluded \subseteq {Folder[t] : t \in Exclude} \cup {NoId}
    /\ resolved \subseteq [name : Include, folder : {Folder[t] : t \in Include} \cup {NoId}]
    /\ unlooked \subseteq Exclude
    /\ {waiting, looping, tick, signal, clear} \subseteq BOOLEAN
    /\ {faults, commands} \subseteq Nat
    /\ waiting => item # None
    /\ stage \in {"select", "stopped"} => item = None /\ left = {}

Disturb(kind) ==
    /\ kind \in Faults
    /\ faults < MaxFaults
    /\ faults' = faults + 1

\* SyncAll of mail begins with the exclude list.
Fresh == /\ stage' = "exclude"
         /\ left' = Exclude
         /\ excluded' = {} /\ resolved' = {}
         /\ unlooked' = {}
         /\ clear' = TRUE

Init ==
    /\ TokenInit
    /\ stage = "exclude" /\ left = Exclude
    /\ item = None /\ tries = 0 /\ waiting = FALSE
    /\ excluded = {} /\ resolved = {} /\ unlooked = {}
    /\ looping = FALSE /\ tick = FALSE /\ signal = FALSE
    /\ clear = TRUE
    /\ faults = 0 /\ commands = 0

-----------------------------------------------------------------------------
(* The loop *)

\* The run is over; a tick or a signal may have come while it lasted.
Select ==
    /\ stage' = "select" /\ left' = {}
    /\ looping' = TRUE
    /\ tick' \in {looping, FALSE}
    /\ signal' \in {signal, signal \/ looping}

GoOn(s, items) == stage' = s /\ left' = items /\ UNCHANGED channels

Tick ==
    /\ stage = "select" /\ ~tick
    /\ tick' = TRUE
    /\ UNCHANGED <<tokenVars, stage, left, call, lists, looping, signal, unlooked, clear, counts>>

Signal ==
    /\ stage = "select" /\ ~signal
    /\ signal' = TRUE
    /\ UNCHANGED <<tokenVars, stage, left, call, lists, looping, tick, unlooked, clear, counts>>

\* case <-ticker.C: run()
Run ==
    /\ stage = "select"
    /\ tick
    /\ tick' = FALSE
    /\ Fresh
    /\ UNCHANGED <<tokenVars, call, looping, signal, counts>>

\* Mutant of Stop: a tick comes first.
StopIfNoTick ==
    /\ stage = "select"
    /\ signal /\ ~tick
    /\ stage' = "stopped"
    /\ UNCHANGED <<tokenVars, left, call, lists, channels, unlooked, clear, counts>>

\* case <-ch: return
Stop ==
    /\ stage = "select"
    /\ signal
    /\ stage' = "stopped"
    /\ UNCHANGED <<tokenVars, left, call, lists, channels, unlooked, clear, counts>>

\* Before the channel is there, a signal ends the process.
Interrupt ==
    /\ ~looping /\ stage # "stopped"
    /\ stage' = "stopped" /\ left' = {}
    /\ item' = None /\ tries' = 0 /\ waiting' = FALSE
    /\ Kill(Daemon)
    /\ UNCHANGED <<lists, channels, unlooked, clear, counts>>

\* The daemon is killed and started again.
Restart ==
    /\ stage # "stopped"
    /\ Disturb("kill")
    /\ Kill(Daemon)
    /\ Fresh
    /\ item' = None /\ tries' = 0 /\ waiting' = FALSE
    /\ looping' = FALSE /\ tick' = FALSE /\ signal' = FALSE
    /\ UNCHANGED commands

-----------------------------------------------------------------------------
(* The stages of a run: SyncAll of mail, then SyncAll of calendar *)

\* Mutant of MailEnds: the error of the first half ends the run.
RunEnds == Select

\* SyncAll of mail is over, with an error or without.
MailEnds == GoOn("list", {"calendars"})

\* A loop over the items of a stage is through.
NextStage ==
    /\ item = None /\ left = {}
    /\ \/ stage = "exclude" /\ GoOn("include", Include)
       \/ stage = "include" /\ GoOn("mail", {s.name : s \in resolved})
       \/ stage = "mail" /\ MailEnds
       \/ stage = "calendar" /\ Select
    /\ UNCHANGED <<tokenVars, call, lists, unlooked, clear, counts>>

\* SyncRegisteredAddresses fails: SyncAll of mail returns.
AddressesFail ==
    /\ stage = "exclude" /\ left = Exclude /\ item = None
    /\ Disturb("store")
    /\ MailEnds
    /\ clear' = FALSE
    /\ UNCHANGED <<tokenVars, call, lists, unlooked, commands>>

\* skipFolder
SkipFolder(t) ==
    /\ stage = "mail" /\ item = None
    /\ t \in left \cap Skipped
    /\ left' = left \ {t}
    /\ UNCHANGED <<tokenVars, stage, call, lists, channels, unlooked, clear, counts>>

\* The Graph call for the next item; the first thing it needs is a token.
Call(i) ==
    /\ item = None
    /\ i \in left \ (IF stage = "mail" THEN Skipped ELSE {})
    /\ item' = i
    /\ left' = left \ {i}
    /\ tries' = 0
    /\ AccessToken(Daemon)
    /\ UNCHANGED <<stage, waiting, lists, channels, unlooked, clear, counts>>

-----------------------------------------------------------------------------
(* What the result of a call does *)

\* Mutant of Walked: a folder named twice is walked twice.
WalkedTwice(f) == f \notin excluded

\* ResolveFolders: neither excluded nor seen.
Walked(f) == f \notin excluded \cup {s.folder : s \in resolved}

\* The id that getFolder returns next to a nil error.
Found(result) == IF result = "ok" THEN Folder[item] ELSE NoId

Keep == UNCHANGED <<stage, left, channels>>

\* The exclude list: "if err != nil { continue }".
LookedUp(result) ==
    /\ stage = "exclude"
    /\ excluded' = excluded \cup (IF result = "error" THEN {} ELSE {Found(result)})
    /\ unlooked' = IF result = "ok" THEN unlooked ELSE unlooked \cup {item}
    /\ Keep
    /\ UNCHANGED resolved

\* The include list: a folder that is not found is left out.
Resolve(result) ==
    /\ stage = "include"
    /\ resolved' = IF result # "error" /\ Walked(Found(result))
                   THEN resolved \cup {[name |-> item, folder |-> Found(result)]}
                   ELSE resolved
    /\ Keep
    /\ UNCHANGED <<excluded, unlooked>>

\* A folder or a calendar that fails is counted and logged.
Synced == stage \in {"mail", "calendar"} /\ Keep /\ UNCHANGED <<lists, unlooked>>

\* SyncCalendars: an error ends SyncAll of calendar, a lost page ends the list.
Listed(result) ==
    /\ stage = "list"
    /\ \/ result = "ok" /\ GoOn("calendar", Calendars)
       \/ result = "empty" /\ \E some \in SUBSET Calendars : GoOn("calendar", some)
       \/ result = "error" /\ Select
    /\ UNCHANGED <<lists, unlooked>>

\* Mutant of Return: the wait is not over.
ReturnWaiting(result) ==
    /\ item' = None
    /\ tries' = 0
    /\ clear' = (clear /\ result = "ok")
    /\ LookedUp(result) \/ Resolve(result) \/ Synced \/ Listed(result)
    /\ UNCHANGED waiting

\* The call returns.
Return(result) ==
    /\ item' = None
    /\ tries' = 0
    /\ waiting' = FALSE
    /\ clear' = (clear /\ result = "ok")
    /\ LookedUp(result) \/ Resolve(result) \/ Synced \/ Listed(result)

\* UpsertMailFolder fails: SyncAll of mail returns.
FolderFails ==
    /\ stage = "include" /\ item # None
    /\ user[Daemon].at = "ok" /\ ~waiting
    /\ Walked(Folder[item]) \/ ("emptyBody" \in Faults /\ Walked(NoId))
    /\ Disturb("store")
    /\ item' = None /\ tries' = 0
    /\ clear' = FALSE
    /\ MailEnds
    /\ UNCHANGED <<tokenVars, waiting, lists, unlooked, commands>>

-----------------------------------------------------------------------------
(* The attempts of Client.do *)

Ready == item # None /\ ~waiting /\ user[Daemon].at = "ok"

\* What Graph requires: a valid token, and the id of a folder to walk.
Acceptable ==
    /\ user[Daemon].token.access = "fresh"
    /\ stage = "mail" => [name |-> item, folder |-> NoId] \notin resolved

\* A 2xx answer.
Answered == Ready /\ Acceptable /\ Return("ok") /\ UNCHANGED <<tokenVars, counts>>

\* A 2xx answer whose body is lost is no error.
AnsweredEmpty ==
    /\ Ready /\ Acceptable
    /\ Disturb("emptyBody")
    /\ Return("empty")
    /\ UNCHANGED <<tokenVars, commands>>

\* 401 and the like: not retried.
Rejected == Ready /\ ~Acceptable /\ Return("error") /\ UNCHANGED <<tokenVars, counts>>

\* Any other error: neither is that.
Refused == Ready /\ Disturb("error") /\ Return("error") /\ UNCHANGED <<tokenVars, commands>>

\* AccessToken fails: neither is that.
NoAccess ==
    /\ item # None /\ ~waiting
    /\ user[Daemon].at = "failed"
    /\ Return("error")
    /\ UNCHANGED <<tokenVars, counts>>

\* 429 or 5xx: a wait, after the last attempt too.
Busy ==
    /\ Ready
    /\ Disturb("busy")
    /\ waiting' = TRUE
    /\ UNCHANGED <<tokenVars, stage, left, item, tries, lists, channels, unlooked, clear, commands>>

\* Mutant of Again: the loop goes on with the token it has.
AgainSameToken ==
    /\ waiting /\ tries < Retries
    /\ tries' = tries + 1
    /\ waiting' = FALSE
    /\ UNCHANGED <<tokenVars, stage, left, item, lists, channels, unlooked, clear, counts>>

\* The next attempt, with a token of its own.
Again ==
    /\ waiting /\ tries < Retries
    /\ tries' = tries + 1
    /\ waiting' = FALSE
    /\ AccessToken(Daemon)
    /\ UNCHANGED <<stage, left, item, lists, channels, unlooked, clear, counts>>

GiveUp ==
    /\ waiting /\ tries = Retries
    /\ Return("error")
    /\ UNCHANGED <<tokenVars, counts>>

-----------------------------------------------------------------------------
(* The user and the time *)

others == <<stage, left, call, lists, channels, unlooked, clear>>

Command(u) ==
    /\ commands < MaxCommands
    /\ commands' = commands + 1
    /\ Login(u) \/ Logout(u) \/ AccessToken(u)   \* auth login, logout, status
    /\ UNCHANGED <<others, faults>>

Granted(u) == LoginGranted(u) /\ UNCHANGED <<others, counts>>

Shell(u) == Proceed(u) /\ UNCHANGED <<others, counts>>

\* Two minutes go by: in a wait, or between two runs.
Expiry ==
    /\ waiting \/ stage = "select"
    /\ TokensExpire
    /\ UNCHANGED <<others, counts>>

Trouble(u) ==
    \/ Disturb("token") /\ TokenFails(u) /\ UNCHANGED <<others, commands>>
    \/ /\ Disturb("emptyBody")
       /\ RefreshLost(u) \/ LoginLost(u)
       /\ UNCHANGED <<others, commands>>
    \/ /\ u \in Shells /\ user[u].at \notin Resting
       /\ Disturb("kill") /\ Kill(u) /\ UNCHANGED <<others, commands>>

-----------------------------------------------------------------------------
\* What the daemon does by itself in a run.
Work ==
    \/ Proceed(Daemon) /\ UNCHANGED <<others, counts>>
    \/ NextStage
    \/ \E t \in Include : SkipFolder(t)
    \/ \E i \in Items : Call(i)
    \/ Answered \/ Rejected \/ NoAccess \/ Again \/ GiveUp

Next ==
    \/ Tick \/ Signal \/ Run \/ Stop \/ Interrupt \/ Restart
    \/ Work
    \/ AddressesFail \/ FolderFails \/ AnsweredEmpty \/ Refused \/ Busy
    \/ \E u \in Shells : Command(u) \/ Granted(u) \/ Shell(u)
    \/ \E u \in Users : Trouble(u)
    \/ Expiry

Spec == Init /\ [][Next]_vars

\* The daemon goes on, its ticker ticks, a command that was started goes on, and
\* when a tick and a signal are there select takes either, at random.
Fairness ==
    /\ WF_vars(Work) /\ WF_vars(Tick) /\ WF_vars(Run)
    /\ SF_vars(Stop)
    /\ \A u \in Shells : WF_vars(Shell(u))
FairSpec == Spec /\ Fairness

-----------------------------------------------------------------------------
(* Properties *)

\* A folder is walked once a run, and an excluded one only if of every name that
\* excludes it the lookup of this run failed or lost its body, the empty id of such
\* an answer being a folder of its own.  (ResolveFolders passes over both, though by
\* its comment "excluded folders are never fetched".)
FoldersAsConfigured ==
    /\ \A s, t \in resolved : s.folder = t.folder => s = t
    /\ \A t \in resolved, x \in Exclude : t.folder = Folder[x] => x \in unlooked

\* No request carries a token that has expired, however long Retry-After had the
\* call wait, and one without a token is sent only by the attempt whose own refresh
\* lost the body of its answer.  (Client.do asks for a token in every attempt.)
TokensAreFresh ==
    Ready => \/ user[Daemon].token.access = "fresh"
             \/ user[Daemon].token.access = "none" /\ user[Daemon].saving

\* Both halves of the run come again and again, whatever fails, unless the daemon
\* is stopped.  (daemonCmd: failures "never abort the loop".)
KeepsRunning ==
    \A s \in {"exclude", "list"} : <>(stage = "stopped") \/ []<>(stage = s)

\* A signal stops the daemon, however late its runs are, unless it is killed first.
SignalStops == signal ~> (stage = "stopped" \/ ~signal)

\* From when on the token cache stays sound, with a refresh token in it, the daemon
\* completes runs in which every call succeeds: no failure is remembered, not even
\* an empty access token that was saved.  (Only a login gets over a file that is torn,
\* undecryptable or without a refresh token: from that on it is sound.)
Recovers ==
    <>[]((sound /\ file.token.refresh) \/ Daemon \in clean)
        => <>(stage = "stopped") \/ []<>(stage = "select" /\ clear)

=============================================================================
