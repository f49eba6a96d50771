------------------------- MODULE OutlookDaemonProofs -------------------------
(***************************************************************************)
(* Theorems about OutlookDaemon, and the token cache in it, for every set  *)
(* of processes, folders and calendars and every bound.                    *)
(***************************************************************************)
EXTENDS OutlookDaemon, TLAPS

-----------------------------------------------------------------------------
(* Types *)

LEMMA InitTyped == Init => TypeOK
<1> SUFFICES ASSUME Init PROVE TypeOK
  OBVIOUS
<1>1. TokenTypeOK
  <2>1. file \in Files
    <3>1. CASE file = Blank("none")
      BY <3>1 DEF Files, Token, Blank, NoToken
    <3>2. CASE \E a \in {"stale", "fresh"} :
                 file = [state |-> "sealed", key |-> 1,
                         token |-> [access |-> a, refresh |-> TRUE, granted |-> TRUE]]
      BY <3>2 DEF Files, Token
    <3> QED
      BY <3>1, <3>2 DEF Init, TokenInit
  <2>2. user \in [Users -> [at : Steps, saving : BOOLEAN, key : Nat, token : Token]]
    BY DEF Init, TokenInit, Token, NoToken, Idle, Steps
  <2> QED
    BY <2>1, <2>2 DEF Init, TokenInit, TokenTypeOK
<1>2. stage \in Stages /\ left \subseteq Items /\ item \in Items \cup {None}
      /\ tries \in 0 .. Retries
  BY DaemonAssumption DEF Init, Stages, Items
<1>3. /\ {waiting, looping, tick, signal, clear} \subseteq BOOLEAN
      /\ {faults, commands} \subseteq Nat
  <2>1. {waiting, looping, tick, signal, clear} \subseteq BOOLEAN
    BY Zenon DEF Init
  <2>2. {faults, commands} \subseteq Nat
    BY DEF Init
  <2> QED
    BY <2>1, <2>2
<1>4. excluded = {} /\ resolved = {} /\ unlooked = {} /\ ~waiting /\ stage = "exclude"
  BY DEF Init
<1> QED
  BY <1>1, <1>2, <1>3, <1>4 DEF TypeOK

\* What the token cache does, whoever the user.
TokenStep(u) ==
    \/ Proceed(u) \/ RefreshLost(u) \/ TokenFails(u) \/ AccessToken(u)
    \/ Login(u) \/ LoginGranted(u) \/ LoginLost(u)
    \/ Logout(u) \/ Kill(u) \/ TokensExpire

LEMMA FilesTyped ==
    ASSUME NEW f \in Files
    PROVE  f.state \in {"none", "torn", "sealed"} /\ f.key \in Nat /\ f.token \in Token
           /\ [f EXCEPT !.token = Expired(@)] \in Files
BY DEF Files, Token, Expired

LEMMA ExpiredTyped ==
    ASSUME NEW t \in Token
    PROVE  /\ Expired(t) \in Token
           /\ Expired(t).refresh = t.refresh /\ Expired(t).granted = t.granted
           /\ Expired(t).access = "none" <=> t.access = "none"
BY DEF Token, Expired

\* What a refresh and a login leave to be saved, whatever was answered.
LEMMA RefreshSaves ==
    ASSUME TokenTypeOK, NEW u \in Users, Refreshed(u) \/ RefreshLost(u)
    PROVE  /\ user[u].at = "exchange"
           /\ \E t \in Token :
                /\ user' = [user EXCEPT ![u].at = "getKey", ![u].saving = TRUE, ![u].token = t]
                /\ t.access \in {"none", "fresh"}
                /\ t.refresh \/ ~user[u].token.refresh
                /\ t.granted = user[u].token.granted
           /\ UNCHANGED <<cache, care>>
<1>1. PICK access \in {"none", "fresh"}, given \in BOOLEAN : Refresh(u, access, given)
  BY DEF Refreshed, RefreshLost
<1> DEFINE t == [user[u].token EXCEPT !.access = access,
                                      !.refresh = RefreshToken(given, user[u].token.refresh)]
<1>2. user[u].token \in Token
  BY DEF TokenTypeOK
<1>3. RefreshToken(given, user[u].token.refresh) \in BOOLEAN
  BY <1>2 DEF Token, RefreshToken
<1>4. /\ t \in Token /\ t.access = access /\ t.granted = user[u].token.granted
      /\ t.refresh = RefreshToken(given, user[u].token.refresh)
  BY <1>2, <1>3 DEF Token
<1>5. t.refresh \/ ~user[u].token.refresh
  BY <1>4, Zenon DEF RefreshToken
<1>6. user' = [user EXCEPT ![u].at = "getKey", ![u].saving = TRUE, ![u].token = t]
  BY <1>1 DEF Refresh
<1> HIDE DEF t
<1> QED
  BY <1>1, <1>4, <1>5, <1>6 DEF Refresh

LEMMA LoginSaves ==
    ASSUME NEW u \in Users, LoginGranted(u) \/ LoginLost(u)
    PROVE  /\ user[u].at = "poll"
           /\ \E t \in Token :
                /\ user' = [user EXCEPT ![u] = [at |-> "getKey", saving |-> TRUE, key |-> 0, token |-> t]]
                /\ t.granted => t.refresh
           /\ UNCHANGED <<cache, care>>
<1>1. PICK access \in {"none", "fresh"}, given \in BOOLEAN : Grant(u, access, given)
  BY DEF LoginGranted, LoginLost
<1> DEFINE t == [access |-> access, refresh |-> given, granted |-> given]
<1>2. t \in Token /\ (t.granted => t.refresh)
  BY DEF Token
<1>3. user' = [user EXCEPT ![u] = [at |-> "getKey", saving |-> TRUE, key |-> 0, token |-> t]]
  BY <1>1 DEF Grant
<1> HIDE DEF t
<1> QED
  BY <1>1, <1>2, <1>3 DEF Grant

LEMMA TokenTyped ==
    ASSUME TokenTypeOK, NEW u \in Users, TokenStep(u)
    PROVE  TokenTypeOK'
<1> USE DEF TokenTypeOK
<1>t. NoToken \in Token /\ Blank("torn") \in Files /\ Blank("none") \in Files
  BY DEF NoToken, Token, Blank, Files
<1>f. file.token \in Token /\ [file EXCEPT !.token = Expired(@)] \in Files
  BY FilesTyped
<1>1. CASE GetKey(u)
  <2>1. user' \in [Users -> [at : Steps, saving : BOOLEAN, key : Nat, token : Token]]
    <3> DEFINE a == IF keyring = 0 THEN "setKey" ELSE AfterKey(u)
    <3>1. a \in Steps /\ keyring \in Nat
      BY DEF AfterKey, Steps
    <3>2. user' = [user EXCEPT ![u].at = a, ![u].key = keyring]
      BY <1>1 DEF GetKey
    <3> HIDE DEF a
    <3> QED
      BY <3>1, <3>2
  <2> QED
    BY <1>1, <2>1 DEF GetKey, cache
<1>2. CASE SetKey(u)
  <2>1. user' \in [Users -> [at : Steps, saving : BOOLEAN, key : Nat, token : Token]]
    <3>1. AfterKey(u) \in Steps /\ made + 1 \in Nat
      BY DEF AfterKey, Steps
    <3>2. user' = [user EXCEPT ![u].at = AfterKey(u), ![u].key = made + 1]
      BY <1>2 DEF SetKey
    <3> QED
      BY <3>1, <3>2
  <2>2. {keyring, made}' \subseteq Nat
    BY <1>2 DEF SetKey
  <2> QED
    BY <1>2, <2>1, <2>2 DEF SetKey
<1>3. CASE Load(u)
  BY <1>3, <1>t, <1>f DEF Load, cache, care, Steps
<1>4. CASE Refreshed(u) \/ RefreshLost(u)
  <2>1. PICK t \in Token :
          /\ user' = [user EXCEPT ![u].at = "getKey", ![u].saving = TRUE, ![u].token = t]
          /\ t.access \in {"none", "fresh"}
          /\ t.refresh \/ ~user[u].token.refresh
          /\ t.granted = user[u].token.granted
    BY <1>4, RefreshSaves
  <2>2. user[u].at = "exchange" /\ UNCHANGED <<cache, care>>
    BY <1>4, RefreshSaves
  <2>3. user' \in [Users -> [at : Steps, saving : BOOLEAN, key : Nat, token : Token]]
    BY <2>1 DEF Steps
  <2> QED
    BY <2>2, <2>3 DEF cache, care
<1>5. CASE Truncate(u)
  BY <1>5, <1>t DEF Truncate, Step, Steps
<1>6. CASE Write(u)
  <2>1. file' \in Files
    BY <1>6, <1>t DEF Write, Files
  <2> QED
    BY <1>6, <2>1 DEF Write, Step, Steps
<1>7. CASE RemoveFile(u)
  BY <1>7, <1>t DEF RemoveFile, Step, Steps
<1>8. CASE TokenFails(u)
  BY <1>8 DEF TokenFails, Step, Steps
<1>9. CASE AccessToken(u)
  BY <1>9, <1>t DEF AccessToken, cache, care, Idle, Steps
<1>10. CASE Login(u)
  BY <1>10 DEF Login, Step, cache, care, Steps
<1>11. CASE LoginGranted(u) \/ LoginLost(u)
  <2>1. PICK t \in Token :
          user' = [user EXCEPT ![u] = [at |-> "getKey", saving |-> TRUE, key |-> 0, token |-> t]]
    BY <1>11, LoginSaves
  <2>2. user' \in [Users -> [at : Steps, saving : BOOLEAN, key : Nat, token : Token]]
    BY <2>1 DEF Steps
  <2> QED
    BY <1>11, LoginSaves, <2>2 DEF cache, care
<1>12. CASE Logout(u)
  <2>1. {keyring, made}' \subseteq Nat
    BY <1>12 DEF Logout
  <2> QED
    BY <1>12, <2>1 DEF Logout, Step, Steps
<1>13. CASE Kill(u)
  BY <1>13, <1>t DEF Kill, Idle, Steps
<1>14. CASE TokensExpire
  BY <1>14, <1>f, ExpiredTyped DEF TokensExpire, care
<1> QED
  BY <1>1, <1>2, <1>3, <1>4, <1>5, <1>6, <1>7, <1>8, <1>9, <1>10, <1>11, <1>12, <1>13, <1>14
  DEF TokenStep, Proceed

\* Every step of the daemon or of a shell is one of the token cache, or leaves it.
LEMMA TokenMoves ==
    ASSUME [Next]_vars
    PROVE  UNCHANGED tokenVars \/ \E u \in Users : TokenStep(u)
<1>d. Daemon \in Users /\ Shells \subseteq Users
  BY DaemonAssumption DEF Shells
<1>1. CASE UNCHANGED vars
  BY <1>1 DEF vars
<1>2. CASE Tick \/ Signal \/ Run \/ Stop \/ AddressesFail \/ FolderFails \/ Refused
           \/ AnsweredEmpty \/ Busy
  BY <1>2 DEF Tick, Signal, Run, Stop, AddressesFail, FolderFails, Refused, AnsweredEmpty, Busy
<1>3. CASE Interrupt \/ Restart
  BY <1>3, <1>d DEF Interrupt, Restart, TokenStep
<1>4. CASE Proceed(Daemon)
  BY <1>4, <1>d DEF TokenStep
<1>5. CASE NextStage \/ (\E t \in Include : SkipFolder(t)) \/ Answered \/ Rejected
           \/ NoAccess \/ GiveUp
  BY <1>5 DEF NextStage, SkipFolder, Answered, Rejected, NoAccess, GiveUp
<1>6. CASE (\E i \in Items : Call(i)) \/ Again
  BY <1>6, <1>d DEF Call, Again, TokenStep
<1>7. CASE \E u \in Shells : Command(u) \/ Granted(u) \/ Shell(u)
  BY <1>7, <1>d DEF Command, Granted, Shell, TokenStep
<1>8. CASE \E u \in Users : Trouble(u)
  BY <1>8, <1>d DEF Trouble, TokenStep
<1>9. CASE Expiry
  BY <1>9, <1>d DEF Expiry, TokenStep
<1> QED
  BY <1>1, <1>2, <1>3, <1>4, <1>5, <1>6, <1>7, <1>8, <1>9 DEF Next, Work

LEMMA TokenNext ==
    ASSUME TokenTypeOK, [Next]_vars
    PROVE  TokenTypeOK'
<1>1. CASE UNCHANGED tokenVars
  BY <1>1 DEF tokenVars, cache, care, TokenTypeOK
<1>2. ASSUME NEW u \in Users, TokenStep(u) PROVE TokenTypeOK'
  BY <1>2, TokenTyped
<1> QED
  BY <1>1, <1>2, TokenMoves

\* The part of TypeOK about the flags of the daemon.
FlagsTyped ==
    /\ waiting \in BOOLEAN /\ looping \in BOOLEAN
    /\ tick \in BOOLEAN /\ signal \in BOOLEAN
    /\ clear \in BOOLEAN

LEMMA ResultsAre == "ok" \in Results /\ "empty" \in Results /\ "error" \in Results
BY DEF Results

LEMMA FlagsNext ==
    ASSUME FlagsTyped, [Next]_vars
    PROVE  FlagsTyped'
<1> USE DEF FlagsTyped, channels, call
<1>1. CASE UNCHANGED vars
  BY <1>1, Zenon DEF vars
<1>2. CASE Tick \/ Signal \/ Run \/ Stop
  BY <1>2, Zenon DEF Tick, Signal, Run, Stop, Fresh
<1>3. CASE Interrupt \/ Restart
  BY <1>3, Zenon DEF Interrupt, Restart, Fresh
<1>4. ASSUME Select PROVE looping' \in BOOLEAN /\ tick' \in BOOLEAN /\ signal' \in BOOLEAN
  BY <1>4, Zenon DEF Select
<1>5. CASE NextStage
  BY <1>5, <1>4, Zenon DEF NextStage, MailEnds, GoOn
<1>6. CASE (\E t \in Include : SkipFolder(t)) \/ (\E i \in Items : Call(i))
  BY <1>6, Zenon DEF SkipFolder, Call
<1>7. ASSUME NEW result \in Results, Return(result) PROVE FlagsTyped'
  <2>1. waiting' \in BOOLEAN
    BY <1>7, Zenon DEF Return
  <2>2. clear' \in BOOLEAN
    BY <1>7, Zenon DEF Return
  <2>3. looping' \in BOOLEAN /\ tick' \in BOOLEAN /\ signal' \in BOOLEAN
    BY <1>7, <1>4, Zenon DEF Return, LookedUp, Resolve, Synced, Listed, Keep, GoOn
  <2> QED
    BY <2>1, <2>2, <2>3
<1>8. CASE Answered \/ AnsweredEmpty \/ Rejected \/ Refused \/ NoAccess \/ GiveUp
  BY <1>8, <1>7, ResultsAre, Zenon
  DEF Answered, AnsweredEmpty, Rejected, Refused, NoAccess, GiveUp
<1>9. CASE Again \/ Busy
  BY <1>9, Zenon DEF Again, Busy
<1>10. CASE AddressesFail \/ FolderFails
  BY <1>10, Zenon DEF AddressesFail, FolderFails, MailEnds, GoOn
<1>11. CASE UNCHANGED others
  BY <1>11, Zenon DEF others
<1>12. CASE Proceed(Daemon) /\ UNCHANGED <<others, counts>>
  BY <1>12, <1>11, Zenon
<1>13. CASE \E u \in Shells : Command(u) \/ Granted(u) \/ Shell(u)
  BY <1>13, <1>11, Zenon DEF Command, Granted, Shell
<1>14. CASE (\E u \in Users : Trouble(u)) \/ Expiry
  BY <1>14, <1>11, Zenon DEF Trouble, Expiry
<1> QED
  BY <1>1, <1>2, <1>3, <1>5, <1>6, <1>8, <1>9, <1>10, <1>12, <1>13, <1>14 DEF Next, Work

\* The rest of it, and where the items come from.
DaemonTyped ==
    /\ stage \in Stages
    /\ left \subseteq Items
    /\ item \in Items \cup {None}
    /\ tries \in 0 .. Retries
    /\ excluded \subseteq {Folder[t] : t \in Exclude} \cup {NoId}
    /\ resolved \subseteq [name : Include, folder : {Folder[t] : t \in Include} \cup {NoId}]
    /\ unlooked \subseteq Exclude
    /\ faults \in Nat /\ commands \in Nat
    /\ waiting => item # None
    /\ stage \in {"select", "stopped"} => item = None /\ left = {}
    /\ stage = "exclude" => left \cup {item} \subseteq Exclude \cup {None}
    /\ stage = "include" => item \in Include \cup {None} /\ left \subseteq Include

LEMMA DaemonNext ==
    ASSUME DaemonTyped, [Next]_vars
    PROVE  DaemonTyped'
<1> USE DEF DaemonTyped
<1>a. /\ Retries \in Nat /\ None \notin Items \ {"calendars"}
      /\ Include \subseteq Items /\ Exclude \subseteq Items /\ Calendars \subseteq Items
      /\ "calendars" \in Items
  BY DaemonAssumption DEF Items
<1>s. /\ {"select", "exclude", "include", "mail", "list", "calendar", "stopped"} = Stages
  BY DEF Stages
<1>1. CASE UNCHANGED vars
  BY <1>1 DEF vars, call, lists, channels, counts
<1>2. CASE Tick \/ Signal
  BY <1>2 DEF Tick, Signal, call, lists, counts
<1>3. CASE Run
  BY <1>3, <1>a, <1>s DEF Run, Fresh, call, counts
<1>4. CASE Stop
  BY <1>4, <1>s DEF Stop, call, lists, channels, counts
<1>5. CASE Interrupt
  BY <1>5, <1>a, <1>s DEF Interrupt, lists, channels, counts
<1>6. CASE Restart
  BY <1>6, <1>a, <1>s DEF Restart, Fresh, Disturb
<1>7. CASE NextStage
  <2>1. CASE stage = "exclude" /\ GoOn("include", Include)
    BY <1>7, <2>1, <1>a, <1>s DEF NextStage, GoOn, call, lists, channels, counts
  <2>2. CASE stage = "include" /\ GoOn("mail", {s.name : s \in resolved})
    <3>1. {s.name : s \in resolved} \subseteq Include
      OBVIOUS
    <3> QED
      BY <1>7, <2>2, <3>1, <1>a, <1>s DEF NextStage, GoOn, call, lists, channels, counts
  <2>3. CASE stage = "mail" /\ MailEnds
    BY <1>7, <2>3, <1>a, <1>s DEF NextStage, MailEnds, GoOn, call, lists, channels, counts
  <2>4. CASE stage = "calendar" /\ Select
    BY <1>7, <2>4, <1>a, <1>s DEF NextStage, Select, call, lists, counts
  <2> QED
    BY <1>7, <2>1, <2>2, <2>3, <2>4 DEF NextStage
<1>8. CASE \E t \in Include : SkipFolder(t)
  BY <1>8, <1>s DEF SkipFolder, call, lists, channels, counts
<1>9. CASE \E i \in Items : Call(i)
  BY <1>9, <1>a, <1>s DEF Call, lists, channels, counts
<1>10. ASSUME NEW result \in Results, item # None, Return(result), UNCHANGED commands,
              faults' \in Nat
       PROVE  DaemonTyped'
  <2>1. CASE LookedUp(result)
    BY <1>10, <2>1, <1>a, <1>s DEF Return, LookedUp, Found, Keep, channels
  <2>2. CASE Resolve(result)
    <3>1. item \in Include /\ Found(result) \in {Folder[t] : t \in Include} \cup {NoId}
      BY <1>10, <2>2 DEF Resolve, Found
    <3>2. resolved' \subseteq [name : Include, folder : {Folder[t] : t \in Include} \cup {NoId}]
      BY <2>2, <3>1 DEF Resolve
    <3> QED
      BY <1>10, <2>2, <3>2, <1>a, <1>s DEF Return, Resolve, Keep, channels
  <2>3. CASE Synced
    BY <1>10, <2>3, <1>a, <1>s DEF Return, Synced, Keep, channels, lists
  <2>4. CASE Listed(result)
    <3>1. \/ stage' = "calendar" /\ left' \subseteq Calendars
          \/ stage' = "select" /\ left' = {}
      BY <2>4 DEF Listed, GoOn, Select
    <3> QED
      BY <1>10, <2>4, <3>1, <1>a, <1>s DEF Return, Listed, lists
  <2> QED
    BY <1>10, <2>1, <2>2, <2>3, <2>4 DEF Return
<1>11. CASE Answered \/ AnsweredEmpty \/ Rejected \/ Refused
  <2>1. item # None /\ UNCHANGED commands /\ faults' \in Nat
    <3>1. item # None
      BY <1>11, Zenon DEF Answered, AnsweredEmpty, Rejected, Refused, Ready
    <3>2. (faults' = faults \/ faults' = faults + 1) /\ commands' = commands
      BY <1>11, Zenon DEF Answered, AnsweredEmpty, Rejected, Refused, Disturb, counts
    <3> QED
      BY <3>1, <3>2
  <2>2. \E result \in Results : Return(result)
    BY <1>11, ResultsAre DEF Answered, AnsweredEmpty, Rejected, Refused
  <2> QED
    BY <2>1, <2>2, <1>10
<1>12. CASE NoAccess \/ GiveUp
  BY <1>12, <1>10, ResultsAre DEF NoAccess, GiveUp, counts
<1>13. CASE Again
  BY <1>13, <1>a DEF Again, lists, channels, counts
<1>14. CASE Busy
  BY <1>14 DEF Busy, Ready, Disturb, lists, channels
<1>15. CASE AddressesFail
  BY <1>15, <1>a, <1>s DEF AddressesFail, Disturb, MailEnds, GoOn, call, lists, channels
<1>16. CASE FolderFails
  BY <1>16, <1>a, <1>s DEF FolderFails, Disturb, MailEnds, GoOn, lists, channels
<1>17. CASE UNCHANGED others /\ faults' \in Nat /\ commands' \in Nat
  BY <1>17 DEF others, call, lists, channels
<1>18. CASE Proceed(Daemon) /\ UNCHANGED <<others, counts>>
  BY <1>18, <1>17 DEF counts
<1>19. CASE \E u \in Shells : Command(u) \/ Granted(u) \/ Shell(u)
  BY <1>19, <1>17 DEF Command, Granted, Shell, counts
<1>20. CASE \E u \in Users : Trouble(u)
  BY <1>20, <1>17 DEF Trouble, Disturb
<1>21. CASE Expiry
  BY <1>21, <1>17 DEF Expiry, counts
<1> QED
  BY <1>1, <1>2, <1>3, <1>4, <1>5, <1>6, <1>7, <1>8, <1>9, <1>11, <1>12, <1>13, <1>14,
     <1>15, <1>16, <1>18, <1>19, <1>20, <1>21 DEF Next, Work

\* Types: the state of the loop and of the token cache is always well formed, and
\* no call is under way while the daemon waits at its select (daemonCmd, auth.go).
THEOREM TypeCorrect == Spec => []TypeOK
<1>1. Init => TokenTypeOK /\ FlagsTyped /\ DaemonTyped
  BY InitTyped, DaemonAssumption DEF Init, TypeOK, FlagsTyped, DaemonTyped
<1>2. TokenTypeOK /\ FlagsTyped /\ DaemonTyped /\ [Next]_vars
          => (TokenTypeOK /\ FlagsTyped /\ DaemonTyped)'
  BY TokenNext, FlagsNext, DaemonNext
<1>3. TokenTypeOK /\ FlagsTyped /\ DaemonTyped => TypeOK
  BY Zenon DEF FlagsTyped, DaemonTyped, TypeOK
<1> QED
  BY <1>1, <1>2, <1>3, PTL DEF Spec

-----------------------------------------------------------------------------
(* The token cache *)

\* Who refreshes has a refresh token, and who is about to save a token that goes back
\* to a login with a refresh token has one too.
RefreshInv ==
    /\ RefreshKept
    /\ \A u \in Users : user[u].at = "exchange" => user[u].token.refresh
    /\ \A u \in Users : user[u].saving /\ user[u].token.granted => user[u].token.refresh
    /\ \A u \in Users : user[u].at \in {"truncate", "write"} => user[u].saving

LEMMA RefreshStep ==
    ASSUME TokenTypeOK, RefreshInv, NEW u \in Users, TokenStep(u)
    PROVE  RefreshInv'
<1> USE DEF TokenTypeOK, RefreshInv, RefreshKept
<1>1. CASE GetKey(u)
  BY <1>1 DEF GetKey, cache, AfterKey
<1>2. CASE SetKey(u)
  BY <1>2 DEF SetKey, AfterKey
<1>3. CASE Load(u)
  BY <1>3 DEF Load, cache, care
<1>4. CASE Refreshed(u) \/ RefreshLost(u)
  <2>1. PICK t \in Token :
          /\ user' = [user EXCEPT ![u].at = "getKey", ![u].saving = TRUE, ![u].token = t]
          /\ t.access \in {"none", "fresh"}
          /\ t.refresh \/ ~user[u].token.refresh
          /\ t.granted = user[u].token.granted
    BY <1>4, RefreshSaves
  <2>2. user[u].at = "exchange" /\ UNCHANGED <<cache, care>>
    BY <1>4, RefreshSaves
  <2> QED
    BY <2>1, <2>2 DEF cache, care
<1>5. CASE Truncate(u)
  BY <1>5 DEF Truncate, Step, Blank
<1>6. CASE Write(u)
  BY <1>6 DEF Write, Step, Blank
<1>7. CASE RemoveFile(u)
  BY <1>7 DEF RemoveFile, Step, Blank
<1>8. CASE TokenFails(u)
  BY <1>8 DEF TokenFails, Step
<1>9. CASE AccessToken(u)
  BY <1>9 DEF AccessToken, cache, care, Idle
<1>10. CASE Login(u)
  BY <1>10 DEF Login, Step, cache, care
<1>11. CASE LoginGranted(u) \/ LoginLost(u)
  BY <1>11, LoginSaves DEF cache, care
<1>12. CASE Logout(u)
  BY <1>12 DEF Logout, Step
<1>13. CASE Kill(u)
  BY <1>13 DEF Kill, Idle
<1>14. CASE TokensExpire
  <2>1. file.token \in Token /\ \A v \in Users : user[v].token \in Token
    BY FilesTyped
  <2>2. /\ file' = [file EXCEPT !.token = Expired(file.token)]
        /\ user' = [v \in Users |-> [user[v] EXCEPT !.token = Expired(user[v].token)]]
    BY <1>14 DEF TokensExpire
  <2>3. file'.state = file.state /\ file'.token = Expired(file.token)
    BY <2>2 DEF Files
  <2>4. \A v \in Users : /\ user'[v].at = user[v].at /\ user'[v].saving = user[v].saving
                        /\ user'[v].token = Expired(user[v].token)
    BY <2>2
  <2> HIDE DEF TokenTypeOK
  <2> QED
    BY <2>1, <2>3, <2>4, ExpiredTyped
<1> QED
  BY <1>1, <1>2, <1>3, <1>4, <1>5, <1>6, <1>7, <1>8, <1>9, <1>10, <1>11, <1>12, <1>13, <1>14
  DEF TokenStep, Proceed

LEMMA RefreshNext ==
    ASSUME TokenTypeOK, RefreshInv, [Next]_vars
    PROVE  RefreshInv'
<1>1. CASE UNCHANGED tokenVars
  BY <1>1 DEF tokenVars, cache, RefreshInv, RefreshKept
<1>2. ASSUME NEW u \in Users, TokenStep(u) PROVE RefreshInv'
  BY <1>2, RefreshStep
<1> QED
  BY <1>1, <1>2, TokenMoves

LEMMA InitRefresh == Init => RefreshInv
BY DEF Init, TokenInit, RefreshInv, RefreshKept, Blank, Idle

\* No refresh loses the refresh token of a login that brought one, whatever the
\* endpoint answers and whoever else logs in, out or refreshes (AccessToken keeps the
\* old one).
THEOREM RefreshTokenKept == Spec => []RefreshKept
<1>1. Init => TokenTypeOK /\ RefreshInv
  BY InitTyped, InitRefresh DEF TypeOK
<1>2. TokenTypeOK /\ RefreshInv /\ [Next]_vars => (TokenTypeOK /\ RefreshInv)'
  BY TokenNext, RefreshNext
<1>3. RefreshInv => RefreshKept
  BY DEF RefreshInv
<1> QED
  BY <1>1, <1>2, <1>3, PTL DEF Spec

\* An undisturbed Save holds the key of the credential store, or makes the first
\* one, and once it has truncated the file nobody else is writing.
CacheInv ==
    /\ CacheSurvives
    /\ file.state = "sealed" => file.key # 0
    /\ \A u \in Users : user[u].at \in {"truncate", "write"} => user[u].key # 0
    /\ \A u \in clean :
         /\ user[u].saving
         /\ user[u].at \in {"setKey", "truncate", "write"}
         /\ user[u].at = "setKey" => keyring = 0
         /\ user[u].at # "setKey" => user[u].key = keyring
         /\ user[u].at = "write" => writers = {u} /\ file.state = "torn"

LEMMA CacheStep ==
    ASSUME TokenTypeOK, CacheInv, NEW u \in Users, TokenStep(u)
    PROVE  CacheInv'
<1> USE DEF TokenTypeOK, CacheInv, CacheSurvives, Usable
<1>1. CASE GetKey(u)
  BY <1>1 DEF GetKey, cache, AfterKey
<1>2. CASE SetKey(u)
  <2>1. sound' => sound /\ keyring = 0
    BY <1>2, Zenon DEF SetKey
  <2>2. ~sound'
    BY <2>1
  <2>3. keyring' = made + 1 /\ made + 1 # 0 /\ clean' \subseteq {u} /\ clean' \subseteq clean
        /\ user' = [user EXCEPT ![u].at = AfterKey(u), ![u].key = made + 1]
        /\ file' = file /\ writers' = writers
    BY <1>2 DEF SetKey
  <2> QED
    BY <1>2, <2>2, <2>3 DEF SetKey, AfterKey
<1>3. CASE Load(u)
  BY <1>3 DEF Load, cache, care
<1>4. CASE Refreshed(u) \/ RefreshLost(u)
  <2>1. PICK t \in Token :
          /\ user' = [user EXCEPT ![u].at = "getKey", ![u].saving = TRUE, ![u].token = t]
          /\ t.access \in {"none", "fresh"}
          /\ t.refresh \/ ~user[u].token.refresh
          /\ t.granted = user[u].token.granted
    BY <1>4, RefreshSaves
  <2>2. user[u].at = "exchange" /\ UNCHANGED <<cache, care>>
    BY <1>4, RefreshSaves
  <2> QED
    BY <2>1, <2>2 DEF cache, care
<1>5. CASE Truncate(u)
  BY <1>5 DEF Truncate, Step, Blank
<1>6. CASE Write(u)
  <2> DEFINE sealed == [state |-> "sealed", key |-> user[u].key, token |-> user[u].token]
  <2>1. /\ user[u].at = "write" /\ user' = [user EXCEPT ![u].at = "ok"]
        /\ writers' = writers \ {u} /\ clean' = clean \ {u} /\ keyring' = keyring
    BY <1>6 DEF Write, Step
  <2>2. file' \in {sealed, file, Blank("torn")}
    BY <1>6 DEF Write
  <2>3. u \in clean => file' = sealed
    BY <1>6 DEF Write
  <2>4. sound' => u \in clean
    BY <1>6, Zenon DEF Write
  <2>5. CacheSurvives'
    BY <2>1, <2>3, <2>4
  <2>6. file'.state = "sealed" => file'.key # 0
    BY <2>1, <2>2 DEF Blank
  <2>7. \A v \in Users : user'[v].at \in {"truncate", "write"} => user'[v].key # 0
    BY <2>1
  <2>8. \A v \in clean' : v \in clean /\ v # u /\ user'[v] = user[v]
    BY <2>1
  <2>9. \A v \in clean' : user'[v].at = "write" => writers' = {v} /\ file'.state = "torn"
    <3> SUFFICES ASSUME NEW v \in clean', user'[v].at = "write"
                 PROVE  writers' = {v} /\ file'.state = "torn"
      OBVIOUS
    <3>1. v # u /\ writers = {v} /\ file.state = "torn"
      BY <2>8
    <3>2. file' = file
      BY <1>6, <3>1 DEF Write
    <3> QED
      BY <3>1, <3>2, <2>1
  <2>10. QED
    BY <2>1, <2>5, <2>6, <2>7, <2>8, <2>9
<1>7. CASE RemoveFile(u)
  BY <1>7 DEF RemoveFile, Step, Blank
<1>8. CASE TokenFails(u)
  BY <1>8 DEF TokenFails, Step
<1>9. CASE AccessToken(u)
  BY <1>9 DEF AccessToken, cache, care, Idle, Resting
<1>10. CASE Login(u)
  BY <1>10 DEF Login, Step, cache, care, Resting
<1>11. CASE LoginGranted(u) \/ LoginLost(u)
  BY <1>11, LoginSaves DEF cache, care
<1>12. CASE Logout(u)
  BY <1>12 DEF Logout, Step
<1>13. CASE Kill(u)
  BY <1>13 DEF Kill, Idle
<1>14. CASE TokensExpire
  BY <1>14 DEF TokensExpire, care, Files
<1> QED
  BY <1>1, <1>2, <1>3, <1>4, <1>5, <1>6, <1>7, <1>8, <1>9, <1>10, <1>11, <1>12, <1>13, <1>14
  DEF TokenStep, Proceed

LEMMA CacheNext ==
    ASSUME TokenTypeOK, CacheInv, [Next]_vars
    PROVE  CacheInv'
<1>1. CASE UNCHANGED tokenVars
  BY <1>1 DEF tokenVars, cache, care, CacheInv, CacheSurvives, Usable
<1>2. ASSUME NEW u \in Users, TokenStep(u) PROVE CacheInv'
  BY <1>2, CacheStep
<1> QED
  BY <1>1, <1>2, TokenMoves

LEMMA InitCache == Init => CacheInv
<1> SUFFICES ASSUME Init PROVE CacheInv
  OBVIOUS
<1>1. /\ clean = {} /\ user = [u \in Users |-> Idle]
      /\ \/ keyring = 0 /\ file.state # "sealed"
         \/ keyring = 1 /\ file.state = "sealed" /\ file.key = 1
  BY DEF Init, TokenInit, Blank
<1>2. sound => keyring = 1
  BY Zenon DEF Init, TokenInit
<1> QED
  BY <1>1, <1>2 DEF CacheInv, CacheSurvives, Usable, Idle

\* The token of an undisturbed Save can be decrypted, for any number of processes
\* that look keys up, make them, write and remove the file in between.
THEOREM SavedTokenReadable == Spec => []CacheSurvives
<1>1. Init => TokenTypeOK /\ CacheInv
  BY InitTyped, InitCache DEF TypeOK
<1>2. TokenTypeOK /\ CacheInv /\ [Next]_vars => (TokenTypeOK /\ CacheInv)'
  BY TokenNext, CacheNext
<1>3. CacheInv => CacheSurvives
  BY DEF CacheInv
<1> QED
  BY <1>1, <1>2, <1>3, PTL DEF Spec

-----------------------------------------------------------------------------
(* The access token of a request *)

\* What the daemon holds between two waits has not expired: the only way to a
\* request or a Save is a fresh token or an answer that was lost, and tokens expire in
\* waits and at select.
FreshInv ==
    /\ user[Daemon].at \notin {"poll", "remove"}
    /\ user[Daemon].at = "read" => ~user[Daemon].saving
    /\ user[Daemon].at \in {"truncate", "write"} => user[Daemon].saving
    /\ item # None /\ ~waiting /\ (user[Daemon].at = "ok" \/ user[Daemon].saving)
         => \/ user[Daemon].token.access = "fresh"
            \/ user[Daemon].token.access = "none" /\ user[Daemon].saving

LEMMA FreshProceed ==
    ASSUME TokenTypeOK, FreshInv, Proceed(Daemon) \/ RefreshLost(Daemon),
           UNCHANGED <<item, waiting>>
    PROVE  FreshInv'
<1> USE DaemonAssumption DEF TokenTypeOK, FreshInv
<1>1. CASE GetKey(Daemon)
  BY <1>1 DEF GetKey, AfterKey
<1>2. CASE SetKey(Daemon)
  BY <1>2 DEF SetKey, AfterKey
<1>3. CASE Load(Daemon)
  BY <1>3 DEF Load
<1>4. CASE Refreshed(Daemon) \/ RefreshLost(Daemon)
  <2>1. PICK t \in Token :
          /\ user' = [user EXCEPT ![Daemon].at = "getKey", ![Daemon].saving = TRUE, ![Daemon].token = t]
          /\ t.access \in {"none", "fresh"}
          /\ t.refresh \/ ~user[Daemon].token.refresh
          /\ t.granted = user[Daemon].token.granted
    BY <1>4, RefreshSaves
  <2>2. user[Daemon].at = "exchange" /\ UNCHANGED <<cache, care>>
    BY <1>4, RefreshSaves
  <2> QED
    BY <2>1, <2>2
<1>5. CASE Truncate(Daemon)
  BY <1>5 DEF Truncate, Step
<1>6. CASE Write(Daemon)
  BY <1>6 DEF Write, Step
<1>7. CASE RemoveFile(Daemon)
  BY <1>7 DEF RemoveFile
<1> QED
  BY <1>1, <1>2, <1>3, <1>4, <1>5, <1>6, <1>7 DEF Proceed

\* A shell does not touch the memory of the daemon.
LEMMA ShellsApart ==
    ASSUME TokenTypeOK, NEW u \in Shells,
           Proceed(u) \/ RefreshLost(u) \/ TokenFails(u) \/ AccessToken(u)
           \/ Login(u) \/ LoginGranted(u) \/ LoginLost(u) \/ Logout(u) \/ Kill(u)
    PROVE  user'[Daemon] = user[Daemon]
<1>1. u # Daemon /\ user \in [Users -> [at : Steps, saving : BOOLEAN, key : Nat, token : Token]]
  BY DEF Shells, TokenTypeOK
<1>2. \E r : user' = [user EXCEPT ![u] = r]
  BY <1>1 DEF Proceed, GetKey, SetKey, Load, Refreshed, RefreshLost, Refresh, Truncate, Write,
       RemoveFile, TokenFails, AccessToken, Login, LoginGranted, LoginLost, Grant, Logout, Kill, Step
<1> QED
  BY <1>1, <1>2, DaemonAssumption

LEMMA FreshNext ==
    ASSUME TokenTypeOK, DaemonTyped, FreshInv, [Next]_vars
    PROVE  FreshInv'
<1> USE DEF FreshInv
<1>u. user \in [Users -> [at : Steps, saving : BOOLEAN, key : Nat, token : Token]]
  BY DEF TokenTypeOK
<1>1. ASSUME user' = user, item' = None \/ waiting' \/ (item' = item /\ waiting' = waiting)
      PROVE  FreshInv'
  BY <1>1
<1>2. CASE UNCHANGED vars
  BY <1>2, <1>1, Zenon DEF vars, tokenVars, call
<1>3. CASE Tick \/ Signal \/ Run \/ Stop \/ AddressesFail \/ Busy
  BY <1>3, <1>1, Zenon DEF Tick, Signal, Run, Stop, AddressesFail, Busy, call, tokenVars
<1>4. CASE NextStage \/ (\E t \in Include : SkipFolder(t))
  BY <1>4, <1>1, Zenon DEF NextStage, SkipFolder, call, tokenVars
<1>5. CASE FolderFails \/ Refused \/ Answered \/ AnsweredEmpty \/ Rejected \/ NoAccess \/ GiveUp
  BY <1>5, <1>1, Zenon
  DEF FolderFails, Refused, Answered, AnsweredEmpty, Rejected, NoAccess, GiveUp, Return, tokenVars
<1>6. CASE Interrupt \/ Restart
  <2>1. item' = None /\ user' = [user EXCEPT ![Daemon] = Idle]
    BY <1>6 DEF Interrupt, Restart, Kill
  <2> QED
    BY <2>1, <1>u, DaemonAssumption DEF Idle
<1>7. CASE Proceed(Daemon) /\ UNCHANGED <<others, counts>>
  BY <1>7, FreshProceed DEF others, call
<1>8. CASE (\E i \in Items : Call(i)) \/ Again
  <2>1. user' = [user EXCEPT ![Daemon] = [Idle EXCEPT !.at = "getKey"]]
    BY <1>8 DEF Call, Again, AccessToken
  <2> QED
    BY <2>1, <1>u, DaemonAssumption DEF Idle
<1>9. ASSUME user'[Daemon] = user[Daemon], UNCHANGED others PROVE FreshInv'
  BY <1>9 DEF others, call
<1>10. ASSUME NEW u \in Shells, Command(u) \/ Granted(u) \/ Shell(u) PROVE FreshInv'
  BY <1>10, <1>9, ShellsApart DEF Command, Granted, Shell
<1>11. ASSUME NEW u \in Users, Trouble(u) PROVE FreshInv'
  <2>1. CASE u \in Shells
    BY <2>1, <1>11, <1>9, ShellsApart DEF Trouble
  <2>2. CASE u = Daemon
    <3>1. CASE RefreshLost(Daemon) /\ UNCHANGED others
      BY <3>1, FreshProceed DEF others, call
    <3>2. CASE user' = [user EXCEPT ![Daemon].at = "failed"] /\ UNCHANGED others
      BY <3>2, <1>u, DaemonAssumption DEF others, call
    <3> QED
      BY <2>2, <1>11, <3>1, <3>2 DEF Trouble, Shells, TokenFails, Step, LoginLost, Grant
  <2> QED
    BY <2>1, <2>2 DEF Shells
<1>12. CASE Expiry
  <2>1. item = None \/ waiting
    BY <1>12 DEF Expiry, DaemonTyped
  <2>2. user' = [u \in Users |-> [user[u] EXCEPT !.token = Expired(@)]] /\ UNCHANGED others
    BY <1>12 DEF Expiry, TokensExpire
  <2>3. user'[Daemon].at = user[Daemon].at /\ user'[Daemon].saving = user[Daemon].saving
    BY <2>2, <1>u, DaemonAssumption
  <2> QED
    BY <2>1, <2>2, <2>3 DEF others, call
<1> QED
  BY <1>2, <1>3, <1>4, <1>5, <1>6, <1>7, <1>8, <1>10, <1>11, <1>12 DEF Next, Work

LEMMA InitFresh == Init => FreshInv
BY DaemonAssumption DEF Init, TokenInit, FreshInv, Idle

\* No request carries an expired token, however often the call was retried and however
\* long it waited, and one carries none only in the attempt whose refresh lost its
\* answer (Client.do asks for a token per attempt).
THEOREM RequestsAreFresh == Spec => []TokensAreFresh
<1>1. Init => TokenTypeOK /\ DaemonTyped /\ FreshInv
  BY InitTyped, InitFresh, DaemonAssumption DEF Init, TypeOK, DaemonTyped
<1>2. TokenTypeOK /\ DaemonTyped /\ FreshInv /\ [Next]_vars
          => (TokenTypeOK /\ DaemonTyped /\ FreshInv)'
  BY TokenNext, DaemonNext, FreshNext
<1>3. FreshInv => TokensAreFresh
  BY DEF FreshInv, TokensAreFresh, Ready
<1> QED
  BY <1>1, <1>2, <1>3, PTL DEF Spec

-----------------------------------------------------------------------------
(* The folders of a run *)

Looked(x) == Folder[x] \in excluded \/ x \in unlooked

\* The include list begins when every name of the exclude list has been looked up.
FoldersInv ==
    /\ \A s, t \in resolved : s.folder = t.folder => s = t
    /\ \A t \in resolved : t.folder \notin excluded
    /\ stage = "exclude" => resolved = {} /\ \A x \in Exclude \ (left \cup {item}) : Looked(x)
    /\ stage = "include" => \A x \in Exclude : Looked(x)
    /\ resolved # {} => \A x \in Exclude : Looked(x)

LEMMA FoldersNext ==
    ASSUME DaemonTyped, FoldersInv, [Next]_vars
    PROVE  FoldersInv'
<1> USE DEF FoldersInv, Looked
<1>1. ASSUME UNCHANGED <<excluded, resolved, unlooked>>,
             stage' = "exclude" => stage = "exclude" /\ left \cup {item} \subseteq (left \cup {item})',
             stage' = "include" => stage = "include"
      PROVE  FoldersInv'
  BY <1>1
<1>2. CASE UNCHANGED vars
  BY <1>2, <1>1 DEF vars, lists, call
<1>3. CASE Tick \/ Signal \/ Stop \/ AddressesFail \/ Busy
  BY <1>3, <1>1 DEF Tick, Signal, Stop, AddressesFail, Busy, Ready, MailEnds, GoOn, lists, call
<1>4. CASE Interrupt
  BY <1>4, <1>1 DEF Interrupt, lists
<1>5. CASE Run \/ Restart
  BY <1>5 DEF Run, Restart, Fresh
<1>6. CASE NextStage
  <2>1. UNCHANGED <<excluded, resolved, unlooked>> /\ item = None /\ left = {} /\ None \notin Exclude
    BY <1>6, DaemonAssumption DEF NextStage, lists
  <2>2. \/ stage = "exclude" /\ stage' = "include"
        \/ stage' \notin {"exclude", "include"}
    BY <1>6 DEF NextStage, MailEnds, Select, GoOn
  <2>3. CASE stage = "exclude" /\ stage' = "include"
    BY <2>1, <2>3
  <2>4. CASE stage' \notin {"exclude", "include"}
    BY <2>1, <2>4, <1>1
  <2> QED
    BY <2>2, <2>3, <2>4
<1>7. CASE \E t \in Include : SkipFolder(t)
  BY <1>7, <1>1 DEF SkipFolder, lists
<1>8. CASE \E i \in Items : Call(i)
  <2>1. PICK i \in Items : Call(i)
    BY <1>8
  <2>2. left \cup {item} \subseteq (left \cup {item})' \cup {None} /\ None \notin Exclude
    BY <2>1, DaemonAssumption DEF Call
  <2>3. UNCHANGED <<excluded, resolved, unlooked, stage>>
    BY <2>1 DEF Call, lists
  <2> QED
    BY <2>2, <2>3
<1>9. ASSUME NEW result \in Results, Return(result) PROVE FoldersInv'
  <2>1. CASE LookedUp(result)
    BY <1>9, <2>1 DEF Return, LookedUp, Found, Results, Keep
  <2>2. CASE Resolve(result)
    BY <1>9, <2>2 DEF Return, Resolve, Keep, Walked
  <2>3. CASE Synced
    BY <1>9, <2>3, <1>1 DEF Return, Synced, Keep, lists
  <2>4. CASE Listed(result)
    <3>1. stage' \in {"calendar", "select"}
      BY <2>4 DEF Listed, GoOn, Select
    <3> QED
      BY <2>4, <3>1, <1>1 DEF Listed, lists
  <2> QED
    BY <1>9, <2>1, <2>2, <2>3, <2>4 DEF Return
<1>10. CASE Answered \/ AnsweredEmpty \/ Rejected \/ Refused \/ NoAccess \/ GiveUp
  BY <1>10, <1>9, ResultsAre DEF Answered, AnsweredEmpty, Rejected, Refused, NoAccess, GiveUp
<1>11. CASE FolderFails
  BY <1>11, <1>1 DEF FolderFails, MailEnds, GoOn, lists
<1>12. CASE Again
  BY <1>12, <1>1 DEF Again, lists
<1>13. CASE UNCHANGED others
  BY <1>13, <1>1 DEF others, lists, call
<1>14. CASE Proceed(Daemon) /\ UNCHANGED <<others, counts>>
  BY <1>14, <1>13
<1>15. CASE \E u \in Shells : Command(u) \/ Granted(u) \/ Shell(u)
  BY <1>15, <1>13 DEF Command, Granted, Shell
<1>16. CASE (\E u \in Users : Trouble(u)) \/ Expiry
  BY <1>16, <1>13 DEF Trouble, Expiry
<1> QED
  BY <1>2, <1>3, <1>4, <1>5, <1>6, <1>7, <1>8, <1>10, <1>11, <1>12, <1>14, <1>15, <1>16
  DEF Next, Work

LEMMA InitFolders == Init => FoldersInv
BY DEF Init, FoldersInv, Looked

\* No run walks a folder twice, and an excluded one only if the lookup of every name
\* that excludes it failed or lost its body, for any configuration (ResolveFolders).
THEOREM ConfiguredFolders == Spec => []FoldersAsConfigured
<1>1. Init => DaemonTyped /\ FoldersInv
  BY InitTyped, InitFolders, DaemonAssumption DEF Init, TypeOK, DaemonTyped
<1>2. DaemonTyped /\ FoldersInv /\ [Next]_vars => (DaemonTyped /\ FoldersInv)'
  BY DaemonNext, FoldersNext
<1>3. FoldersInv => FoldersAsConfigured
  BY DEF FoldersInv, FoldersAsConfigured, Looked
<1> QED
  BY <1>1, <1>2, <1>3, PTL DEF Spec

=============================================================================
