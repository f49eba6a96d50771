----------------------------- MODULE TokenCache -----------------------------
(***************************************************************************)
(* internal/auth/auth.go: the token cache that the processes of one user   *)
(* share, a file sealed with a key of the OS credential store.  Nothing    *)
(* locks either: a key is looked up and made in two steps, the file is     *)
(* truncated and written in two steps, Logout deletes the key and then the *)
(* file.                                                                   *)
(***************************************************************************)
EXTENDS Integers, FiniteSets

CONSTANT Users   \* the processes

VARIABLES
    keyring,   \* the key in the credential store, 0 for none
    made,      \* keys made so far
    file,      \* token.cache
    writers,   \* users that have this file open for writing
    user,      \* what each process is doing
    clean,     \* history: users whose Save nobody has disturbed so far
    sound      \* history: nobody has disturbed the last Save

cache == <<keyring, made, file, writers>>
care == <<clean, sound>>
tokenVars == <<cache, user, care>>

\* Whether there is an access token and it is good for two minutes more, whether
\* there is a refresh token; history: whether the login it goes back to brought one.
Token == [access : {"none", "stale", "fresh"}, refresh : BOOLEAN, granted : BOOLEAN]
NoToken == [access |-> "none", refresh |-> FALSE, granted |-> FALSE]

Expired(t) == [t EXCEPT !.access = IF @ = "fresh" THEN "stale" ELSE @]

Blank(state) == [state |-> state, key |-> 0, token |-> NoToken]

\* "torn" is whatever decrypt refuses.
Files == [state : {"none", "torn", "sealed"}, key : Nat, token : Token]

Steps == {"idle", "ok", "failed",   \* not in this module; the last call's result
          "getKey", "setKey", "read", "exchange", "truncate", "write", "poll", "remove"}
Resting == {"idle", "ok", "failed"}
Idle == [at |-> "idle", saving |-> FALSE, key |-> 0, token |-> NoToken]

TokenTypeOK ==
    /\ {keyring, made} \subseteq Nat
    /\ file \in Files
    /\ writers \subseteq Users
    /\ user \in [Users -> [at : Steps, saving : BOOLEAN, key : Nat, token : Token]]
    /\ clean \subseteq Users
    /\ sound \in BOOLEAN

\* Nobody has ever logged in, or somebody has, some time ago.
TokenInit ==
    /\ \/ keyring = 0 /\ file = Blank("none")
       \/ /\ keyring = 1
          /\ \E a \in {"stale", "fresh"} :
               file = [state |-> "sealed", key |-> 1,
                       token |-> [access |-> a, refresh |-> TRUE, granted |-> TRUE]]
    /\ made = keyring
    /\ writers = {}
    /\ user = [u \in Users |-> Idle]
    /\ clean = {}
    /\ sound = (keyring = 1)

Step(u, at) == user' = [user EXCEPT ![u].at = at]

\* decrypt succeeds.
Usable == file.state = "sealed" /\ file.key = keyring

-----------------------------------------------------------------------------
(* key *)

AfterKey(u) == IF user[u].saving THEN "truncate" ELSE "read"

\* keyring.Get
GetKey(u) ==
    /\ user[u].at = "getKey"
    /\ user' = [user EXCEPT ![u].at = IF keyring = 0 THEN "setKey" ELSE AfterKey(u),
                            ![u].key = keyring]
    /\ clean' = IF user[u].saving THEN clean \cup {u} ELSE clean
    /\ UNCHANGED <<cache, sound>>

\* Mutant of SetKey: the new key is used and not stored.
UseKey(u) ==
    /\ user[u].at = "setKey"
    /\ made' = made + 1
    /\ user' = [user EXCEPT ![u].at = AfterKey(u), ![u].key = made + 1]
    /\ UNCHANGED <<keyring, file, writers, care>>

\* keyring.Set, whatever is there by now.
SetKey(u) ==
    /\ user[u].at = "setKey"
    /\ made' = made + 1
    /\ keyring' = made + 1
    /\ user' = [user EXCEPT ![u].at = AfterKey(u), ![u].key = made + 1]
    /\ clean' = clean \cap {u}
    /\ sound' = (sound /\ keyring = 0)
    /\ UNCHANGED <<file, writers>>

-----------------------------------------------------------------------------
(* Load and AccessToken *)

AccessToken(u) ==
    /\ user[u].at \in Resting
    /\ user' = [user EXCEPT ![u] = [Idle EXCEPT !.at = "getKey"]]
    /\ UNCHANGED <<cache, care>>

\* Mutant of Load: a token that has expired is an error.
LoadFresh(u) ==
    /\ user[u].at = "read"
    /\ user' = [user EXCEPT
         ![u].token = IF file.state = "sealed" THEN file.token ELSE NoToken,
         ![u].at = IF file.state = "sealed" /\ file.key = user[u].key
                      /\ file.token.access = "fresh" THEN "ok" ELSE "failed"]
    /\ UNCHANGED <<cache, care>>

\* The cached token is good for two minutes more, or there is a refresh token.
Load(u) ==
    /\ user[u].at = "read"
    /\ user' = [user EXCEPT
         ![u].token = IF file.state = "sealed" THEN file.token ELSE NoToken,
         ![u].at = IF file.state # "sealed" \/ file.key # user[u].key THEN "failed"
                   ELSE IF file.token.access = "fresh" THEN "ok"
                   ELSE IF file.token.refresh THEN "exchange" ELSE "failed"]
    /\ UNCHANGED <<cache, care>>

\* Mutant of RefreshToken: only what the answer brought.
RefreshGiven(given, old) == given

\* An answer without a refresh token leaves the old one in use.
RefreshToken(given, old) == given \/ old

\* What exchange returned is saved, with the old refresh token if it has none.
Refresh(u, access, given) ==
    /\ user[u].at = "exchange"
    /\ user' = [user EXCEPT
         ![u].at = "getKey", ![u].saving = TRUE,
         ![u].token.access = access,
         ![u].token.refresh = RefreshToken(given, user[u].token.refresh)]
    /\ UNCHANGED <<cache, care>>

Refreshed(u) == \E given \in BOOLEAN : Refresh(u, "fresh", given)

\* exchange: a 2xx answer whose body is lost is a token of empty strings that has
\* expired, and no error.
RefreshLost(u) == Refresh(u, "none", FALSE)

\* The credential store, the file system or the token endpoint fails.
TokenFails(u) ==
    /\ user[u].at \notin Resting
    /\ Step(u, "failed")
    /\ writers' = writers \ {u}
    /\ clean' = clean \ {u}
    /\ UNCHANGED <<keyring, made, file, sound>>

-----------------------------------------------------------------------------
(* Save: os.WriteFile truncates the file, then writes it *)

Truncate(u) ==
    /\ user[u].at = "truncate"
    /\ Step(u, "write")
    /\ file' = Blank("torn")
    /\ writers' = writers \cup {u}
    /\ clean' = IF writers = {} THEN clean ELSE clean \ (writers \cup {u})
    /\ sound' = FALSE
    /\ UNCHANGED <<keyring, made>>

\* Over what another process wrote meanwhile the shorter text leaves a rest of the
\* longer one; what is written to a removed file is gone.
Write(u) ==
    /\ user[u].at = "write"
    /\ Step(u, "ok")
    /\ LET sealed == [state |-> "sealed", key |-> user[u].key, token |-> user[u].token] IN
         IF u \in writers
         THEN file' \in {sealed} \cup (IF file.state = "sealed" THEN {Blank("torn")} ELSE {})
         ELSE UNCHANGED file
    /\ writers' = writers \ {u}
    /\ clean' = clean \ {u}
    /\ sound' = (u \in clean)
    /\ UNCHANGED <<keyring, made>>

-----------------------------------------------------------------------------
(* Login and Logout *)

\* The device code is shown, and polled until the user has entered it.
Login(u) ==
    /\ user[u].at \in Resting
    /\ Step(u, "poll")
    /\ UNCHANGED <<cache, care>>

\* Whatever exchange returned is saved, and that is a login.
Grant(u, access, given) ==
    /\ user[u].at = "poll"
    /\ user' = [user EXCEPT
         ![u] = [at |-> "getKey", saving |-> TRUE, key |-> 0,
                 token |-> [access |-> access, refresh |-> given, granted |-> given]]]
    /\ UNCHANGED <<cache, care>>

LoginGranted(u) == \E given \in BOOLEAN : Grant(u, "fresh", given)

\* The body of the answer is lost: a login without any token.
LoginLost(u) == Grant(u, "none", FALSE)

\* The key is deleted, or that fails and is ignored.
Logout(u) ==
    /\ user[u].at \in Resting
    /\ Step(u, "remove")
    /\ keyring' \in {0, keyring}
    /\ clean' = {}
    /\ sound' = FALSE
    /\ UNCHANGED <<made, file, writers>>

RemoveFile(u) ==
    /\ user[u].at = "remove"
    /\ Step(u, "ok")
    /\ file' = Blank("none")
    /\ writers' = {}
    /\ clean' = clean \ writers
    /\ sound' = FALSE
    /\ UNCHANGED <<keyring, made>>

-----------------------------------------------------------------------------
\* A call goes on by itself.
Proceed(u) ==
    \/ GetKey(u) \/ SetKey(u) \/ Load(u) \/ Refreshed(u)
    \/ Truncate(u) \/ Write(u) \/ RemoveFile(u)

\* The process is killed; the file stays as it is.
Kill(u) ==
    /\ user' = [user EXCEPT ![u] = Idle]
    /\ writers' = writers \ {u}
    /\ clean' = clean \ {u}
    /\ UNCHANGED <<keyring, made, file, sound>>

\* Every access token handed out so far expires.
TokensExpire ==
    /\ file' = [file EXCEPT !.token = Expired(@)]
    /\ user' = [u \in Users |-> [user[u] EXCEPT !.token = Expired(@)]]
    /\ UNCHANGED <<keyring, made, writers, care>>

-----------------------------------------------------------------------------
\* The token of a Save that no other key, Save or Logout came across can be
\* decrypted, until the next Save, Logout, or a key made by a process that looked
\* for one before.  (key, Save, Logout: none of them locks anything.)
CacheSurvives == sound => Usable

\* No refresh loses the refresh token of a login that brought one, whatever the
\* answers lacked and whoever else saved a token meanwhile.  (AccessToken keeps the
\* old one when the answer has none.)
RefreshKept == file.state = "sealed" /\ file.token.granted => file.token.refresh

=============================================================================
