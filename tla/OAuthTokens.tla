---------------------------- MODULE OAuthTokens ----------------------------
(***************************************************************************)
(* Delegated access tokens (oauth.py): device-code logins that poll the    *)
(* identity service and publish a token file, and the threads of a         *)
(* connector that read it through an InMemoryTokenCache.  The directory    *)
(* the token path names may be moved away and made anew at any time.       *)
(***************************************************************************)
EXTENDS Integers

CONSTANTS
  Logins,         \* processes of the command oauth device-code
  Threads,        \* threads sharing one token cache
  Skew,           \* refresh_skew_seconds
  Lifetime,       \* expires_in of a token
  ChallengeLife,  \* expires_in of a device code
  LastStart,      \* bound: no login starts after this instant
  MaxClock,       \* bound of the clock
  NoToken

\* What the constants are.
OAuthAssumption ==
  /\ {Skew, Lifetime, ChallengeLife, LastStart, MaxClock} \subseteq Nat
  /\ Skew < Lifetime
  /\ NoToken \notin Nat

Dirs == {1, 2}
Token == [by : Logins, exp : Nat]

VARIABLES
  clock,
  named,    \* the directory the path names
  file,     \* the token file of each directory
  login,    \* the state of each login
  cache,    \* InMemoryTokenCache._token
  lock,     \* InMemoryTokenCache._lock
  thread    \* the state of each thread

vars == <<clock, named, file, login, cache, lock, thread>>

NewLogin == [pc |-> "idle", expires |-> 0, interval |-> 1, wake |-> 0,
             dir |-> 1, token |-> NoToken, error |-> FALSE, moved |-> FALSE]

OAuthInit ==
  /\ clock = 0
  /\ named = 1
  /\ file = [d \in Dirs |-> NoToken]
  /\ login = [l \in Logins |-> NewLogin]
  /\ cache = NoToken
  /\ lock = NoToken
  /\ thread = [t \in Threads |-> [pc |-> "idle", dir |-> 1, token |-> NoToken]]

IsValid(token, skew) == token # NoToken /\ clock + skew < token.exp

-----------------------------------------------------------------------------
(* EntraDeviceCodeProvider: start, then poll until an answer or expiry. *)

StartLogin(l) ==
  /\ login[l].pc = "idle"
  /\ clock <= LastStart
  /\ \/ login' = [login EXCEPT ![l].pc = "poll", ![l].expires = clock + ChallengeLife]
     \/ login' = [login EXCEPT ![l].pc = "failed"]
  /\ UNCHANGED <<clock, named, file, cache, lock, thread>>

Polling(l) == login[l].pc = "poll" /\ clock < login[l].expires

\* The user has authenticated: the response carries a token.
PollGrants(l) ==
  /\ Polling(l)
  /\ login' = [login EXCEPT ![l].pc = "open", ![l].token = [by |-> l, exp |-> clock + Lifetime]]
  /\ UNCHANGED <<clock, named, file, cache, lock, thread>>

\* authorization_pending sleeps the interval, slow_down a longer one.
PollWaits(l) ==
  /\ Polling(l)
  /\ \E i \in {login[l].interval, login[l].interval + 1} :
       login' = [login EXCEPT ![l].pc = "asleep", ![l].interval = i, ![l].wake = clock + i]
  /\ UNCHANGED <<clock, named, file, cache, lock, thread>>

\* Declined, expired at the service, or any other answer.
PollRefused(l) ==
  /\ Polling(l)
  /\ login' = [login EXCEPT ![l].pc = "failed"]
  /\ UNCHANGED <<clock, named, file, cache, lock, thread>>

Wake(l) ==
  /\ login[l].pc = "asleep"
  /\ clock >= login[l].wake
  /\ login' = [login EXCEPT ![l].pc = "poll"]
  /\ UNCHANGED <<clock, named, file, cache, lock, thread>>

\* Faulty variant: the loop does not look at the challenge's own expiry.
PollsOnAfterExpiry(l) == FALSE /\ UNCHANGED vars

\* The loop ends at the challenge's expiry.
ChallengeExpired(l) ==
  /\ login[l].pc = "poll"
  /\ clock >= login[l].expires
  /\ login' = [login EXCEPT ![l].pc = "failed"]
  /\ UNCHANGED <<clock, named, file, cache, lock, thread>>

-----------------------------------------------------------------------------
(* write_token_file: pin the directory, write a temporary file, replace. *)

OpenDirectory(l) ==
  /\ login[l].pc = "open"
  /\ login' = [login EXCEPT ![l].pc = "stage", ![l].dir = named]
  /\ UNCHANGED <<clock, named, file, cache, lock, thread>>

\* The temporary file is durable; a moved directory, or a call that fails up
\* to the replacement, ends the write here.
StageToken(l) ==
  /\ login[l].pc = "stage"
  /\ \/ named = login[l].dir /\ login' = [login EXCEPT ![l].pc = "install"]
     \/ login' = [login EXCEPT ![l].pc = "failed"]
  /\ UNCHANGED <<clock, named, file, cache, lock, thread>>

InstallToken(l) ==
  /\ login[l].pc = "install"
  /\ file' = [file EXCEPT ![login[l].dir] = login[l].token]
  /\ login' = [login EXCEPT ![l].pc = "recheck"]
  /\ UNCHANGED <<clock, named, cache, lock, thread>>

\* The installed file is opened and its type and mode are looked at, the
\* directory is synced, and the path is compared: each may raise.
RecheckDirectory(l) ==
  /\ login[l].pc = "recheck"
  /\ \E raised \in {named # login[l].dir, TRUE} :
       login' = [login EXCEPT ![l].pc = "finally", ![l].error = raised]
  /\ UNCHANGED <<clock, named, file, cache, lock, thread>>

Ended(l) == IF login[l].error THEN "failed" ELSE "done"

\* The finally clause withdraws a token installed in a directory the path no
\* longer names, also when the write itself raised nothing.
WithdrawMoved(l) ==
  /\ login[l].pc = "finally"
  /\ file' = IF named = login[l].dir THEN file ELSE [file EXCEPT ![login[l].dir] = NoToken]
  /\ login' = [login EXCEPT ![l].pc = Ended(l)]
  /\ UNCHANGED <<clock, named, cache, lock, thread>>

\* The unlink in the finally clause is itself refused: only a file that is
\* gone already is passed over.
WithdrawRefused(l) ==
  /\ login[l].pc = "finally"
  /\ login' = [login EXCEPT ![l].pc = "refused"]
  /\ UNCHANGED <<clock, named, file, cache, lock, thread>>

\* The process is killed at any point of its way.
Kill(l) ==
  /\ login[l].pc \notin {"idle", "done", "failed", "refused", "killed"}
  /\ login' = [login EXCEPT ![l].pc = "killed"]
  /\ UNCHANGED <<clock, named, file, cache, lock, thread>>

-----------------------------------------------------------------------------
(* InMemoryTokenCache.get_token over a RestrictedTokenFileProvider. *)

ReadCache(t) ==
  /\ thread[t].pc = "idle"
  /\ IF IsValid(cache, Skew)
       THEN thread' = [thread EXCEPT ![t].pc = "served", ![t].token = cache]
       ELSE thread' = [thread EXCEPT ![t].pc = "wait"]
  /\ UNCHANGED <<clock, named, file, login, cache, lock>>

\* Under the lock the cache is read again before the provider is asked.
LockAndRecheck(t) ==
  /\ thread[t].pc = "wait"
  /\ lock = NoToken
  /\ IF IsValid(cache, Skew)
       THEN /\ thread' = [thread EXCEPT ![t].pc = "served", ![t].token = cache]
            /\ lock' = lock
       ELSE /\ thread' = [thread EXCEPT ![t].pc = "fetch"]
            /\ lock' = t
  /\ UNCHANGED <<clock, named, file, login, cache>>

\* _read_restricted_token_file: the directory is pinned and the file read.
FetchToken(t) ==
  /\ thread[t].pc = "fetch"
  /\ thread' = [thread EXCEPT ![t].pc = "accept", ![t].dir = named, ![t].token = file[named]]
  /\ UNCHANGED <<clock, named, file, login, cache, lock>>

\* A moved directory, a missing file or an expired token raises; otherwise the
\* token is cached.  The lock is released either way.
AcceptToken(t) ==
  /\ thread[t].pc = "accept"
  /\ IF named = thread[t].dir /\ IsValid(thread[t].token, 0)
       THEN /\ cache' = thread[t].token
            /\ thread' = [thread EXCEPT ![t].pc = "served"]
       ELSE /\ thread' = [thread EXCEPT ![t].pc = "idle", ![t].token = NoToken]
            /\ cache' = cache
  /\ lock' = NoToken
  /\ UNCHANGED <<clock, named, file, login>>

\* The connector has used the token and asks again later.
Release(t) ==
  /\ thread[t].pc = "served"
  /\ thread' = [thread EXCEPT ![t].pc = "idle", ![t].token = NoToken]
  /\ UNCHANGED <<clock, named, file, login, cache, lock>>

-----------------------------------------------------------------------------
\* The directory is renamed and another takes its name, once.
MoveDirectory ==
  /\ named = 1
  /\ named' = 2
  /\ login' = [l \in Logins |->
       [login[l] EXCEPT !.moved = login[l].pc \in {"stage", "install", "recheck", "finally"}]]
  /\ UNCHANGED <<clock, file, cache, lock, thread>>

Tick ==
  /\ clock < MaxClock
  /\ clock' = clock + 1
  /\ UNCHANGED <<named, file, login, cache, lock, thread>>

LoginStep(l) ==
  \/ PollGrants(l) \/ PollWaits(l) \/ PollRefused(l) \/ Wake(l) \/ ChallengeExpired(l)
  \/ OpenDirectory(l) \/ StageToken(l) \/ InstallToken(l) \/ RecheckDirectory(l) \/ WithdrawMoved(l)
  \/ WithdrawRefused(l)

Next ==
  \/ \E l \in Logins : StartLogin(l) \/ LoginStep(l) \/ Kill(l)
  \/ \E t \in Threads :
       ReadCache(t) \/ LockAndRecheck(t) \/ FetchToken(t) \/ AcceptToken(t) \/ Release(t)
  \/ MoveDirectory
  \/ Tick

OAuthSpec == OAuthInit /\ [][Next]_vars

\* A started login takes its steps and time passes.
OAuthFairSpec == OAuthSpec /\ WF_vars(Tick) /\ \A l \in Logins : WF_vars(LoginStep(l))

-----------------------------------------------------------------------------
(* Types: the lock is held by exactly the thread that asks the provider. *)
OAuthTypeOK ==
  /\ clock \in 0..MaxClock
  /\ named \in Dirs
  /\ file \in [Dirs -> Token \cup {NoToken}]
  /\ cache \in Token \cup {NoToken}
  /\ \A l \in Logins : login[l].token \in Token \cup {NoToken}
  /\ \A t \in Threads : (thread[t].pc \in {"fetch", "accept"}) <=> (lock = t)

OneRefreshAtATimeStep ==
    \A t \in Threads :
      (thread[t].pc = "fetch" /\ thread'[t].pc = "accept") => ~IsValid(cache, Skew)

(* The provider is asked only while the cached token is inside its refresh
   skew: a thread that waited for another's refresh uses that token
   (InMemoryTokenCache.get_token). *)
OneRefreshAtATime == [][OneRefreshAtATimeStep]_vars

(* A login that was not killed, and whose last unlink was not refused, leaves
   no token behind in a directory that was moved away while it wrote
   (_write_token_at's finally clause). *)
NoTokenLeftBehind ==
  \A l \in Logins :
    (login[l].pc \in {"done", "failed"} /\ login[l].moved)
      => \A d \in Dirs \ {named} : file[d] = NoToken \/ file[d].by # l

(* A login that reports success, with no other login at work and the directory
   in place, is what the token path now holds (write_token_file). *)
SuccessIsPublished ==
  \A l \in Logins :
    (/\ login[l].pc = "done"
     /\ named = login[l].dir
     /\ \A k \in Logins \ {l} : login[k].pc \in {"idle", "poll", "asleep", "open"})
      => file[named] = login[l].token

PollingLogin(l) == login[l].pc = "poll"
LoginOver(l) == login[l].pc \in {"done", "failed", "refused", "killed"}

(* Whatever the service answers, a login that is polling comes to an end: the
   loop is bounded by the challenge's expiry (EntraDeviceCodeProvider.poll). *)
LoginsEnd == \A l \in Logins : PollingLogin(l) ~> LoginOver(l)
=============================================================================
