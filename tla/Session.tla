------------------------------ MODULE Session ------------------------------
(***************************************************************************)
(* One session of the web application: its record in Redis, the refresh    *)
(* lock beside it, the identity provider, and the concurrent requests of   *)
(* one browser, served by several instances of the application.            *)
(*                                                                         *)
(* Every request decodes the record, lets the jwt callback refresh the     *)
(* tokens when the access token is about to expire, and encodes the        *)
(* result; a touch then extends the idle timeout, a logout ends it all.    *)
(* Each call to Redis or to the provider is a step of its own.  Redis      *)
(* drops a record by itself when its time to live has run out, so an       *)
(* expired record is an absent one.                                        *)
(*                                                                         *)
(* The provider rotates refresh tokens: only the last one it issued is     *)
(* good (revokeRefreshToken in docker/keycloak/realm.json).                *)
(***************************************************************************)
EXTENDS Naturals

CONSTANTS
  Worker,    \* the requests that can run at the same time
  MaxTime,   \* a bound on the clock
  Lifetime,  \* how long an access token counts as fresh
  Idle,      \* HSS_SESSION_IDLE_TIMEOUT_SECONDS
  Absolute,  \* HSS_SESSION_ABSOLUTE_TIMEOUT_SECONDS
  Extension, \* what a client asks for with extendSeconds
  NoRecord,  \* a missing key
  NoToken,   \* no token decoded
  Free       \* a missing lock key

ASSUME SessionAssumption ==
  /\ {MaxTime, Lifetime, Idle, Absolute} \subseteq Nat \ {0}
  /\ Extension \subseteq Nat \ {0}
  /\ Idle < Absolute
  /\ Free \notin Worker

VARIABLES
  now,       \* the clock
  record,    \* the value of the session key
  lock,      \* the request whose random value the lock key holds
  provider,  \* the last refresh token issued, whether the SSO session lives,
             \* and whether an answer to a refresh was ever lost
  req        \* the requests

vars == <<now, record, lock, provider, req>>
-----------------------------------------------------------------------------
Earlier(a, b) == IF a < b THEN a ELSE b

(* A token pair: the refresh token's number, 0 for none, when the access   *)
(* token stops being fresh, and the deadline copied from the record.       *)
Token  == [refresh: Nat, staleAt: Nat, absolute: Nat]
Record == [token: Token, seen: Nat, idle: Nat, absolute: Nat]

Phase == {"idle", "acquire", "wait", "retry", "refresh", "persist", "store",
          "release", "encode", "rewrite", "answered", "extend", "revoke", "destroy"}
Request == [phase: Phase, token: Token \cup {NoToken}, read: Record \cup {NoRecord},
            locked: BOOLEAN,    \* it holds a lock value to release
            blocked: BOOLEAN,   \* the lock it lost to has not run out yet
            since: Nat]         \* when it started
Resting == [phase |-> "idle", token |-> NoToken, read |-> NoRecord,
            locked |-> FALSE, blocked |-> FALSE, since |-> 0]

expireSessionToken(t) == [t EXCEPT !.refresh = 0, !.staleAt = 0]
Expired(t)      == t.refresh = 0
isTokenFresh(t) == now < t.staleAt

(* writeRecord: a record whose time is up is deleted instead.              *)
writeRecord(r) == IF r.idle <= now \/ r.absolute <= now THEN NoRecord ELSE r

(* The session right after the login: encodeOpaqueSessionToken with a new sid. *)
Init ==
  /\ now = 0
  /\ record = [token |-> [refresh |-> 1, staleAt |-> Lifetime, absolute |-> Absolute],
               seen |-> 0, idle |-> Idle, absolute |-> Absolute]
  /\ lock = Free
  /\ provider = [issued |-> 1, alive |-> TRUE, lost |-> FALSE]
  /\ req = [w \in Worker |-> Resting]
-----------------------------------------------------------------------------
Become(w, r) == req' = [req EXCEPT ![w] = r]

(* A request starts: decodeOpaqueSessionToken, then the first answers of   *)
(* the jwt callback.  Without a record it is not authenticated.            *)
Decode(w) ==
  /\ req[w].phase = "idle"
  /\ record # NoRecord
  /\ LET t == [record.token EXCEPT !.absolute = record.absolute] IN
     Become(w, [Resting EXCEPT
       !.token = t, !.since = now,
       !.phase = IF Expired(t) \/ isTokenFresh(t) THEN "encode" ELSE "acquire"])
  /\ UNCHANGED <<now, record, lock, provider>>

(* acquireSessionRefreshLock: SET NX.  When the reply of Redis is lost, the *)
(* lock stays taken with a value nobody knows.  A request that fails waits *)
(* the first time, and goes on without the lock the second time.           *)
AcquireLock(w) ==
  /\ req[w].phase \in {"acquire", "retry"}
  /\ \/ lock = Free /\ Become(w, [req[w] EXCEPT !.phase = "refresh", !.locked = TRUE])
     \/ Become(w, IF req[w].phase = "acquire"
                  THEN [req[w] EXCEPT !.phase = "wait", !.blocked = TRUE]
                  ELSE [req[w] EXCEPT !.phase = "refresh"])
  /\ lock' = IF lock = Free THEN w ELSE lock
  /\ UNCHANGED <<now, record, provider>>

(* A plausible bug: any token of the peer will do.                         *)
PollOnce(w) ==
  /\ req[w].phase = "wait"
  /\ Become(w, IF record = NoRecord THEN [req[w] EXCEPT !.phase = "retry"]
               ELSE [req[w] EXCEPT !.phase = "encode", !.token = record.token])
  /\ UNCHANGED <<now, record, lock, provider>>

(* A plausible bug: the wait has no deadline.                              *)
NoDeadline(w) == FALSE /\ UNCHANGED vars

(* waitForPeerRefresh: one poll, or the deadline, which lies behind the    *)
(* end of the lock it lost to.  A missing record ends the wait at once.    *)
Poll(w) ==
  /\ req[w].phase = "wait"
  /\ \/ /\ record = NoRecord
        /\ Become(w, [req[w] EXCEPT !.phase = "retry"])
     \/ /\ record # NoRecord
        /\ Expired(record.token) \/ isTokenFresh(record.token)
        /\ Become(w, [req[w] EXCEPT !.phase = "encode", !.token = record.token])
  /\ UNCHANGED <<now, record, lock, provider>>

Deadline(w) ==
  /\ req[w].phase = "wait" /\ ~req[w].blocked
  /\ Become(w, [req[w] EXCEPT !.phase = "retry"])
  /\ UNCHANGED <<now, record, lock, provider>>

(* refreshAccessToken with the tokens decoded at the start.  The provider  *)
(* takes only its last refresh token; the request or its answer may be     *)
(* lost.                                                                   *)
Refresh(w) ==
  LET t       == req[w].token
      good    == provider.alive /\ t.refresh = provider.issued
      rotated == [t EXCEPT !.refresh = provider.issued + 1, !.staleAt = now + Lifetime]
      Go(token) == Become(w, [req[w] EXCEPT !.phase = "persist", !.token = token])
  IN
  /\ req[w].phase = "refresh"
  /\ \/ /\ good /\ Go(rotated)
        /\ provider' = [provider EXCEPT !.issued = @ + 1]
     \/ /\ good /\ Go(expireSessionToken(t))
        /\ provider' = [provider EXCEPT !.issued = @ + 1, !.lost = TRUE]
     \/ /\ Go(expireSessionToken(t))      \* refused, or never reached
        /\ UNCHANGED provider
  /\ UNCHANGED <<now, record, lock>>

(* persistSessionTokenBySid reads the record and writes it back.           *)
PersistRead(w) ==
  /\ req[w].phase = "persist"
  /\ Become(w, IF record = NoRecord
               THEN [req[w] EXCEPT !.phase = "release", !.token = expireSessionToken(@)]
               ELSE [req[w] EXCEPT !.phase = "store", !.read = record])
  /\ UNCHANGED <<now, record, lock, provider>>

PersistWrite(w) ==
  LET t == [req[w].token EXCEPT !.absolute = req[w].read.absolute] IN
  /\ req[w].phase = "store"
  /\ record' = writeRecord([req[w].read EXCEPT !.token = t])
  /\ Become(w, [req[w] EXCEPT !.phase = "release", !.token = t, !.read = NoRecord])
  /\ UNCHANGED <<now, lock, provider>>

(* Whoever waits for the lock that goes now will meet its deadline.        *)
Unblocked == [v \in Worker |-> [req[v] EXCEPT !.blocked = FALSE]]

(* A plausible bug: a release without the comparison of the script.        *)
ReleaseAnyLock(w) ==
  /\ req[w].phase = "release"
  /\ lock' = IF req[w].locked THEN Free ELSE lock
  /\ req' = [Unblocked EXCEPT ![w].phase = "encode", ![w].locked = FALSE]
  /\ UNCHANGED <<now, record, provider>>

(* releaseSessionRefreshLock: the script deletes the lock only when it     *)
(* still holds the value of this request.                                  *)
ReleaseLock(w) ==
  LET mine == req[w].locked /\ lock = w IN
  /\ req[w].phase = "release"
  /\ lock' = IF mine THEN Free ELSE lock
  /\ req' = [IF mine THEN Unblocked ELSE req EXCEPT ![w].phase = "encode", ![w].locked = FALSE]
  /\ UNCHANGED <<now, record, provider>>

(* encodeOpaqueSessionToken reads the record and writes it, or creates it  *)
(* again when it is gone.                                                  *)
EncodeRead(w) ==
  /\ req[w].phase = "encode"
  /\ Become(w, [req[w] EXCEPT !.phase = "rewrite", !.read = record])
  /\ UNCHANGED <<now, record, lock, provider>>

(* A plausible bug: the deadline is kept in the record only.               *)
absoluteOfRecord(token, existing) ==
  IF existing = NoRecord THEN now + Absolute ELSE existing.absolute

resolveAbsoluteExpiresAtMs(token, existing) == token.absolute

EncodeWrite(w) ==
  LET t        == req[w].token
      existing == req[w].read
      absolute == resolveAbsoluteExpiresAtMs(t, existing)
  IN
  /\ req[w].phase = "rewrite"
  /\ record' = writeRecord(
       [token    |-> [t EXCEPT !.absolute = absolute],
        seen     |-> IF existing = NoRecord THEN now ELSE existing.seen,
        idle     |-> IF existing = NoRecord THEN Earlier(now + Idle, absolute) ELSE existing.idle,
        absolute |-> absolute])
  /\ Become(w, [req[w] EXCEPT !.phase = "answered", !.read = NoRecord])
  /\ UNCHANGED <<now, lock, provider>>

(* What auth() gives to the code that asked for the session: at most one    *)
(* access token, or the error.                                             *)
SessionOf(w) ==
  IF Expired(req[w].token) THEN [accessToken |-> {}, error |-> "RefreshTokenExpired"]
  ELSE [accessToken |-> {req[w].token}, error |-> "none"]

(* Who finds no access token in it answers 401 without asking the API.     *)
Unauthorized(session) ==
  IF session.error = "RefreshTokenExpired" THEN "SESSION_EXPIRED" ELSE "AUTHENTICATION_REQUIRED"

(* Who asks: the backend proxy, for what runs in the browser, and the      *)
(* pages rendered on the server, for themselves.                           *)
BackendProxy(session)  == IF session.accessToken = {} THEN Unauthorized(session) ELSE "FORWARDED"
ServerContext(session) == IF session.accessToken = {} THEN Unauthorized(session) ELSE "FORWARDED"

(* Either goes on and is done with the session; a touch reads the record   *)
(* again ...                                                               *)
Answer(w) ==
  /\ req[w].phase = "answered"
  /\ Become(w, Resting)
  /\ UNCHANGED <<now, record, lock, provider>>

TouchRead(w) ==
  /\ req[w].phase = "answered" /\ ~Expired(req[w].token)
  /\ Become(w, IF record = NoRecord THEN Resting
               ELSE [req[w] EXCEPT !.phase = "extend", !.read = record])
  /\ UNCHANGED <<now, record, lock, provider>>

(* ... and extends it, by the idle timeout unless it was touched a moment  *)
(* ago, or by what the client asks for.                                    *)
TouchWrite(w) ==
  LET r == req[w].read IN
  /\ req[w].phase = "extend"
  /\ \E extension \in Extension \cup (IF r.seen = now THEN {0} ELSE {Idle}) :
       record' = IF extension = 0 THEN record
                 ELSE writeRecord([r EXCEPT !.seen = now, !.idle = Earlier(now + extension, r.absolute),
                                            !.token.absolute = r.absolute])
  /\ Become(w, Resting)
  /\ UNCHANGED <<now, lock, provider>>

(* POST /api/auth/logout: decode, revoke at the provider if it answers,    *)
(* delete the record.  clear-invalid-session only deletes.                 *)
Logout(w) ==
  /\ req[w].phase = "idle"
  /\ Become(w, [Resting EXCEPT
       !.phase = IF record # NoRecord /\ ~Expired(record.token) THEN "revoke" ELSE "destroy"])
  /\ UNCHANGED <<now, record, lock, provider>>

Revoke(w) ==
  /\ req[w].phase = "revoke"
  /\ provider' \in {provider, [provider EXCEPT !.alive = FALSE]}
  /\ Become(w, [req[w] EXCEPT !.phase = "destroy"])
  /\ UNCHANGED <<now, record, lock>>

ClearInvalidSession(w) ==
  /\ req[w].phase = "idle"
  /\ Become(w, [Resting EXCEPT !.phase = "destroy"])
  /\ UNCHANGED <<now, record, lock, provider>>

destroySessionBySid(w) ==
  /\ req[w].phase = "destroy"
  /\ record' = NoRecord
  /\ Become(w, Resting)
  /\ UNCHANGED <<now, lock, provider>>

(* A request fails at any step: its instance stops, or Redis does not      *)
(* answer; then the finally clause may still release the lock.             *)
Fail(w) ==
  LET mine == req[w].locked /\ lock = w IN
  /\ req[w].phase # "idle"
  /\ provider' = [provider EXCEPT !.lost = @ \/ req[w].phase \in {"persist", "store"}]
  /\ \/ lock' = lock /\ Become(w, Resting)
     \/ mine /\ lock' = Free /\ req' = [Unblocked EXCEPT ![w] = Resting]
  /\ UNCHANGED <<now, record>>

LockExpires ==
  /\ lock # Free
  /\ lock' = Free
  /\ req' = Unblocked
  /\ UNCHANGED <<now, record, provider>>

Tick ==
  /\ now < MaxTime
  /\ now' = now + 1
  /\ record' = IF record # NoRecord /\ (record.idle <= now' \/ record.absolute <= now') THEN NoRecord
               ELSE record
  /\ UNCHANGED <<lock, provider, req>>

SsoEnds ==
  /\ provider.alive
  /\ provider' = [provider EXCEPT !.alive = FALSE]
  /\ UNCHANGED <<now, record, lock, req>>
-----------------------------------------------------------------------------
Proceed(w) ==
  \/ AcquireLock(w) \/ Poll(w) \/ Deadline(w) \/ Refresh(w) \/ PersistRead(w) \/ PersistWrite(w)
  \/ ReleaseLock(w) \/ EncodeRead(w) \/ EncodeWrite(w) \/ Answer(w) \/ TouchWrite(w)
  \/ Revoke(w) \/ destroySessionBySid(w)

Next ==
  \/ \E w \in Worker : \/ Decode(w) \/ TouchRead(w) \/ Logout(w) \/ ClearInvalidSession(w)
                       \/ Proceed(w) \/ Fail(w)
  \/ LockExpires \/ Tick \/ SsoEnds

Spec == Init /\ [][Next]_vars

(* A request that runs goes on, and Redis lets a lock run out.  Nothing    *)
(* makes requests start, fail or succeed, and no clock is pressed.         *)
FairSpec == Spec /\ WF_vars(LockExpires) /\ \A w \in Worker : WF_vars(Proceed(w))
-----------------------------------------------------------------------------
TypeOK ==
  /\ now \in 0 .. MaxTime
  /\ record \in Record \cup {NoRecord}
  /\ lock \in Worker \cup {Free}
  /\ provider \in [issued: Nat, alive: BOOLEAN, lost: BOOLEAN]
  /\ req \in [Worker -> Request]

(* The absolute timeout cannot be escaped: once it has passed the session  *)
(* has no record, although touches extend it and a late encode can create  *)
(* it again.                                                               *)
AbsoluteTimeout == now >= Absolute => record = NoRecord

(* Whatever a request waited for, the access token that goes on to the API *)
(* with it was still fresh after the request started.  Otherwise the       *)
(* client is told that its session ended, not that it never logged in.     *)
AnswerFresh ==
  \A w \in Worker :
    LET session == SessionOf(w)
        answers == {BackendProxy(session), ServerContext(session)}
    IN req[w].phase = "answered" =>
         \/ answers = {"FORWARDED"} /\ \A t \in session.accessToken : t.staleAt > req[w].since
         \/ answers = {"SESSION_EXPIRED"}

(* No request frees the lock of another, however late it comes back from   *)
(* the provider: only its owner or its expiry does.                        *)
LockKept ==
  [][\A v, w \in Worker :
       req[v].phase # req'[v].phase /\ v # w /\ lock = w => lock' = w]_vars

(* Every request ends, even when the one that held the lock stopped.       *)
RequestsEnd == \A w \in Worker : req[w].phase # "idle" ~> req[w].phase = "idle"

(* "Distribute refresh lock through Redis to keep token rotation safe":    *)
(* who alone holds the lock presents the provider's current refresh token, *)
(* unless the provider ended its session or its answer was lost.           *)
RotationSafe ==
  \A w \in Worker :
    /\ req[w].phase = "refresh" /\ lock = w
    /\ \A v \in Worker \ {w} : ~req[v].locked
    /\ provider.alive /\ ~provider.lost
    => req[w].token.refresh = provider.issued
=============================================================================
