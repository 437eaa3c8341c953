----------------------------- MODULE Session_proofs -----------------------------
(***************************************************************************)
(* What sessions keep for any number of concurrent requests and any        *)
(* timeouts.                                                               *)
(*                                                                         *)
(* The argument: the absolute deadline travels with every copy of a token  *)
(* and of a record, so whichever of them is written back brings the same   *)
(* deadline; and a token that a request takes over was fresh at that       *)
(* moment, which is not before the request began.                          *)
(***************************************************************************)
EXTENDS Session, TLAPS

Dated(t) == t \in Token /\ t.absolute = Absolute
DatedRecord(r) == r \in Record /\ r.absolute = Absolute /\ Dated(r.token)

HasToken == {"acquire", "wait", "retry", "refresh", "persist", "store", "release",
             "encode", "rewrite", "answered"}
IsDecided == {"persist", "store", "release", "encode", "rewrite", "answered"}

Sound(r) ==
  /\ r \in Request
  /\ r.since <= now
  /\ r.phase \in HasToken => Dated(r.token)
  /\ r.phase \in {"store", "extend"} => DatedRecord(r.read)
  /\ r.phase \in IsDecided => Expired(r.token) \/ r.token.staleAt > r.since

RecordKept == record # NoRecord => DatedRecord(record) /\ now < Absolute

Inv == TypeOK /\ RecordKept /\ \A w \in Worker : Sound(req[w])

LEMMA RestingSound == ASSUME now \in Nat PROVE Sound(Resting)
BY DEF Sound, Resting, Request, Phase, HasToken, IsDecided

LEMMA InitInv == Init => Inv
<1> SUFFICES ASSUME Init PROVE Inv OBVIOUS
<1> USE SessionAssumption DEF Init
<1>1. now \in Nat OBVIOUS
<1>2. DatedRecord(record) /\ now < Absolute BY DEF DatedRecord, Dated, Record, Token
<1>3. \A w \in Worker : req[w] = Resting /\ Sound(req[w]) BY <1>1, RestingSound
<1>4. Resting \in Request BY <1>1, RestingSound DEF Sound
<1>5. TypeOK BY <1>2, <1>4 DEF TypeOK, DatedRecord
<1> QED BY <1>2, <1>3, <1>5 DEF Inv, RecordKept

(* One request goes on.                                                    *)
LEMMA OneRequest ==
  ASSUME Inv, NEW w \in Worker, NEW r, Sound(r), Become(w, r), now' = now,
         lock' \in Worker \cup {Free},
         provider' \in [issued: Nat, alive: BOOLEAN, lost: BOOLEAN],
         record' = record \/ record' = NoRecord \/ (DatedRecord(record') /\ now < Absolute)
  PROVE  Inv'
<1>1. r \in Request BY DEF Sound
<1>2. req' \in [Worker -> Request] BY <1>1 DEF Become, Inv, TypeOK
<1>3. \A v \in Worker : req'[v] = IF v = w THEN r ELSE req[v] BY DEF Become, Inv, TypeOK
<1>4. \A v \in Worker : Sound(req'[v]) BY <1>3 DEF Inv
<1>5. \A v \in Worker : Sound(req[v])' BY <1>4 DEF Sound, Expired
<1>6. TypeOK' BY <1>2 DEF Inv, TypeOK, DatedRecord
<1>7. RecordKept' BY DEF Inv, RecordKept
<1> QED BY <1>5, <1>6, <1>7 DEF Inv

(* Redis keeps only what is written before the deadline.                   *)
LEMMA Written ==
  ASSUME NEW r, DatedRecord(r), now \in Nat
  PROVE  writeRecord(r) = NoRecord \/ (DatedRecord(writeRecord(r)) /\ now < Absolute)
BY SessionAssumption DEF writeRecord, DatedRecord, Record

LEMMA DecodeInv == ASSUME Inv, NEW w \in Worker, Decode(w) PROVE Inv'
<1> DEFINE t == [record.token EXCEPT !.absolute = record.absolute]
           r == [Resting EXCEPT !.token = t, !.since = now,
                   !.phase = IF Expired(t) \/ isTokenFresh(t) THEN "encode" ELSE "acquire"]
<1>1. DatedRecord(record) /\ now \in Nat BY DEF Decode, Inv, RecordKept, TypeOK
<1>2. Dated(t) BY <1>1 DEF DatedRecord, Dated, Token, Record
<1>3. Resting \in Request BY <1>1, RestingSound DEF Sound
<1>4. t.staleAt \in Nat BY <1>2 DEF Dated, Token
<1> HIDE DEF t
<1>5. /\ r \in Request /\ r.since = now /\ r.token = t
      /\ r.phase = IF Expired(t) \/ isTokenFresh(t) THEN "encode" ELSE "acquire"
  BY <1>1, <1>2, <1>3 DEF Request, Phase, Dated, Resting
<1> HIDE DEF r
<1>6. Sound(r) BY <1>1, <1>2, <1>4, <1>5 DEF Sound, HasToken, IsDecided, isTokenFresh
<1>7. Become(w, r) /\ UNCHANGED <<now, record, lock, provider>> BY DEF Decode, r, t
<1> QED BY <1>6, <1>7, OneRequest DEF Inv, TypeOK

(* A request that only moves to another phase where it may be.             *)
LEMMA Moves ==
  ASSUME Inv, NEW w \in Worker, NEW r \in Request,
         r.token = req[w].token, r.since = req[w].since,
         r.phase \in HasToken => req[w].phase \in HasToken,
         r.phase \notin {"store", "extend"},
         r.phase \in IsDecided => req[w].phase \in IsDecided
  PROVE  Sound(r)
<1>1. Sound(req[w]) BY DEF Inv
<1> QED BY <1>1 DEF Sound

LEMMA AcquireLockInv == ASSUME Inv, NEW w \in Worker, AcquireLock(w) PROVE Inv'
<1>1. req[w] \in Request /\ req[w].phase \in {"acquire", "retry"}
  BY DEF AcquireLock, Inv, TypeOK
<1>2. lock' \in Worker \cup {Free} /\ UNCHANGED <<now, record, provider>>
  BY DEF AcquireLock, Inv, TypeOK
<1> DEFINE Possible == {[req[w] EXCEPT !.phase = "refresh", !.locked = TRUE],
                        [req[w] EXCEPT !.phase = "wait", !.blocked = TRUE],
                        [req[w] EXCEPT !.phase = "refresh"]}
<1>3. ASSUME NEW r \in Possible
      PROVE  /\ r \in Request /\ r.token = req[w].token /\ r.since = req[w].since
             /\ r.phase \in {"refresh", "wait"}
  BY <1>1 DEF Request, Phase
<1>4. PICK r \in Possible : Become(w, r) BY DEF AcquireLock
<1> HIDE DEF Possible
<1>5. Sound(r) BY <1>1, <1>3, Moves DEF HasToken, IsDecided
<1> QED BY <1>2, <1>4, <1>5, OneRequest DEF Inv, TypeOK

LEMMA PollInv == ASSUME Inv, NEW w \in Worker, Poll(w) \/ Deadline(w) PROVE Inv'
<1>1. req[w] \in Request /\ req[w].phase = "wait" /\ Sound(req[w]) /\ now \in Nat
  BY DEF Poll, Deadline, Inv, TypeOK
<1>2. UNCHANGED <<now, record, lock, provider>> BY DEF Poll, Deadline
<1>3. CASE Become(w, [req[w] EXCEPT !.phase = "retry"])
  <2> DEFINE r == [req[w] EXCEPT !.phase = "retry"]
  <2>1. /\ r \in Request /\ r.phase = "retry" /\ r.token = req[w].token
        /\ r.since = req[w].since
    BY <1>1 DEF Request, Phase
  <2>2. Become(w, r) BY <1>3
  <2> HIDE DEF r
  <2>3. Sound(r) BY <1>1, <2>1, Moves DEF HasToken, IsDecided
  <2> QED BY <1>2, <2>2, <2>3, OneRequest DEF Inv, TypeOK
<1>4. CASE /\ record # NoRecord
           /\ Expired(record.token) \/ isTokenFresh(record.token)
           /\ Become(w, [req[w] EXCEPT !.phase = "encode", !.token = record.token])
  <2> DEFINE r == [req[w] EXCEPT !.phase = "encode", !.token = record.token]
  <2>1. Dated(record.token) BY <1>4 DEF Inv, RecordKept, DatedRecord
  <2>2. /\ r \in Request /\ r.phase = "encode" /\ r.token = record.token
        /\ r.since = req[w].since /\ record.token.staleAt \in Nat /\ r.since \in Nat
    BY <1>1, <2>1 DEF Request, Phase, Dated, Token
  <2>3. Become(w, r) BY <1>4
  <2> HIDE DEF r
  <2>4. Sound(r)
    BY <1>1, <1>4, <2>1, <2>2 DEF Sound, HasToken, IsDecided, isTokenFresh
  <2> QED BY <1>2, <2>3, <2>4, OneRequest DEF Inv, TypeOK
<1> QED BY <1>3, <1>4 DEF Poll, Deadline

LEMMA RefreshInv == ASSUME Inv, NEW w \in Worker, Refresh(w) PROVE Inv'
<1> DEFINE t == req[w].token
           rotated == [t EXCEPT !.refresh = provider.issued + 1, !.staleAt = now + Lifetime]
           Go(token) == [req[w] EXCEPT !.phase = "persist", !.token = token]
<1>1. /\ req[w] \in Request /\ req[w].phase = "refresh" /\ Sound(req[w])
      /\ now \in Nat /\ provider \in [issued: Nat, alive: BOOLEAN, lost: BOOLEAN]
  BY DEF Refresh, Inv, TypeOK
<1>2. Dated(t) BY <1>1 DEF Sound, HasToken
<1>3. /\ Dated(rotated) /\ rotated.staleAt = now + Lifetime
      /\ Dated(expireSessionToken(t)) /\ Expired(expireSessionToken(t))
  <2>1. t \in Token /\ t.absolute = Absolute BY <1>2 DEF Dated
  <2>2. provider.issued + 1 \in Nat /\ now + Lifetime \in Nat BY <1>1, SessionAssumption
  <2> HIDE DEF t
  <2> QED BY <2>1, <2>2 DEF Dated, Token, expireSessionToken, Expired
<1>4. ASSUME NEW token, Dated(token), Expired(token) \/ token.staleAt > req[w].since
      PROVE  Sound(Go(token))
  <2>1. token \in Token BY <1>4 DEF Dated
  <2>2. /\ Go(token) \in Request /\ Go(token).phase = "persist" /\ Go(token).token = token
        /\ Go(token).since = req[w].since
    BY <1>1, <2>1 DEF Request, Phase
  <2> HIDE DEF Go
  <2> QED BY <1>1, <1>4, <2>2 DEF Sound, HasToken, IsDecided
<1>5. now + Lifetime > req[w].since
  BY <1>1, SessionAssumption DEF Sound, Request
<1>6. Sound(Go(rotated)) /\ Sound(Go(expireSessionToken(t))) BY <1>3, <1>4, <1>5
<1>7. /\ Become(w, Go(rotated)) \/ Become(w, Go(expireSessionToken(t)))
      /\ provider' \in [issued: Nat, alive: BOOLEAN, lost: BOOLEAN]
      /\ UNCHANGED <<now, record, lock>>
  <2>1. UNCHANGED <<now, record, lock>> BY DEF Refresh
  <2>2. Become(w, Go(rotated)) \/ Become(w, Go(expireSessionToken(t))) BY DEF Refresh
  <2> DEFINE P == [issued: Nat, alive: BOOLEAN, lost: BOOLEAN]
             next == [provider EXCEPT !.issued = @ + 1]
             unanswered == [provider EXCEPT !.issued = @ + 1, !.lost = TRUE]
  <2>3. provider' = next \/ provider' = unanswered \/ provider' = provider BY DEF Refresh
  <2>4. next \in P /\ unanswered \in P
    <3>1. provider \in P /\ provider.issued + 1 \in Nat BY <1>1
    <3>2. next \in P BY <3>1
    <3>3. unanswered = [next EXCEPT !.lost = TRUE] BY <3>1
    <3>4. unanswered \in P BY <3>2, <3>3
    <3> QED BY <3>2, <3>4
  <2>5. provider' \in P BY <1>1, <2>3, <2>4
  <2> QED BY <2>1, <2>2, <2>5
<1> HIDE DEF Go, rotated, t
<1> QED BY <1>6, <1>7, OneRequest DEF Inv, TypeOK

LEMMA PersistReadInv == ASSUME Inv, NEW w \in Worker, PersistRead(w) PROVE Inv'
<1>1. req[w] \in Request /\ req[w].phase = "persist" /\ Sound(req[w]) /\ Dated(req[w].token)
  BY DEF PersistRead, Inv, TypeOK, Sound, HasToken
<1>2. UNCHANGED <<now, record, lock, provider>> BY DEF PersistRead
<1>3. CASE record = NoRecord
  <2> DEFINE t == expireSessionToken(req[w].token)
             r == [req[w] EXCEPT !.phase = "release", !.token = t]
  <2>1. Dated(t) /\ Expired(t) BY <1>1 DEF Dated, Token, expireSessionToken, Expired
  <2>2. r \in Request /\ r.phase = "release" /\ r.token = t /\ r.since = req[w].since
    BY <1>1, <2>1 DEF Request, Phase, Dated
  <2>3. Become(w, r) BY <1>3 DEF PersistRead
  <2> HIDE DEF r, t
  <2>4. Sound(r) BY <1>1, <2>1, <2>2 DEF Sound, HasToken, IsDecided
  <2> QED BY <1>2, <2>3, <2>4, OneRequest DEF Inv, TypeOK
<1>4. CASE record # NoRecord
  <2> DEFINE r == [req[w] EXCEPT !.phase = "store", !.read = record]
  <2>1. DatedRecord(record) BY <1>4 DEF Inv, RecordKept
  <2>2. /\ r \in Request /\ r.phase = "store" /\ r.token = req[w].token /\ r.since = req[w].since
        /\ r.read = record
    BY <1>1, <2>1 DEF Request, Phase, DatedRecord
  <2>3. Become(w, r) BY <1>4 DEF PersistRead
  <2> HIDE DEF r
  <2>4. Sound(r) BY <1>1, <2>1, <2>2 DEF Sound, HasToken, IsDecided
  <2> QED BY <1>2, <2>3, <2>4, OneRequest DEF Inv, TypeOK
<1> QED BY <1>3, <1>4

LEMMA PersistWriteInv == ASSUME Inv, NEW w \in Worker, PersistWrite(w) PROVE Inv'
<1> DEFINE t == [req[w].token EXCEPT !.absolute = req[w].read.absolute]
           c == [req[w].read EXCEPT !.token = t]
           r == [req[w] EXCEPT !.phase = "release", !.token = t, !.read = NoRecord]
<1>1. /\ req[w] \in Request /\ req[w].phase = "store" /\ Sound(req[w]) /\ now \in Nat
      /\ Dated(req[w].token) /\ DatedRecord(req[w].read)
  BY DEF PersistWrite, Inv, TypeOK, Sound, HasToken
<1>2. /\ Dated(t) /\ t.refresh = req[w].token.refresh /\ t.staleAt = req[w].token.staleAt
  BY <1>1 DEF Dated, DatedRecord, Token
<1>3. record' = writeRecord(c) /\ Become(w, r) /\ UNCHANGED <<now, lock, provider>>
  BY DEF PersistWrite
<1> HIDE DEF t
<1>4. DatedRecord(c) BY <1>1, <1>2 DEF DatedRecord, Record, Dated
<1>5. r \in Request /\ r.phase = "release" /\ r.token = t /\ r.since = req[w].since
  BY <1>1, <1>2 DEF Request, Phase, Dated
<1> HIDE DEF r, c
<1>6. Sound(r) BY <1>1, <1>2, <1>5 DEF Sound, HasToken, IsDecided, Expired
<1>7. record' = NoRecord \/ (DatedRecord(record') /\ now < Absolute)
  BY <1>1, <1>3, <1>4, Written
<1> QED BY <1>3, <1>6, <1>7, OneRequest DEF Inv, TypeOK

(* The waiters learn that a lock went: nothing else about them changes.    *)
LEMMA UnblockedInv == ASSUME Inv PROVE \A v \in Worker :
                        Unblocked[v] \in Request /\ Sound(Unblocked[v])
                        /\ Unblocked[v].phase = req[v].phase /\ Unblocked[v].token = req[v].token
                        /\ Unblocked[v].since = req[v].since /\ Unblocked[v].read = req[v].read
<1> SUFFICES ASSUME NEW v \in Worker
             PROVE  Unblocked[v] \in Request /\ Sound(Unblocked[v])
                        /\ Unblocked[v].phase = req[v].phase /\ Unblocked[v].token = req[v].token
                        /\ Unblocked[v].since = req[v].since /\ Unblocked[v].read = req[v].read
  OBVIOUS
<1>1. Unblocked[v] = [req[v] EXCEPT !.blocked = FALSE] BY DEF Unblocked
<1>2. req[v] \in Request /\ Sound(req[v]) BY DEF Inv, TypeOK
<1>3. /\ Unblocked[v] \in Request /\ Unblocked[v].phase = req[v].phase
      /\ Unblocked[v].token = req[v].token
      /\ Unblocked[v].since = req[v].since /\ Unblocked[v].read = req[v].read
  BY <1>1, <1>2 DEF Request
<1> QED BY <1>2, <1>3 DEF Sound

(* The requests change, all of them soundly, and nothing else but the lock *)
(* and the provider.                                                       *)
LEMMA Requests ==
  ASSUME Inv, req' \in [Worker -> Request], \A v \in Worker : Sound(req'[v]),
         lock' \in Worker \cup {Free},
         provider' \in [issued: Nat, alive: BOOLEAN, lost: BOOLEAN],
         UNCHANGED <<now, record>>
  PROVE  Inv'
<1>1. \A v \in Worker : Sound(req[v])' BY DEF Sound, Expired
<1>2. TypeOK' BY DEF Inv, TypeOK
<1>3. RecordKept' BY DEF Inv, RecordKept
<1> QED BY <1>1, <1>2, <1>3 DEF Inv

LEMMA ReleaseLockInv == ASSUME Inv, NEW w \in Worker, ReleaseLock(w) PROVE Inv'
<1> DEFINE mine == req[w].locked /\ lock = w
           others == IF mine THEN Unblocked ELSE req
           r == [others[w] EXCEPT !.phase = "encode", !.locked = FALSE]
<1>1. req[w].phase = "release" /\ UNCHANGED <<now, record, provider>> BY DEF ReleaseLock
<1>2. others \in [Worker -> Request] BY UnblockedInv DEF Unblocked, Inv, TypeOK
<1>3. \A v \in Worker : /\ Sound(others[v]) /\ others[v].phase = req[v].phase
                        /\ others[v].token = req[v].token /\ others[v].since = req[v].since
  BY UnblockedInv DEF Inv
<1>4. req' = [others EXCEPT ![w].phase = "encode", ![w].locked = FALSE] BY DEF ReleaseLock
<1> HIDE DEF others
<1>5. \A v \in Worker : req'[v] = IF v = w THEN r ELSE others[v] BY <1>2, <1>4
<1>6. /\ r \in Request /\ r.phase = "encode" /\ r.token = req[w].token /\ r.since = req[w].since
  BY <1>2, <1>3 DEF Request, Phase
<1>7. req' \in [Worker -> Request] BY <1>2, <1>4, <1>5, <1>6
<1> HIDE DEF r
<1>8. Sound(r) BY <1>1, <1>6, Moves DEF HasToken, IsDecided
<1>9. lock' \in Worker \cup {Free} BY DEF ReleaseLock, Inv, TypeOK
<1> QED BY <1>1, <1>3, <1>5, <1>7, <1>8, <1>9, Requests DEF Inv, TypeOK

LEMMA EncodeReadInv == ASSUME Inv, NEW w \in Worker, EncodeRead(w) PROVE Inv'
<1> DEFINE r == [req[w] EXCEPT !.phase = "rewrite", !.read = record]
<1>1. req[w] \in Request /\ req[w].phase = "encode" /\ record \in Record \cup {NoRecord}
  BY DEF EncodeRead, Inv, TypeOK
<1>2. /\ r \in Request /\ r.phase = "rewrite" /\ r.token = req[w].token
      /\ r.since = req[w].since
  BY <1>1 DEF Request, Phase
<1>3. Become(w, r) /\ UNCHANGED <<now, record, lock, provider>> BY DEF EncodeRead
<1> HIDE DEF r
<1>4. Sound(r) BY <1>1, <1>2, Moves DEF HasToken, IsDecided
<1> QED BY <1>3, <1>4, OneRequest DEF Inv, TypeOK

(* The record that is created anew has the deadline of the token.          *)
LEMMA EncodeWriteInv == ASSUME Inv, NEW w \in Worker, EncodeWrite(w) PROVE Inv'
<1> DEFINE t == req[w].token
           existing == req[w].read
           dated == [t EXCEPT !.absolute = t.absolute]
           seen == IF existing = NoRecord THEN now ELSE existing.seen
           idle == IF existing = NoRecord THEN Earlier(now + Idle, t.absolute) ELSE existing.idle
           c == [token |-> dated, seen |-> seen, idle |-> idle, absolute |-> t.absolute]
           r == [req[w] EXCEPT !.phase = "answered", !.read = NoRecord]
<1>1. /\ req[w] \in Request /\ req[w].phase = "rewrite" /\ Sound(req[w]) /\ now \in Nat
      /\ existing \in Record \cup {NoRecord}
  BY DEF EncodeWrite, Inv, TypeOK, Request
<1>2. Dated(t) BY <1>1 DEF Sound, HasToken
<1>3. record' = writeRecord(c) /\ Become(w, r) /\ UNCHANGED <<now, lock, provider>>
  BY DEF EncodeWrite, resolveAbsoluteExpiresAtMs
<1>4. /\ r \in Request /\ r.phase = "answered" /\ r.token = req[w].token
      /\ r.since = req[w].since
  BY <1>1 DEF Request, Phase
<1> HIDE DEF r, t, existing
<1>5. Dated(dated) /\ t.absolute = Absolute /\ t.absolute \in Nat BY <1>2 DEF Dated, Token
<1>6. seen \in Nat /\ idle \in Nat
  BY <1>1, <1>5, SessionAssumption DEF Record, Earlier
<1> HIDE DEF dated, seen, idle
<1>7. DatedRecord(c) BY <1>5, <1>6 DEF DatedRecord, Record, Dated
<1> HIDE DEF c
<1>8. record' = NoRecord \/ (DatedRecord(record') /\ now < Absolute) BY <1>1, <1>3, <1>7, Written
<1>9. Sound(r) BY <1>1, <1>4, Moves DEF HasToken, IsDecided
<1> QED BY <1>3, <1>8, <1>9, OneRequest DEF Inv, TypeOK

LEMMA RestingInv ==
  ASSUME Inv, NEW w \in Worker, Become(w, Resting),
         record' = record \/ record' = NoRecord, UNCHANGED <<now, lock, provider>>
  PROVE  Inv'
<1>1. Sound(Resting) BY RestingSound DEF Inv, TypeOK
<1> QED BY <1>1, OneRequest DEF Inv, TypeOK

LEMMA TouchReadInv == ASSUME Inv, NEW w \in Worker, TouchRead(w) PROVE Inv'
<1>1. UNCHANGED <<now, record, lock, provider>> BY DEF TouchRead
<1>2. CASE record = NoRecord BY <1>1, <1>2, RestingInv DEF TouchRead
<1>3. CASE record # NoRecord
  <2> DEFINE r == [req[w] EXCEPT !.phase = "extend", !.read = record]
  <2>1. req[w] \in Request /\ Sound(req[w]) BY DEF Inv, TypeOK
  <2>2. DatedRecord(record) BY <1>3 DEF Inv, RecordKept
  <2>3. r \in Request /\ r.phase = "extend" /\ r.since = req[w].since /\ r.read = record
    BY <2>1, <2>2 DEF Request, Phase, DatedRecord
  <2>4. Become(w, r) BY <1>3 DEF TouchRead
  <2> HIDE DEF r
  <2>5. Sound(r) BY <2>1, <2>2, <2>3 DEF Sound, HasToken, IsDecided
  <2> QED BY <1>1, <2>4, <2>5, OneRequest DEF Inv, TypeOK
<1> QED BY <1>2, <1>3

LEMMA TouchWriteInv == ASSUME Inv, NEW w \in Worker, TouchWrite(w) PROVE Inv'
<1> DEFINE c == req[w].read
           extended(e) == [c EXCEPT !.seen = now, !.idle = Earlier(now + e, c.absolute),
                                    !.token.absolute = c.absolute]
<1>1. /\ req[w].phase = "extend" /\ DatedRecord(c) /\ now \in Nat
      /\ Become(w, Resting) /\ UNCHANGED <<now, lock, provider>>
  BY DEF TouchWrite, Inv, TypeOK, Sound
<1>2. Sound(Resting) BY <1>1, RestingSound
<1>3. PICK e \in Extension \cup (IF c.seen = now THEN {0} ELSE {Idle}) :
        record' = IF e = 0 THEN record ELSE writeRecord(extended(e))
  BY DEF TouchWrite
<1> HIDE DEF c
<1>4. e \in Nat BY <1>3, SessionAssumption
<1>5. DatedRecord(extended(e))
  <2>1. c \in Record /\ c.absolute = Absolute /\ c.token \in Token /\ c.token.absolute = Absolute
    BY <1>1 DEF DatedRecord, Dated
  <2>2. Absolute \in Nat BY SessionAssumption
  <2>3. Earlier(now + e, c.absolute) \in Nat BY <1>1, <1>4, <2>1, <2>2 DEF Earlier
  <2> DEFINE i == Earlier(now + e, c.absolute)
  <2> HIDE DEF i
  <2>4. [c EXCEPT !.seen = now, !.idle = i, !.token.absolute = c.absolute] \in Record
    BY <1>1, <2>1, <2>2, <2>3 DEF Record, Token, i
  <2>5. LET x == [c EXCEPT !.seen = now, !.idle = i, !.token.absolute = c.absolute]
        IN  x.absolute = Absolute /\ x.token \in Token /\ x.token.absolute = Absolute
    BY <2>1 DEF Record, Token
  <2> QED BY <2>4, <2>5 DEF DatedRecord, Dated, i
<1> HIDE DEF extended
<1>6. record' = record \/ record' = NoRecord \/ (DatedRecord(record') /\ now < Absolute)
  BY <1>1, <1>3, <1>5, Written
<1> QED BY <1>1, <1>2, <1>6, OneRequest DEF Inv, TypeOK

LEMMA LogoutInv ==
  ASSUME Inv, NEW w \in Worker, Logout(w) \/ ClearInvalidSession(w) \/ Revoke(w)
  PROVE  Inv'
<1>1. /\ UNCHANGED <<now, record, lock>>
      /\ provider' \in [issued: Nat, alive: BOOLEAN, lost: BOOLEAN]
  BY DEF Logout, ClearInvalidSession, Revoke, Inv, TypeOK
<1>2. ASSUME NEW r \in Request, r.phase \in {"revoke", "destroy"}, r.since <= now, Become(w, r)
      PROVE  Inv'
  <2>1. Sound(r) BY <1>2 DEF Sound, HasToken, IsDecided
  <2> QED BY <1>1, <1>2, <2>1, OneRequest DEF Inv, TypeOK
<1>3. Resting \in Request /\ Resting.since <= now BY RestingSound DEF Inv, TypeOK, Sound
<1>4. ASSUME NEW p \in {"revoke", "destroy"}, NEW r \in Request, r.since <= now,
             Become(w, [r EXCEPT !.phase = p])
      PROVE  Inv'
  <2> DEFINE q == [r EXCEPT !.phase = p]
  <2>1. q \in Request /\ q.phase = p /\ q.since = r.since BY <1>4 DEF Request, Phase
  <2>2. Become(w, q) BY <1>4
  <2> HIDE DEF q
  <2> QED BY <1>2, <1>4, <2>1, <2>2
<1>5. CASE Logout(w)
  BY <1>3, <1>4, <1>5 DEF Logout
<1>6. CASE ClearInvalidSession(w) BY <1>3, <1>4, <1>6 DEF ClearInvalidSession
<1>7. CASE Revoke(w)
  <2>1. req[w] \in Request /\ req[w].since <= now BY DEF Inv, TypeOK, Sound
  <2>2. Become(w, [req[w] EXCEPT !.phase = "destroy"]) BY <1>7 DEF Revoke
  <2> QED BY <1>4, <2>1, <2>2
<1> QED BY <1>5, <1>6, <1>7

LEMMA FailInv == ASSUME Inv, NEW w \in Worker, Fail(w) PROVE Inv'
<1>1. /\ UNCHANGED <<now, record>> /\ lock' \in Worker \cup {Free}
      /\ provider' \in [issued: Nat, alive: BOOLEAN, lost: BOOLEAN]
  BY DEF Fail, Inv, TypeOK
<1>2. Sound(Resting) /\ Resting \in Request BY RestingSound DEF Inv, TypeOK, Sound
<1>3. CASE Become(w, Resting) BY <1>1, <1>2, <1>3, OneRequest DEF Inv, TypeOK
<1>4. CASE req' = [Unblocked EXCEPT ![w] = Resting]
  <2>1. req' \in [Worker -> Request]
    BY <1>2, <1>4, UnblockedInv DEF Unblocked
  <2>2. \A v \in Worker : Sound(req'[v]) BY <1>2, <1>4, UnblockedInv DEF Unblocked
  <2> QED BY <1>1, <2>1, <2>2, Requests
<1> QED BY <1>3, <1>4 DEF Fail

LEMMA AroundInv == ASSUME Inv, LockExpires \/ Tick \/ SsoEnds PROVE Inv'
<1>1. CASE LockExpires
  <2>1. req' \in [Worker -> Request] BY <1>1, UnblockedInv DEF LockExpires, Unblocked
  <2>2. \A v \in Worker : Sound(req'[v]) BY <1>1, UnblockedInv DEF LockExpires
  <2> QED BY <1>1, <2>1, <2>2, Requests DEF LockExpires, Inv, TypeOK
<1>2. CASE SsoEnds BY <1>2, Requests DEF SsoEnds, Inv, TypeOK
<1>3. CASE Tick
  <2>1. now' = now + 1 /\ now \in Nat /\ UNCHANGED <<lock, provider, req>>
    BY <1>3 DEF Tick, Inv, TypeOK
  <2>2. record' = record \/ record' = NoRecord BY <1>3 DEF Tick
  <2>3. TypeOK' BY <1>3, <2>1, <2>2, SessionAssumption DEF Tick, Inv, TypeOK
  <2>4. RecordKept'
    BY <1>3, <2>1, SessionAssumption DEF Tick, Inv, RecordKept, DatedRecord
  <2>5. ASSUME NEW v \in Worker PROVE Sound(req[v])'
    BY <2>1 DEF Inv, Sound, Request, Expired
  <2> QED BY <2>3, <2>4, <2>5 DEF Inv
<1> QED BY <1>1, <1>2, <1>3

LEMMA NextInv == Inv /\ [Next]_vars => Inv'
<1> SUFFICES ASSUME Inv, [Next]_vars PROVE Inv' OBVIOUS
<1>1. CASE UNCHANGED vars BY <1>1, Requests DEF vars, Inv, TypeOK
<1>2. ASSUME NEW w \in Worker, Proceed(w) PROVE Inv'
  <2>1. CASE Answer(w) \/ destroySessionBySid(w)
    BY <2>1, RestingInv DEF Answer, destroySessionBySid
  <2> QED BY <1>2, <2>1, AcquireLockInv, PollInv, RefreshInv, PersistReadInv, PersistWriteInv,
             ReleaseLockInv, EncodeReadInv, EncodeWriteInv, TouchWriteInv, LogoutInv DEF Proceed
<1>3. ASSUME NEW w \in Worker,
             Decode(w) \/ TouchRead(w) \/ Logout(w) \/ ClearInvalidSession(w) \/ Fail(w)
      PROVE  Inv'
  BY <1>3, DecodeInv, TouchReadInv, LogoutInv, FailInv
<1>4. CASE LockExpires \/ Tick \/ SsoEnds BY <1>4, AroundInv
<1> QED BY <1>1, <1>2, <1>3, <1>4 DEF Next

LEMMA Always == Spec => []Inv
BY InitInv, NextInv, PTL DEF Spec

(* The record, the lock, the provider and the requests keep their types.   *)
THEOREM TypeCorrect == Spec => []TypeOK
<1>1. Inv => TypeOK BY DEF Inv
<1> QED BY <1>1, Always, PTL

(* For any timeouts and any number of requests, no touch, refresh or late  *)
(* encode carries a session past its absolute timeout.                     *)
THEOREM TimeoutKept == Spec => []AbsoluteTimeout
<1>1. Inv => AbsoluteTimeout
  BY SessionAssumption DEF Inv, RecordKept, AbsoluteTimeout, TypeOK
<1> QED BY <1>1, Always, PTL

(* For any number of requests, none goes on with an access token that was  *)
(* no longer fresh when it started, even if it waited for a peer.          *)
THEOREM AnswersFresh == Spec => []AnswerFresh
<1>1. ASSUME Inv, NEW w \in Worker, req[w].phase = "answered"
      PROVE  LET session == SessionOf(w)
                 answers == {BackendProxy(session), ServerContext(session)}
             IN \/ answers = {"FORWARDED"} /\ \A t \in session.accessToken : t.staleAt > req[w].since
                \/ answers = {"SESSION_EXPIRED"}
  <2>1. CASE Expired(req[w].token)
    BY <2>1 DEF SessionOf, BackendProxy, ServerContext, Unauthorized
  <2>2. CASE ~Expired(req[w].token)
    <3>1. req[w].token.staleAt > req[w].since
      BY <1>1, <2>2 DEF Inv, Sound, IsDecided, HasToken
    <3> QED
      BY <2>2, <3>1 DEF SessionOf, BackendProxy, ServerContext
  <2> QED BY <2>1, <2>2
<1>2. Inv => AnswerFresh BY <1>1 DEF AnswerFresh
<1> QED BY <1>2, Always, PTL

(* For any number of requests, nobody but its owner and its expiry frees   *)
(* the refresh lock.                                                       *)
THEOREM LockOwned == Spec => LockKept
<1> DEFINE Kept == \A v, w \in Worker :
                     req[v].phase # req'[v].phase /\ v # w /\ lock = w => lock' = w
<1>1. Inv /\ [Next]_vars => Kept
  <2> SUFFICES ASSUME Inv, [Next]_vars, NEW v \in Worker, NEW w \in Worker,
                      req[v].phase # req'[v].phase, v # w, lock = w
               PROVE  lock' = w
    OBVIOUS
  <2>1. \A u \in Worker : Unblocked[u].phase = req[u].phase BY UnblockedInv
  <2>2. req \in [Worker -> Request] /\ w # Free BY SessionAssumption DEF Inv, TypeOK
  <2>3. Next BY DEF vars
  <2>4. ASSUME NEW u \in Worker, AcquireLock(u) PROVE lock' = w BY <2>2, <2>4 DEF AcquireLock
  <2>5. ASSUME NEW u \in Worker, ReleaseLock(u) PROVE lock' = w
    <3>1. CASE lock = u
      <4>1. u # v BY <3>1
      <4>2. req'[v].phase = req[v].phase
        BY <2>1, <2>2, <2>5, <4>1 DEF ReleaseLock, Unblocked
      <4> QED BY <4>2
    <3>2. CASE lock # u BY <2>5, <3>2 DEF ReleaseLock
    <3> QED BY <3>1, <3>2
  <2>6. ASSUME NEW u \in Worker, Fail(u) PROVE lock' = w
    <3>1. CASE req' = [Unblocked EXCEPT ![u] = Resting] /\ lock = u
      <4>1. u # v BY <3>1
      <4>2. req'[v].phase = req[v].phase BY <2>1, <3>1, <4>1 DEF Unblocked
      <4> QED BY <4>2
    <3>2. CASE lock' = lock BY <3>2
    <3> QED BY <2>6, <3>1, <3>2 DEF Fail
  <2>7. CASE LockExpires
    <3>1. req'[v].phase = req[v].phase BY <2>1, <2>7 DEF LockExpires
    <3> QED BY <3>1
  <2>8. ASSUME UNCHANGED lock PROVE lock' = w BY <2>8
  <2> QED BY <2>3, <2>4, <2>5, <2>6, <2>7, <2>8
          DEF Next, Proceed, Decode, Poll, Deadline, Refresh, PersistRead, PersistWrite, EncodeRead,
              EncodeWrite, Answer, TouchRead, TouchWrite, Logout, Revoke, ClearInvalidSession,
              destroySessionBySid, Tick, SsoEnds
<1>2. Spec => [][Kept]_vars BY <1>1, Always, PTL DEF Spec
<1> QED BY <1>2 DEF LockKept
-----------------------------------------------------------------------------
(* The rotation of the refresh tokens, when no two requests run at the     *)
(* same time.  Every copy of the tokens, in the record or in the request,  *)
(* is then the last one issued or an expired one, except for the record    *)
(* while its successor is on its way: a request that fails there loses an  *)
(* answer of the provider.                                                 *)
Alone == \A v, w \in Worker : v = w

IsTrying == {"acquire", "wait", "retry", "refresh"}
IsSaving == {"persist", "store"}

Current(t) == t.refresh \in {0, provider.issued}

Latest ==
  \A w \in Worker :
    /\ req[w].phase \in IsTrying => ~Expired(req[w].token)
    /\ provider.alive /\ ~provider.lost =>
         /\ req[w].phase \in HasToken => Current(req[w].token)
         /\ req[w].phase = "extend" => Current(req[w].read.token)
         /\ record # NoRecord /\ req[w].phase \notin IsSaving => Current(record.token)

LEMMA Turn ==
  ASSUME Inv, Alone, NEW w \in Worker, NEW r, req'[w] = r,
         r.phase \in IsTrying => ~Expired(r.token),
         provider'.alive /\ ~provider'.lost =>
           /\ r.phase \in HasToken => r.token.refresh \in {0, provider'.issued}
           /\ r.phase = "extend" => r.read.token.refresh \in {0, provider'.issued}
           /\ record' # NoRecord /\ r.phase \notin IsSaving
                => record'.token.refresh \in {0, provider'.issued}
  PROVE  Latest'
BY DEF Alone, Latest, Current, Expired

(* A request of its own: what it read and holds is what is there.          *)
LEMMA Became == ASSUME Inv, NEW w \in Worker, NEW r, Become(w, r) PROVE req'[w] = r
BY DEF Become, Inv, TypeOK

LEMMA InitLatest == Init => Latest
<1> SUFFICES ASSUME Init PROVE Latest OBVIOUS
<1>1. \A w \in Worker : req[w].phase = "idle" BY DEF Init, Resting
<1>2. record.token.refresh = 1 /\ provider.issued = 1 BY DEF Init
<1> QED BY <1>1, <1>2 DEF Latest, Current, IsTrying, HasToken

LEMMA DecodeLatest == ASSUME Inv, Alone, Latest, NEW w \in Worker, Decode(w) PROVE Latest'
<1> DEFINE t == [record.token EXCEPT !.absolute = record.absolute]
           r == [Resting EXCEPT !.token = t, !.since = now,
                   !.phase = IF Expired(t) \/ isTokenFresh(t) THEN "encode" ELSE "acquire"]
<1>1. /\ Become(w, r) /\ UNCHANGED <<record, provider>> /\ record # NoRecord
      /\ req[w].phase = "idle"
  BY DEF Decode
<1>2. record.token \in Token BY <1>1 DEF Inv, RecordKept, DatedRecord, Dated
<1>3. t.refresh = record.token.refresh BY <1>2 DEF Token
<1> HIDE DEF t
<1>4. /\ r.token = t /\ r.phase \in {"encode", "acquire"}
      /\ r.phase = "acquire" => ~Expired(t)
  BY DEF Resting
<1> HIDE DEF r
<1>5. req'[w] = r BY <1>1, Became
<1> QED BY <1>1, <1>3, <1>4, <1>5, Turn DEF Latest, Current, IsTrying, IsSaving

(* A request goes on with the tokens it has; the rest stays as it was.     *)
LEMMA GoesOn ==
  ASSUME Inv, Alone, Latest, NEW w \in Worker,
         req[w].phase \in HasToken \ IsSaving,
         req'[w].token = req[w].token, req'[w].phase \in HasToken \ IsSaving,
         req'[w].phase \in IsTrying => req[w].phase \in IsTrying,
         record' = record, provider' = provider
  PROVE  Latest'
<1>1. PICK r : r = req'[w] OBVIOUS
<1> QED BY <1>1, Turn DEF Latest, Current, HasToken, IsSaving

LEMMA WaitsLatest ==
  ASSUME Inv, Alone, Latest, NEW w \in Worker, AcquireLock(w) \/ Poll(w) \/ Deadline(w)
  PROVE  Latest'
<1>1. req \in [Worker -> Request] /\ req[w] \in Request BY DEF Inv, TypeOK
<1>2. UNCHANGED <<record, provider>> BY DEF AcquireLock, Poll, Deadline
<1>3. CASE AcquireLock(w) \/ Become(w, [req[w] EXCEPT !.phase = "retry"])
  <2>1. req[w].phase \in IsTrying BY DEF AcquireLock, Poll, Deadline, IsTrying
  <2> DEFINE Possible == {[req[w] EXCEPT !.phase = "refresh", !.locked = TRUE],
                          [req[w] EXCEPT !.phase = "wait", !.blocked = TRUE],
                          [req[w] EXCEPT !.phase = "refresh"],
                          [req[w] EXCEPT !.phase = "retry"]}
  <2>2. \A r \in Possible : r.token = req[w].token /\ r.phase \in {"refresh", "wait", "retry"}
    BY <1>1 DEF Request
  <2>3. PICK r \in Possible : Become(w, r) BY <1>3 DEF AcquireLock
  <2> HIDE DEF Possible
  <2>4. /\ req'[w].token = req[w].token /\ req'[w].phase \in {"refresh", "wait", "retry"}
    BY <2>2, <2>3, Became
  <2> QED BY <1>2, <2>1, <2>4, GoesOn DEF IsTrying, HasToken, IsSaving
<1>4. CASE /\ record # NoRecord /\ req[w].phase = "wait"
           /\ Become(w, [req[w] EXCEPT !.phase = "encode", !.token = record.token])
  <2> DEFINE r == [req[w] EXCEPT !.phase = "encode", !.token = record.token]
  <2>1. r.phase = "encode" /\ r.token = record.token BY <1>1 DEF Request
  <2> HIDE DEF r
  <2>2. req'[w] = r BY <1>4, Became DEF r
  <2> QED BY <1>2, <1>4, <2>1, <2>2, Turn DEF Latest, Current, IsTrying, IsSaving
<1> QED BY <1>3, <1>4 DEF Poll, Deadline

LEMMA RefreshLatest ==
  ASSUME Inv, Alone, Latest, NEW w \in Worker, Refresh(w) PROVE Latest'
<1> DEFINE t == req[w].token
           rotated == [t EXCEPT !.refresh = provider.issued + 1, !.staleAt = now + Lifetime]
           Go(token) == [req[w] EXCEPT !.phase = "persist", !.token = token]
<1>1. /\ req[w] \in Request /\ req[w].phase = "refresh" /\ Dated(t)
      /\ provider \in [issued: Nat, alive: BOOLEAN, lost: BOOLEAN]
  BY DEF Refresh, Inv, TypeOK, Sound, HasToken
<1>2. t \in Token BY <1>1 DEF Dated
<1>3. rotated.refresh = provider.issued + 1 /\ expireSessionToken(t).refresh = 0
  BY <1>2 DEF Token, expireSessionToken
<1>4. ASSUME NEW token PROVE Go(token).phase = "persist" /\ Go(token).token = token
  BY <1>1 DEF Request
<1>5. \/ /\ Become(w, Go(rotated)) /\ provider' = [provider EXCEPT !.issued = @ + 1]
      \/ Become(w, Go(expireSessionToken(t)))
  BY DEF Refresh
<1> HIDE DEF Go, rotated, t
<1>6. CASE Become(w, Go(expireSessionToken(t)))
  <2>1. req'[w] = Go(expireSessionToken(t)) BY <1>6, Became
  <2> QED BY <1>3, <1>4, <2>1, Turn DEF IsTrying, IsSaving
<1>7. CASE Become(w, Go(rotated)) /\ provider' = [provider EXCEPT !.issued = @ + 1]
  <2>1. req'[w] = Go(rotated) BY <1>7, Became
  <2>2. provider'.issued = provider.issued + 1 BY <1>1, <1>7
  <2> QED BY <1>3, <1>4, <2>1, <2>2, Turn DEF IsTrying, IsSaving
<1> QED BY <1>5, <1>6, <1>7

LEMMA PersistLatest ==
  ASSUME Inv, Alone, Latest, NEW w \in Worker, PersistRead(w) \/ PersistWrite(w)
  PROVE  Latest'
<1>1. /\ req[w] \in Request /\ req[w].phase \in HasToken /\ provider' = provider
      /\ req[w].token \in Token
  BY DEF PersistRead, PersistWrite, Inv, TypeOK, Sound, HasToken, Dated
<1>2. CASE PersistRead(w) /\ record = NoRecord
  <2> DEFINE t == expireSessionToken(req[w].token)
             r == [req[w] EXCEPT !.phase = "release", !.token = t]
  <2>1. t.refresh = 0 BY <1>1 DEF Token, expireSessionToken
  <2>2. r.phase = "release" /\ r.token = t BY <1>1 DEF Request
  <2>3. Become(w, r) /\ record' = NoRecord BY <1>2 DEF PersistRead
  <2> HIDE DEF r, t
  <2> QED BY <2>1, <2>2, <2>3, Became, Turn DEF IsTrying
<1>3. CASE PersistRead(w) /\ record # NoRecord
  <2> DEFINE r == [req[w] EXCEPT !.phase = "store", !.read = record]
  <2>1. r.phase = "store" /\ r.token = req[w].token BY <1>1 DEF Request
  <2>2. Become(w, r) BY <1>3 DEF PersistRead
  <2> HIDE DEF r
  <2> QED BY <1>1, <2>1, <2>2, Became, Turn DEF IsTrying, IsSaving, Latest, Current
<1>4. CASE PersistWrite(w)
  <2> DEFINE t == [req[w].token EXCEPT !.absolute = req[w].read.absolute]
             c == [req[w].read EXCEPT !.token = t]
             r == [req[w] EXCEPT !.phase = "release", !.token = t, !.read = NoRecord]
  <2>1. t.refresh = req[w].token.refresh BY <1>1 DEF Token
  <2>2. record' = writeRecord(c) /\ Become(w, r) BY <1>4 DEF PersistWrite
  <2>3. req[w].read \in Record
    BY <1>4 DEF PersistWrite, Inv, Sound, DatedRecord
  <2> HIDE DEF t
  <2>4. c.token = t BY <2>3 DEF Record
  <2>5. r.phase = "release" /\ r.token = t BY <1>1 DEF Request
  <2> HIDE DEF r, c
  <2>6. record' # NoRecord => record'.token = t BY <2>2, <2>4 DEF writeRecord
  <2> QED BY <1>1, <2>1, <2>2, <2>5, <2>6, Became, Turn DEF IsTrying, Latest, Current
<1> QED BY <1>2, <1>3, <1>4

LEMMA EncodeLatest ==
  ASSUME Inv, Alone, Latest, NEW w \in Worker, EncodeRead(w) \/ EncodeWrite(w)
  PROVE  Latest'
<1>1. /\ req[w] \in Request /\ req[w].phase \in {"encode", "rewrite"} /\ provider' = provider
      /\ req[w].token \in Token
  BY DEF EncodeRead, EncodeWrite, Inv, TypeOK, Sound, HasToken, Dated
<1>2. CASE EncodeRead(w)
  <2>1. req'[w] = [req[w] EXCEPT !.phase = "rewrite", !.read = record] /\ record' = record
    BY <1>2, Became DEF EncodeRead
  <2>2. req'[w].token = req[w].token /\ req'[w].phase = "rewrite" BY <1>1, <2>1 DEF Request
  <2> QED BY <1>1, <2>1, <2>2, GoesOn DEF HasToken, IsSaving, IsTrying
<1>3. CASE EncodeWrite(w)
  <2> DEFINE t == req[w].token
             existing == req[w].read
             dated == [t EXCEPT !.absolute = t.absolute]
             seen == IF existing = NoRecord THEN now ELSE existing.seen
             idle == IF existing = NoRecord THEN Earlier(now + Idle, t.absolute) ELSE existing.idle
             c == [token |-> dated, seen |-> seen, idle |-> idle, absolute |-> t.absolute]
             r == [req[w] EXCEPT !.phase = "answered", !.read = NoRecord]
  <2>1. record' = writeRecord(c) /\ Become(w, r)
    BY <1>3 DEF EncodeWrite, resolveAbsoluteExpiresAtMs
  <2>2. dated.refresh = t.refresh BY <1>1 DEF Token
  <2>3. r.phase = "answered" /\ r.token = t BY <1>1 DEF Request
  <2>4. c.token = dated OBVIOUS
  <2> HIDE DEF dated, seen, idle, c, r
  <2>5. record' # NoRecord => record'.token = dated BY <2>1, <2>4 DEF writeRecord
  <2> QED BY <1>1, <2>1, <2>2, <2>3, <2>5, Became, Turn
          DEF IsTrying, HasToken, Latest, Current
<1> QED BY <1>2, <1>3

(* A request that is over, failed included.                                *)
LEMMA RestsLatest ==
  ASSUME Inv, Alone, Latest, NEW w \in Worker, req'[w] = Resting,
         record' = record \/ record' = NoRecord,
         provider'.issued = provider.issued,
         provider'.alive => provider.alive,
         ~provider'.lost => ~provider.lost /\ req[w].phase \notin IsSaving
  PROVE  Latest'
<1>1. Resting.phase = "idle" BY DEF Resting
<1> QED BY <1>1, Turn DEF Latest, Current, IsTrying, HasToken

LEMMA TouchLatest ==
  ASSUME Inv, Alone, Latest, NEW w \in Worker, TouchRead(w) \/ TouchWrite(w)
  PROVE  Latest'
<1>1. /\ req[w] \in Request /\ req[w].phase \in {"answered", "extend"} /\ provider' = provider
  BY DEF TouchRead, TouchWrite, Inv, TypeOK
<1>2. CASE TouchRead(w) /\ record = NoRecord
  BY <1>1, <1>2, Became, RestsLatest DEF TouchRead, IsSaving
<1>3. CASE TouchRead(w) /\ record # NoRecord
  <2> DEFINE r == [req[w] EXCEPT !.phase = "extend", !.read = record]
  <2>1. r.phase = "extend" /\ r.read = record BY <1>1 DEF Request
  <2>2. Become(w, r) /\ record' = record BY <1>3 DEF TouchRead
  <2> HIDE DEF r
  <2> QED BY <1>1, <1>3, <2>1, <2>2, Became, Turn
          DEF IsTrying, IsSaving, HasToken, Latest, Current
<1>4. CASE TouchWrite(w)
  <2> DEFINE c == req[w].read
             extended(e) == [c EXCEPT !.seen = now, !.idle = Earlier(now + e, c.absolute),
                                      !.token.absolute = c.absolute]
  <2>1. c \in Record /\ req[w].phase = "extend" /\ Become(w, Resting)
    BY <1>4 DEF TouchWrite, Inv, Sound, DatedRecord
  <2>2. PICK e \in Extension \cup (IF c.seen = now THEN {0} ELSE {Idle}) :
          record' = IF e = 0 THEN record ELSE writeRecord(extended(e))
    BY <1>4 DEF TouchWrite
  <2>3. extended(e).token.refresh = c.token.refresh
    <3> DEFINE i == Earlier(now + e, c.absolute)
    <3> HIDE DEF i
    <3>1. LET x == [c EXCEPT !.seen = now, !.idle = i, !.token.absolute = c.absolute]
          IN  x.token.refresh = c.token.refresh
      BY <2>1 DEF Record, Token
    <3> QED BY <3>1 DEF i
  <2> HIDE DEF extended, c
  <2>4. record' = record \/ record' = NoRecord \/ record'.token.refresh = c.token.refresh
    BY <2>2, <2>3 DEF writeRecord
  <2>5. Resting.phase = "idle" BY DEF Resting
  <2> QED BY <1>1, <2>1, <2>4, <2>5, Became, Turn
          DEF IsTrying, IsSaving, HasToken, Latest, Current, c
<1> QED BY <1>2, <1>3, <1>4

LEMMA LogoutLatest ==
  ASSUME Inv, Alone, Latest, NEW w \in Worker,
         Logout(w) \/ ClearInvalidSession(w) \/ Revoke(w) \/ destroySessionBySid(w)
  PROVE  Latest'
<1>1. /\ req[w] \in Request /\ req[w].phase \in {"idle", "revoke", "destroy"}
      /\ record' = record \/ record' = NoRecord
      /\ provider \in [issued: Nat, alive: BOOLEAN, lost: BOOLEAN]
  BY DEF Logout, ClearInvalidSession, Revoke, destroySessionBySid, Inv, TypeOK
<1>2. /\ provider'.issued = provider.issued /\ provider'.lost = provider.lost
      /\ provider'.alive => provider.alive
  BY <1>1 DEF Logout, ClearInvalidSession, Revoke, destroySessionBySid
<1>3. req'[w].phase \in {"idle", "revoke", "destroy"}
  BY <1>1, Became DEF Logout, ClearInvalidSession, Revoke, destroySessionBySid, Become, Resting, Request,
                      Inv, TypeOK
<1>4. PICK r : r = req'[w] OBVIOUS
<1> QED BY <1>1, <1>2, <1>3, <1>4, Turn DEF IsTrying, IsSaving, HasToken, Latest, Current

LEMMA ReleaseLatest ==
  ASSUME Inv, Alone, Latest, NEW w \in Worker, ReleaseLock(w) PROVE Latest'
<1> DEFINE others == IF req[w].locked /\ lock = w THEN Unblocked ELSE req
<1>1. req[w].phase = "release" /\ UNCHANGED <<record, provider>> BY DEF ReleaseLock
<1>2. others \in [Worker -> Request] /\ others[w].token = req[w].token
  BY UnblockedInv DEF Unblocked, Inv, TypeOK
<1>3. req' = [others EXCEPT ![w].phase = "encode", ![w].locked = FALSE] BY DEF ReleaseLock
<1> HIDE DEF others
<1>4. req'[w].token = req[w].token /\ req'[w].phase = "encode" BY <1>2, <1>3 DEF Request
<1> QED BY <1>1, <1>4, GoesOn DEF HasToken, IsSaving, IsTrying

LEMMA FailLatest == ASSUME Inv, Alone, Latest, NEW w \in Worker, Fail(w) PROVE Latest'
<1>1. provider \in [issued: Nat, alive: BOOLEAN, lost: BOOLEAN] BY DEF Inv, TypeOK
<1>2. provider' = [provider EXCEPT !.lost = @ \/ req[w].phase \in IsSaving] /\ record' = record
  BY DEF Fail, IsSaving
<1>3. /\ provider'.issued = provider.issued /\ provider'.alive = provider.alive
      /\ provider'.lost = (provider.lost \/ req[w].phase \in IsSaving)
  BY <1>1, <1>2
<1>4. req'[w] = Resting
  <2>1. Become(w, Resting) \/ req' = [Unblocked EXCEPT ![w] = Resting] BY DEF Fail
  <2> QED BY <2>1, Became DEF Unblocked
<1> QED BY <1>2, <1>3, <1>4, RestsLatest

LEMMA AroundLatest == ASSUME Inv, Alone, Latest, LockExpires \/ Tick \/ SsoEnds PROVE Latest'
<1>1. provider \in [issued: Nat, alive: BOOLEAN, lost: BOOLEAN] BY DEF Inv, TypeOK
<1>2. /\ provider'.issued = provider.issued /\ provider'.lost = provider.lost
      /\ provider'.alive => provider.alive
  BY <1>1 DEF LockExpires, Tick, SsoEnds
<1>3. record' = record \/ record' = NoRecord BY DEF LockExpires, Tick, SsoEnds
<1>4. ASSUME NEW w \in Worker
      PROVE  /\ req'[w].phase = req[w].phase /\ req'[w].token = req[w].token
             /\ req'[w].read = req[w].read
  BY UnblockedInv DEF LockExpires, Tick, SsoEnds
<1> QED BY <1>2, <1>3, <1>4 DEF Latest, Current, Expired

LEMMA NextLatest == Alone /\ Inv /\ Latest /\ [Next]_vars => Latest'
<1> SUFFICES ASSUME Alone, Inv, Latest, [Next]_vars PROVE Latest' OBVIOUS
<1>1. CASE UNCHANGED vars BY <1>1 DEF vars, Latest, Current, Expired
<1>2. ASSUME NEW w \in Worker, Proceed(w) PROVE Latest'
  <2>1. CASE Answer(w)
    BY <2>1, Became, RestsLatest DEF Answer, IsSaving
  <2> QED BY <1>2, <2>1, WaitsLatest, RefreshLatest, PersistLatest, ReleaseLatest, EncodeLatest,
             TouchLatest, LogoutLatest DEF Proceed
<1>3. ASSUME NEW w \in Worker,
             Decode(w) \/ TouchRead(w) \/ Logout(w) \/ ClearInvalidSession(w) \/ Fail(w)
      PROVE  Latest'
  BY <1>3, DecodeLatest, TouchLatest, LogoutLatest, FailLatest
<1>4. CASE LockExpires \/ Tick \/ SsoEnds BY <1>4, AroundLatest
<1> QED BY <1>1, <1>2, <1>3, <1>4 DEF Next

(* When no two requests of a session run at the same time, the refresh     *)
(* token that goes to the provider is the one it issued last, whatever     *)
(* failed before and for any timeouts: what breaks the rotation in the run *)
(* of two requests is their interleaving.                                  *)
THEOREM RotationAlone == ASSUME Alone PROVE Spec => []RotationSafe
<1>1. Inv /\ Latest => RotationSafe
  BY DEF Latest, Current, RotationSafe, IsTrying, HasToken, Expired
<1>2. Alone /\ Init => Latest BY InitLatest
<1>3. Inv /\ Latest /\ [Next]_vars => Latest' BY NextLatest
<1> QED BY <1>1, <1>2, <1>3, InitLatest, Always, PTL DEF Spec
=================================================================================
