------------------------ MODULE AttachmentStore_proofs ------------------------
(***************************************************************************)
(* A confirmed attachment keeps its object, for any number of keys and of  *)
(* requests.                                                               *)
(*                                                                         *)
(* The argument: whoever is about to delete an object either looked it up  *)
(* when it was no longer fresh, and then a confirm that follows is late,   *)
(* or answers for a confirm of its own, and then the confirm that made the *)
(* row was not the only one.                                               *)
(***************************************************************************)
EXTENDS AttachmentStore, TLAPS

Confirming(w, x) == job[w].phase = "confirming" /\ job[w].key = x
Owes(w, x) == x \in job[w].owed /\ ~job[w].presign

(* What can be overwritten is fresh.                                       *)
Aged(x) == object[x] \in {"stale", "old"} => url[x] = "expired"

(* The object is past overwriting, and a confirm of it was late.           *)
Passed(x) == url[x] = "expired" /\ object[x] # "fresh"
PassedOver(x) == Passed(x) /\ (row[x] = "ACTIVE" => x \in late)

CleanupsWait(x) ==
  /\ \A w \in Worker : x \in job[w].owed /\ job[w].presign => PassedOver(x)
  /\ x \in night.listed => Passed(x)
  /\ x \in night.owed => PassedOver(x)

(* As long as a key had one confirm, that confirm, the row it made and the *)
(* deletion it or the row led to exclude each other.                       *)
OneClaim(x) ==
  /\ tries[x] = 0 => row[x] = "NONE" /\ \A w \in Worker : ~Confirming(w, x) /\ ~Owes(w, x)
  /\ tries[x] = 1 =>
       \A w \in Worker :
         /\ Confirming(w, x) => /\ row[x] = "NONE"
                                /\ \A v \in Worker : ~Owes(v, x) /\ (Confirming(v, x) => v = w)
         /\ Owes(w, x) => row[x] # "ACTIVE"

Sound(x) == Aged(x) /\ CleanupsWait(x) /\ OneClaim(x)
Keyed(w) == job[w].phase = "confirming" => job[w].key \in Key
Inv == TypeOK /\ (\A w \in Worker : Keyed(w)) /\ (\A x \in Key : Sound(x)) /\ ActiveKeepsObject

LEMMA InitInv == Init => Inv
<1> SUFFICES ASSUME Init PROVE Inv OBVIOUS
<1>1. TypeOK BY DEF Init, TypeOK, Age, Job, Phase, Night, Idle, NightIdle
<1>2. ASSUME NEW x \in Key PROVE Sound(x)
  BY DEF Init, Sound, Aged, CleanupsWait, OneClaim, Confirming, Owes, Idle, NightIdle
<1>3. ActiveKeepsObject BY DEF Init, ActiveKeepsObject, Active
<1>4. \A w \in Worker : Keyed(w) BY DEF Init, Keyed, Idle
<1> QED BY <1>1, <1>2, <1>3, <1>4 DEF Inv

(* A request that goes on and has no claim of its own afterwards.          *)
LEMMA QuietRequest ==
  ASSUME Inv, NEW w \in Worker, NEW j \in Job, job' = [job EXCEPT ![w] = j],
         j.phase # "confirming",
         j.owed = {} \/ (j.owed \subseteq job[w].owed /\ j.presign = job[w].presign),
         UNCHANGED <<app, object, row, night, late, tries>>,
         url' = url \/ \E x \in Key : url[x] = "none" /\ url' = [url EXCEPT ![x] = "valid"]
  PROVE  Inv'
<1>1. TypeOK' BY DEF Inv, TypeOK
<1>2. \A v \in Worker : job'[v] = IF v = w THEN j ELSE job[v] BY DEF Inv, TypeOK
<1>3. ASSUME NEW x \in Key PROVE Sound(x)'
  <2>1. Sound(x) BY DEF Inv
  <2>2. url'[x] = url[x] \/ url[x] = "none" BY DEF Inv, TypeOK
  <2>3. Aged(x)' BY <2>1, <2>2 DEF Sound, Aged
  <2>4. CleanupsWait(x)' BY <1>2, <2>1, <2>2 DEF Sound, CleanupsWait, Passed, PassedOver
  <2>5. OneClaim(x)' BY <1>2, <2>1 DEF Sound, OneClaim, Confirming, Owes
  <2> QED BY <2>3, <2>4, <2>5 DEF Sound
<1>4. ActiveKeepsObject' BY DEF Inv, ActiveKeepsObject, Active, Present
<1>5. \A v \in Worker : Keyed(v)' BY <1>2 DEF Inv, Keyed
<1> QED BY <1>1, <1>3, <1>4, <1>5 DEF Inv

LEMMA ListUploadsInv == ASSUME Inv, NEW w \in Worker, ListUploads(w) PROVE Inv'
<1> DEFINE j == [Idle EXCEPT !.phase = "listed", !.listed = Present]
<1>1. j \in Job /\ j.phase = "listed" /\ j.owed = {} BY DEF Idle, Job, Phase, Present
<1>2. job' = [job EXCEPT ![w] = j] /\ UNCHANGED <<app, url, object, row, night, late, tries>>
  BY DEF ListUploads
<1> QED BY <1>1, <1>2, QuietRequest

LEMMA ReadRowsInv == ASSUME Inv, NEW w \in Worker, ReadRows(w) PROVE Inv'
<1> DEFINE gone == {x \in job[w].listed \ Active : object[x] \in {"stale", "old"}}
           j == [Deleting(gone) EXCEPT !.presign = TRUE]
<1>1. gone \subseteq Key BY DEF Inv, TypeOK, Job
<1>2. j \in Job /\ j.phase = "deleting" /\ j.owed = gone /\ j.presign
  BY <1>1 DEF Deleting, Idle, Job, Phase
<1>3. job' = [job EXCEPT ![w] = j] /\ UNCHANGED <<app, url, object, row, night, late, tries>>
  BY DEF ReadRows
<1>4. \A x \in gone : object[x] \in {"stale", "old"} /\ row[x] # "ACTIVE" BY <1>1 DEF Active
<1> HIDE DEF j, gone
<1>5. TypeOK' BY <1>2, <1>3 DEF Inv, TypeOK
<1>6. \A v \in Worker : job'[v] = IF v = w THEN j ELSE job[v] BY <1>3 DEF Inv, TypeOK
<1>7. ASSUME NEW x \in Key PROVE Sound(x)'
  <2>1. Sound(x) BY DEF Inv
  <2>2. Aged(x)' BY <1>3, <2>1 DEF Sound, Aged
  <2>3. CleanupsWait(x)'
    BY <1>2, <1>3, <1>4, <1>6, <2>1 DEF Sound, Aged, CleanupsWait, Passed, PassedOver
  <2>4. OneClaim(x)' BY <1>2, <1>3, <1>6, <2>1 DEF Sound, OneClaim, Confirming, Owes
  <2> QED BY <2>2, <2>3, <2>4 DEF Sound
<1>8. ActiveKeepsObject' BY <1>3 DEF Inv, ActiveKeepsObject, Active, Present
<1>9. \A v \in Worker : Keyed(v)' BY <1>2, <1>6 DEF Inv, Keyed
<1> QED BY <1>5, <1>7, <1>8, <1>9 DEF Inv

LEMMA FinishInv == ASSUME Inv, NEW w \in Worker, Finish(w) PROVE Inv'
<1>1. Idle \in Job /\ Idle.phase = "idle" /\ Idle.owed = {} BY DEF Idle, Job, Phase
<1> QED BY <1>1, QuietRequest DEF Finish

LEMMA CrashInv == ASSUME Inv, NEW w \in Worker, Crash(w) PROVE Inv'
<1>1. Idle \in Job /\ Idle.phase = "idle" /\ Idle.owed = {} BY DEF Idle, Job, Phase
<1> QED BY <1>1, QuietRequest DEF Crash

(* Another confirm of a key: from the second on nothing is promised.       *)
LEMMA HeadObjectInv ==
  ASSUME Inv, NEW w \in Worker, NEW k \in Key, HeadObject(w, k)
  PROVE  Inv'
<1> DEFINE j == [Idle EXCEPT !.phase = "confirming", !.key = k]
<1>1. j \in Job /\ j.phase = "confirming" /\ j.key = k /\ j.owed = {}
  BY DEF Idle, Job, Phase
<1>2. /\ job' = [job EXCEPT ![w] = j]
      /\ tries' = [tries EXCEPT ![k] = IF tries[k] = 0 THEN 1 ELSE 2]
      /\ UNCHANGED <<app, url, object, row, night, late>>
  BY DEF HeadObject
<1> HIDE DEF j
<1>3. TypeOK' BY <1>1, <1>2 DEF Inv, TypeOK
<1>4. \A v \in Worker : job'[v] = IF v = w THEN j ELSE job[v] BY <1>2 DEF Inv, TypeOK
<1>5. /\ tries'[k] = IF tries[k] = 0 THEN 1 ELSE 2
      /\ \A x \in Key \ {k} : tries'[x] = tries[x]
  BY <1>2 DEF Inv, TypeOK
<1>6. ASSUME NEW x \in Key PROVE Sound(x)'
  <2>1. Sound(x) BY DEF Inv
  <2>2. Aged(x)' BY <1>2, <2>1 DEF Sound, Aged
  <2>3. CleanupsWait(x)' BY <1>1, <1>2, <1>4, <2>1 DEF Sound, CleanupsWait, Passed, PassedOver
  <2>4. OneClaim(x)'
    <3>1. CASE x = k /\ tries[k] = 0
      BY <1>1, <1>2, <1>4, <1>5, <2>1, <3>1 DEF Sound, OneClaim, Confirming, Owes
    <3>2. CASE x = k /\ tries[k] # 0
      BY <1>5, <3>2 DEF OneClaim
    <3>3. CASE x # k
      BY <1>1, <1>2, <1>4, <1>5, <2>1, <3>3 DEF Sound, OneClaim, Confirming, Owes
    <3> QED BY <3>1, <3>2, <3>3
  <2> QED BY <2>2, <2>3, <2>4 DEF Sound
<1>7. ActiveKeepsObject'
  <2> SUFFICES ASSUME NEW x \in Active' \ late', tries'[x] = 1 PROVE x \in Present'
    BY DEF ActiveKeepsObject
  <2>1. x \in Key /\ row[x] = "ACTIVE" /\ x \notin late BY <1>2 DEF Active
  <2>2. tries[x] = 1
    <3>1. Sound(x) /\ tries[x] \in 0..2 BY <2>1 DEF Inv, TypeOK
    <3>2. tries[x] # 0 BY <2>1, <3>1 DEF Sound, OneClaim
    <3> QED BY <1>5, <2>1, <3>1, <3>2
  <2> QED BY <1>2, <2>1, <2>2 DEF Inv, ActiveKeepsObject, Active, Present
<1>8. \A v \in Worker : Keyed(v)' BY <1>1, <1>4 DEF Inv, Keyed
<1> QED BY <1>3, <1>6, <1>7, <1>8 DEF Inv

(* The confirm that fails owes its object instead.                         *)
LEMMA RejectConfirmInv == ASSUME Inv, NEW w \in Worker, RejectConfirm(w) PROVE Inv'
<1> DEFINE k == job[w].key
           j == Deleting({k})
<1>1. k \in Key /\ Confirming(w, k) BY DEF RejectConfirm, Inv, Keyed, Confirming
<1>2. job' = [job EXCEPT ![w] = j] /\ UNCHANGED <<app, url, object, row, night, late, tries>>
  BY DEF RejectConfirm
<1>3. j \in Job /\ j.phase = "deleting" /\ j.owed = {k} /\ ~j.presign
  BY <1>1 DEF Deleting, Idle, Job, Phase
<1> HIDE DEF j, k
<1>4. TypeOK' BY <1>2, <1>3 DEF Inv, TypeOK
<1>5. \A v \in Worker : job'[v] = IF v = w THEN j ELSE job[v] BY <1>2 DEF Inv, TypeOK
<1>6. ASSUME NEW x \in Key PROVE Sound(x)'
  <2>1. Sound(x) BY DEF Inv
  <2>2. Aged(x)' BY <1>2, <2>1 DEF Sound, Aged
  <2>3. CleanupsWait(x)' BY <1>2, <1>3, <1>5, <2>1 DEF Sound, CleanupsWait, Passed, PassedOver
  <2>4. OneClaim(x)'
    BY <1>1, <1>2, <1>3, <1>5, <2>1 DEF Sound, OneClaim, Confirming, Owes
  <2> QED BY <2>2, <2>3, <2>4 DEF Sound
<1>7. ActiveKeepsObject' BY <1>2 DEF Inv, ActiveKeepsObject, Active, Present
<1>8. \A v \in Worker : Keyed(v)' BY <1>3, <1>5 DEF Inv, Keyed
<1> QED BY <1>4, <1>6, <1>7, <1>8 DEF Inv

(* Rows go, and the request owes the objects of some that are active no    *)
(* more.                                                                   *)
LEMMA RowsGo ==
  ASSUME Inv, NEW w \in Worker, NEW owed \in SUBSET Key,
         job' = [job EXCEPT ![w] = Deleting(owed)],
         app' \in {"editable", "locked", "deleted"},
         row' \in [Key -> {"NONE", "ACTIVE", "INACTIVE"}],
         \A x \in Key : row'[x] = row[x] \/ (row'[x] # "ACTIVE" /\ row[x] # "NONE"),
         \A x \in owed : row'[x] # "ACTIVE" /\ row[x] # "NONE",
         UNCHANGED <<url, object, night, late, tries>>
  PROVE  Inv'
<1> DEFINE j == Deleting(owed)
<1>1. j \in Job /\ j.phase = "deleting" /\ j.owed = owed /\ ~j.presign
  BY DEF Deleting, Idle, Job, Phase
<1>2. job' = [job EXCEPT ![w] = j] OBVIOUS
<1> HIDE DEF j
<1>3. TypeOK' BY <1>1, <1>2 DEF Inv, TypeOK
<1>4. \A v \in Worker : job'[v] = IF v = w THEN j ELSE job[v] BY <1>2 DEF Inv, TypeOK
<1>5. ASSUME NEW x \in Key PROVE Sound(x)'
  <2>1. Sound(x) BY DEF Inv
  <2>2. Aged(x)' BY <2>1 DEF Sound, Aged
  <2>3. CleanupsWait(x)' BY <1>1, <1>4, <2>1 DEF Sound, CleanupsWait, Passed, PassedOver
  <2>4. OneClaim(x)' BY <1>1, <1>4, <2>1 DEF Sound, OneClaim, Confirming, Owes
  <2> QED BY <2>2, <2>3, <2>4 DEF Sound
<1>6. ActiveKeepsObject' BY DEF Inv, ActiveKeepsObject, Active, Present
<1>7. \A v \in Worker : Keyed(v)' BY <1>1, <1>4 DEF Inv, Keyed
<1> QED BY <1>3, <1>5, <1>6, <1>7 DEF Inv

LEMMA DeleteAttachmentInv ==
  ASSUME Inv, NEW w \in Worker, NEW k \in Key, DeleteAttachment(w, k)
  PROVE  Inv'
<1>1. {k} \in SUBSET Key /\ row[k] = "ACTIVE" BY DEF DeleteAttachment, Active
<1>2. row' \in [Key -> {"NONE", "ACTIVE", "INACTIVE"}] BY DEF DeleteAttachment, Inv, TypeOK
<1>3. \A x \in Key : row'[x] = IF x = k THEN "INACTIVE" ELSE row[x]
  BY DEF DeleteAttachment, Inv, TypeOK
<1>4. /\ job' = [job EXCEPT ![w] = Deleting({k})]
      /\ UNCHANGED <<url, object, night, late, tries>>
      /\ app' \in {"editable", "locked", "deleted"}
  BY DEF DeleteAttachment, Inv, TypeOK
<1> QED BY <1>1, <1>2, <1>3, <1>4, RowsGo

LEMMA DeleteApplicationInv ==
  ASSUME Inv, NEW w \in Worker, NEW keys \in SUBSET Key, DeleteApplication(w, keys)
  PROVE  Inv'
<1>1. row' \in [Key -> {"NONE", "ACTIVE", "INACTIVE"}] /\ \A x \in Key : row'[x] = "NONE"
  BY DEF DeleteApplication
<1>2. \A x \in Key : row'[x] = row[x] \/ (row'[x] # "ACTIVE" /\ row[x] # "NONE") BY <1>1
<1>3. \A x \in keys : row'[x] # "ACTIVE" /\ row[x] # "NONE" BY <1>1 DEF DeleteApplication
<1>4. /\ job' = [job EXCEPT ![w] = Deleting(keys)]
      /\ UNCHANGED <<url, object, night, late, tries>>
      /\ app' \in {"editable", "locked", "deleted"}
  BY DEF DeleteApplication
<1> QED BY <1>1, <1>2, <1>3, <1>4, RowsGo

(* The row of a first confirm: nobody else has a claim, and a cleanup that *)
(* has the object makes the confirm a late one.                            *)
LEMMA CommitConfirmInv == ASSUME Inv, NEW w \in Worker, CommitConfirm(w) PROVE Inv'
<1> DEFINE k == job[w].key
<1>1. k \in Key /\ Confirming(w, k) /\ row[k] = "NONE"
  BY DEF CommitConfirm, Inv, Keyed, Confirming
<1>2. PICK replaced \in {{}} \cup {{y} : y \in Active} :
        /\ row' = [y \in Key |-> IF y = k THEN "ACTIVE"
                                 ELSE IF y \in replaced THEN "INACTIVE" ELSE row[y]]
        /\ job' = [job EXCEPT ![w] = Deleting(replaced)]
  BY DEF CommitConfirm
<1>3. replaced \in SUBSET Key /\ \A x \in replaced : row[x] = "ACTIVE" BY <1>2 DEF Active
<1>4. /\ late' = IF object[k] = "fresh" THEN late ELSE late \cup {k}
      /\ UNCHANGED <<app, url, object, night, tries>>
  BY DEF CommitConfirm
<1> DEFINE j == Deleting(replaced)
<1>5. j \in Job /\ j.phase = "deleting" /\ j.owed = replaced /\ ~j.presign
  BY <1>3 DEF Deleting, Idle, Job, Phase
<1>6. job' = [job EXCEPT ![w] = j] BY <1>2
<1> HIDE DEF j, k
<1>7. TypeOK' BY <1>1, <1>2, <1>4, <1>5, <1>6 DEF Inv, TypeOK
<1>8. \A v \in Worker : job'[v] = IF v = w THEN j ELSE job[v] BY <1>6 DEF Inv, TypeOK
<1>9. \A x \in Key : /\ x = k => row'[x] = "ACTIVE"
                     /\ x # k /\ x \in replaced => row'[x] = "INACTIVE"
                     /\ x # k /\ x \notin replaced => row'[x] = row[x]
  BY <1>2
<1>10. k \notin replaced BY <1>1, <1>3
<1>11. ASSUME NEW x \in Key PROVE Sound(x)'
  <2>1. Sound(x) BY DEF Inv
  <2>2. Aged(x)' BY <1>4, <2>1 DEF Sound, Aged
  <2>3. CleanupsWait(x)'
    <3>1. CASE x = k
      BY <1>4, <1>5, <1>8, <2>1, <3>1 DEF Sound, CleanupsWait, Passed, PassedOver
    <3>2. CASE x # k
      BY <1>4, <1>5, <1>8, <1>9, <2>1, <3>2 DEF Sound, CleanupsWait, Passed, PassedOver
    <3> QED BY <3>1, <3>2
  <2>4. OneClaim(x)'
    <3>1. CASE x = k
      BY <1>1, <1>4, <1>5, <1>8, <1>10, <2>1, <3>1 DEF Sound, OneClaim, Confirming, Owes
    <3>2. CASE x # k
      BY <1>3, <1>4, <1>5, <1>8, <1>9, <2>1, <3>2 DEF Sound, OneClaim, Confirming, Owes
    <3> QED BY <3>1, <3>2
  <2> QED BY <2>2, <2>3, <2>4 DEF Sound
<1>12. ActiveKeepsObject'
  <2> SUFFICES ASSUME NEW x \in Key, row'[x] = "ACTIVE", x \notin late', tries[x] = 1
               PROVE  object[x] # "absent"
    BY <1>4 DEF ActiveKeepsObject, Active, Present
  <2>1. CASE x = k BY <1>4, <2>1
  <2>2. CASE x # k BY <1>4, <1>9, <2>2 DEF Inv, ActiveKeepsObject, Active, Present
  <2> QED BY <2>1, <2>2
<1>13. \A v \in Worker : Keyed(v)' BY <1>5, <1>8 DEF Inv, Keyed
<1> QED BY <1>7, <1>11, <1>12, <1>13 DEF Inv

(* An object goes only when nobody relies on it.                           *)
LEMMA ObjectGoes ==
  ASSUME Inv, NEW k \in Key, object' = [object EXCEPT ![k] = "absent"],
         row[k] = "ACTIVE" => k \in late \/ tries[k] # 1,
         UNCHANGED <<row, late, tries>>
  PROVE  ActiveKeepsObject'
<1>1. \A x \in Key : object'[x] = IF x = k THEN "absent" ELSE object[x] BY DEF Inv, TypeOK
<1> QED BY <1>1 DEF Inv, ActiveKeepsObject, Active, Present

LEMMA DeleteObjectInv ==
  ASSUME Inv, NEW w \in Worker, NEW k \in Key, DeleteObject(w, k)
  PROVE  Inv'
<1> DEFINE j == [job[w] EXCEPT !.owed = @ \ {k}]
<1>1. k \in job[w].owed /\ job[w] \in Job BY DEF DeleteObject, Inv, TypeOK
<1>2. /\ j \in Job /\ j.phase = job[w].phase /\ j.key = job[w].key
      /\ j.presign = job[w].presign /\ j.owed = job[w].owed \ {k}
  BY <1>1 DEF Job
<1>3. /\ job' = [job EXCEPT ![w] = j]
      /\ object' = [object EXCEPT ![k] = "absent"] \/ object' = object
      /\ UNCHANGED <<app, url, row, night, late, tries>>
  BY DEF DeleteObject
<1> HIDE DEF j
<1>4. TypeOK' BY <1>2, <1>3 DEF Inv, TypeOK, Age
<1>5. \A v \in Worker : job'[v] = IF v = w THEN j ELSE job[v] BY <1>3 DEF Inv, TypeOK
<1>6. \A x \in Key : object'[x] \in {object[x], "absent"} BY <1>3 DEF Inv, TypeOK
<1>7. ASSUME NEW x \in Key PROVE Sound(x)'
  <2>1. Sound(x) BY DEF Inv
  <2>2. Aged(x)' BY <1>3, <1>6, <2>1 DEF Sound, Aged
  <2>3. CleanupsWait(x)'
    BY <1>2, <1>3, <1>5, <1>6, <2>1 DEF Sound, CleanupsWait, Passed, PassedOver
  <2>4. OneClaim(x)' BY <1>2, <1>3, <1>5, <2>1 DEF Sound, OneClaim, Confirming, Owes
  <2> QED BY <2>2, <2>3, <2>4 DEF Sound
<1>8. row[k] = "ACTIVE" => k \in late \/ tries[k] # 1
  <2>1. Sound(k) BY DEF Inv
  <2>2. CASE job[w].presign BY <1>1, <2>1, <2>2 DEF Sound, CleanupsWait, PassedOver
  <2>3. CASE ~job[w].presign BY <1>1, <2>1, <2>3 DEF Sound, OneClaim, Owes
  <2> QED BY <2>2, <2>3
<1>9. ActiveKeepsObject'
  <2>1. CASE object' = object BY <1>3, <2>1 DEF Inv, ActiveKeepsObject, Active, Present
  <2>2. CASE object' = [object EXCEPT ![k] = "absent"] BY <1>3, <1>8, <2>2, ObjectGoes
  <2> QED BY <1>3, <2>1, <2>2
<1>10. \A v \in Worker : Keyed(v)' BY <1>2, <1>5 DEF Inv, Keyed
<1> QED BY <1>4, <1>7, <1>9, <1>10 DEF Inv

(* What is not a request: the browser, the nightly run, the clock.         *)
LEMMA UploadInv == ASSUME Inv, NEW k \in Key, Upload(k) PROVE Inv'
<1>1. /\ url[k] = "valid" /\ object' = [object EXCEPT ![k] = "fresh"]
      /\ UNCHANGED <<app, url, row, job, night, late, tries>>
  BY DEF Upload
<1>2. TypeOK' BY <1>1 DEF Inv, TypeOK, Age
<1>3. \A x \in Key : object'[x] = IF x = k THEN "fresh" ELSE object[x] BY <1>1 DEF Inv, TypeOK
<1>4. ASSUME NEW x \in Key PROVE Sound(x)'
  BY <1>1, <1>3 DEF Inv, Sound, Aged, CleanupsWait, Passed, PassedOver, OneClaim, Confirming, Owes
<1>5. ActiveKeepsObject' BY <1>1, <1>3 DEF Inv, ActiveKeepsObject, Active, Present
<1>6. \A v \in Worker : Keyed(v)' BY <1>1 DEF Inv, Keyed
<1> QED BY <1>2, <1>4, <1>5, <1>6 DEF Inv

LEMMA TimeInv == ASSUME Inv, NEW k \in Key, Expire(k) \/ GrowOld(k) PROVE Inv'
<1>1. TypeOK' BY DEF Expire, GrowOld, Inv, TypeOK, Age
<1>2. UNCHANGED <<app, row, job, night, late, tries>> BY DEF Expire, GrowOld
<1>3. ASSUME NEW x \in Key
      PROVE  /\ url[x] = "expired" => url'[x] = "expired"
             /\ object'[x] = object[x] \/ (url'[x] = "expired" /\ object'[x] \in {"stale", "old"}
                                            /\ object[x] # "absent")
  BY DEF Expire, GrowOld, Inv, TypeOK
<1>4. ASSUME NEW x \in Key PROVE Sound(x)'
  BY <1>2, <1>3 DEF Inv, Sound, Aged, CleanupsWait, Passed, PassedOver, OneClaim, Confirming, Owes
<1>5. ActiveKeepsObject' BY <1>2, <1>3 DEF Inv, ActiveKeepsObject, Active, Present
<1>6. \A v \in Worker : Keyed(v)' BY <1>2 DEF Inv, Keyed
<1> QED BY <1>1, <1>4, <1>5, <1>6 DEF Inv

LEMMA NightInv ==
  ASSUME Inv, StartNight \/ EndNight \/ AbortNight \/ \E k \in Key : LookUp(k) \/ DeleteOrphan(k)
  PROVE  Inv'
<1>1. UNCHANGED <<app, url, row, job, late, tries>>
  BY DEF StartNight, EndNight, AbortNight, LookUp, DeleteOrphan
<1>2. /\ object' \in [Key -> Age]
      /\ \A x \in Key : object'[x] \in {object[x], "absent"}
  BY DEF StartNight, EndNight, AbortNight, LookUp, DeleteOrphan, Inv, TypeOK, Age
<1> DEFINE Listed(x) == x \in night'.listed => x \in night.listed \/ object[x] = "old"
           Owed(x) == x \in night'.owed => x \in night.owed \/ (x \in night.listed /\ row[x] = "NONE")
           Goal == night' \in Night /\ \A x \in Key : Listed(x) /\ Owed(x)
<1>3. Goal
  <2>1. night \in Night BY DEF Inv, TypeOK
  <2>2. CASE StartNight BY <2>2 DEF StartNight, Night
  <2>3. CASE EndNight \/ AbortNight BY <2>3 DEF EndNight, AbortNight, NightIdle, Night
  <2>4. ASSUME NEW k \in Key, LookUp(k) PROVE Goal
    <3>1. {k} \in SUBSET Key OBVIOUS
    <3> QED BY <2>1, <2>4, <3>1 DEF LookUp, Night
  <2>5. ASSUME NEW k \in Key, DeleteOrphan(k) PROVE Goal
    BY <2>1, <2>5 DEF DeleteOrphan, Night
  <2> QED BY <2>2, <2>3, <2>4, <2>5
<1>4. TypeOK' BY <1>1, <1>2, <1>3 DEF Inv, TypeOK
<1>5. ASSUME NEW x \in Key PROVE Sound(x)'
  <2>1. Sound(x) BY DEF Inv
  <2>2. Aged(x)' BY <1>1, <1>2, <2>1 DEF Sound, Aged
  <2>3. CleanupsWait(x)'
    BY <1>1, <1>2, <1>3, <2>1 DEF Sound, Aged, CleanupsWait, Passed, PassedOver
  <2>4. OneClaim(x)' BY <1>1, <2>1 DEF Sound, OneClaim, Confirming, Owes
  <2> QED BY <2>2, <2>3, <2>4 DEF Sound
<1>6. ActiveKeepsObject'
  <2>1. CASE object' = object BY <1>1, <2>1 DEF Inv, ActiveKeepsObject, Active, Present
  <2>2. ASSUME NEW k \in Key, DeleteOrphan(k) PROVE ActiveKeepsObject'
    <3>1. row[k] = "ACTIVE" => k \in late BY <2>2 DEF DeleteOrphan, Inv, Sound, CleanupsWait, PassedOver
    <3> QED BY <1>1, <2>2, <3>1, ObjectGoes DEF DeleteOrphan
  <2> QED BY <2>1, <2>2 DEF StartNight, EndNight, AbortNight, LookUp
<1>7. \A v \in Worker : Keyed(v)' BY <1>1 DEF Inv, Keyed
<1> QED BY <1>4, <1>5, <1>6, <1>7 DEF Inv

LEMMA StillInv ==
  ASSUME Inv, app' \in {"editable", "locked", "deleted"},
         UNCHANGED <<url, object, row, job, night, late, tries>>
  PROVE  Inv'
<1>1. TypeOK' BY DEF Inv, TypeOK
<1>2. ASSUME NEW x \in Key PROVE Sound(x)'
  BY DEF Inv, Sound, Aged, CleanupsWait, Passed, PassedOver, OneClaim, Confirming, Owes
<1>3. ActiveKeepsObject' BY DEF Inv, ActiveKeepsObject, Active, Present
<1>4. \A v \in Worker : Keyed(v)' BY DEF Inv, Keyed
<1> QED BY <1>1, <1>2, <1>3, <1>4 DEF Inv

LEMMA NextInv == Inv /\ [Next]_vars => Inv'
<1> SUFFICES ASSUME Inv, [Next]_vars PROVE Inv' OBVIOUS
<1>1. CASE UNCHANGED vars BY <1>1, StillInv DEF vars, Inv, TypeOK
<1>2. CASE Review BY <1>2, StillInv DEF Review
<1>3. ASSUME NEW w \in Worker, Handler(w) PROVE Inv'
  BY <1>3, ListUploadsInv, ReadRowsInv, FinishInv, RejectConfirmInv, CommitConfirmInv,
     HeadObjectInv, DeleteAttachmentInv, DeleteObjectInv, DeleteApplicationInv DEF Handler
<1>4. ASSUME NEW w \in Worker, Crash(w) PROVE Inv' BY <1>4, CrashInv
<1>5. ASSUME NEW k \in Key, Upload(k) \/ Expire(k) \/ GrowOld(k) PROVE Inv'
  BY <1>5, UploadInv, TimeInv
<1>6. CASE StartNight \/ EndNight \/ AbortNight \/ \E k \in Key : LookUp(k) \/ DeleteOrphan(k)
  BY <1>6, NightInv
<1> QED BY <1>1, <1>2, <1>3, <1>4, <1>5, <1>6 DEF Next

LEMMA Always == Spec => []Inv
BY InitInv, NextInv, PTL DEF Spec

(* Objects, rows, URLs, requests and the nightly run keep their types.     *)
THEOREM TypeCorrect == Spec => []TypeOK
<1>1. Inv => TypeOK BY DEF Inv
<1> QED BY <1>1, Always, PTL

(* For any number of keys, requests and crashes, the object of an          *)
(* attachment that was confirmed once and in time is never deleted.        *)
THEOREM ObjectKept == Spec => []ActiveKeepsObject
<1>1. Inv => ActiveKeepsObject BY DEF Inv
<1> QED BY <1>1, Always, PTL
===============================================================================
