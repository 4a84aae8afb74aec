-------------------------- MODULE RecordStoreProofs --------------------------
(***************************************************************************)
(* Proofs about RecordStore, for any keys, records, requests and tasks:    *)
(* what is verified stays tied to what is written although every task may  *)
(* be overtaken between the two, and the tasks implement KeyRegister.      *)
(***************************************************************************)
EXTENDS RecordStore, TLAPS

Working ==
    [req : Requests, pc : {"crawl", "check", "verify", "commit", "done"},
     old : Records \cup {NoRecord}, result : Records \cup {NoRecord, "yes", "no"},
     router : {"none", "welcome", "remove"}, targets : BOOLEAN]

\* The types the argument needs.
Typed ==
    /\ store \in [Keys -> [value : Records \cup {NoRecord}, age : Nat]]
    /\ cache \subseteq Records
    /\ tasks \in [Tasks -> {Idle} \cup Working]
    /\ history \in [past : [Keys -> SUBSET Records], lapsed : SUBSET Keys]

\* What is stored is verified and remembered as held.
StoreSound ==
    /\ cache \subseteq Signed
    /\ \A k \in Keys : store[k].value # NoRecord =>
          store[k].value \in Signed /\ store[k].value \in history.past[k]

\* What a task in state x has established so far.
Sound(x) ==
    /\ x.pc \in {"crawl", "check"} => x.req.op \in LocalOps
    /\ x.pc = "verify" => x.req.op # "find"
    /\ x.pc = "check" /\ x.req.op = "get" => x.result = x.old
    /\ x.pc \in {"verify", "commit"} /\ x.req.op \in {"update", "status", "delete"} =>
          x.old \in history.past[x.req.key]
    /\ x.pc \in {"verify", "commit"} /\ x.req.op \in {"put", "remove"} => x.old \in Signed
    /\ x.pc = "commit" /\ x.req.op \in {"store", "set"} => x.req.value \in Signed
    /\ x.pc = "commit" /\ x.req.op \notin {"store", "set"} => Authorised(x.req, x.old)
    /\ x.pc = "done" /\ x.req.op \in {"get", "find"} => x.result \in Signed \cup {NoRecord}
    /\ x.pc = "done" /\ x.req.op = "store" /\ x.result = "yes" =>
          x.req.key \in history.lapsed \/ Live(x.req.key)

TaskSound(t) == Sound(tasks[t])

\* The inductive invariant.  A task carries what it has verified past other
\* tasks' steps: what it found is remembered as held, and what it may write is
\* signed as its operation demands.
IInv == Typed /\ StoreSound /\ (\A t \in Tasks : TaskSound(t)) /\ StoresExclusive

-----------------------------------------------------------------------------
\* Initially nothing is held and no task has begun.
LEMMA InitSound == Init => IInv
<1> SUFFICES ASSUME Init PROVE IInv
    OBVIOUS
<1>1. Typed
    BY DEF Init, Typed, Vacant
<1>2. StoreSound
    BY DEF Init, StoreSound, Vacant
<1>3. \A t \in Tasks : tasks[t].pc = "idle"
    BY DEF Init, Idle
<1> QED
    BY <1>1, <1>2, <1>3 DEF IInv, TaskSound, Sound, StoresExclusive, At

-----------------------------------------------------------------------------
(* Steps of one task *)

\* A step replaces the state of its task and leaves the others alone.
LEMMA TaskSet ==
    ASSUME Typed, NEW t \in Tasks, NEW y \in Working, tasks' = [tasks EXCEPT ![t] = y]
    PROVE  /\ tasks' \in [Tasks -> {Idle} \cup Working]
           /\ tasks'[t] = y
           /\ \A u \in Tasks \ {t} : tasks'[u] = tasks[u]
    BY DEF Typed

\* A task that has begun has all its fields.
LEMMA TaskBegun ==
    ASSUME Typed, NEW t \in Tasks, tasks[t].pc # "idle"
    PROVE  tasks[t] \in Working
    BY DEF Typed, Idle

\* The history only grows.
Grows ==
    /\ history' \in [past : [Keys -> SUBSET Records], lapsed : SUBSET Keys]
    /\ \A k \in Keys : history.past[k] \subseteq history'.past[k]
    /\ history.lapsed \subseteq history'.lapsed
    /\ \A k \in Keys : Live(k) => Live(k)' \/ k \in history'.lapsed

\* What a task has established outlives the steps of others.
LEMMA TaskKept ==
    ASSUME Typed, Grows, NEW u \in Tasks, TaskSound(u), tasks'[u] = tasks[u]
    PROVE  TaskSound(u)'
<1>1. CASE tasks[u].pc = "idle"
    BY <1>1 DEF TaskSound, Sound
<1>2. CASE tasks[u].pc # "idle"
  <2>1. tasks[u] \in Working
      BY <1>2, TaskBegun
  <2>2. tasks[u].req.key \in Keys
      BY <2>1, RecordStoreConstants DEF Working
  <2> QED
      BY <2>2 DEF TaskSound, Sound, Grows
<1> QED
    BY <1>1, <1>2

\* Steps that leave the store alone.
LEMMA QuietGrows ==
    ASSUME Typed, UNCHANGED <<store, history>>
    PROVE  Grows /\ (cache' \subseteq Signed /\ StoreSound => StoreSound')
    BY DEF Typed, Grows, StoreSound, Live, IsExpired

\* Steps that write it keep track.
LEMMA TrackGrows ==
    ASSUME Typed, Track, store' \in [Keys -> [value : Records \cup {NoRecord}, age : Nat]]
    PROVE  Grows
    BY DEF Typed, Track, Grows

\* The step of one task leaves the invariant true when the task is sound after
\* it, what it wrote is, and a store it reports as done had no rival.
LEMMA TaskStep ==
    ASSUME IInv, Grows, StoreSound', NEW t \in Tasks, NEW y \in Working,
           tasks' = [tasks EXCEPT ![t] = y],
           store' \in [Keys -> [value : Records \cup {NoRecord}, age : Nat]],
           cache' \subseteq Records,
           TaskSound(t)',
           y.pc = "done" /\ y.req.op = "store" /\ y.result = "yes" => ~Live(y.req.key)
    PROVE  IInv'
<1>1. Typed'
    BY TaskSet DEF IInv, Typed, Grows
<1>2. \A u \in Tasks : TaskSound(u)'
  <2> SUFFICES ASSUME NEW u \in Tasks \ {t} PROVE TaskSound(u)'
      OBVIOUS
  <2> QED
      BY TaskSet, TaskKept DEF IInv
<1>3. StoresExclusive'
  <2>1. ASSUME NEW u \in Tasks, u # t,
               At(t, "done", {"store"})', At(u, "done", {"store"})', tasks'[t].req.key = tasks'[u].req.key,
               tasks'[t].result = "yes", tasks'[u].result = "yes"
        PROVE  tasks'[t].req.key \in history'.lapsed
    <3>1. tasks'[t] = y /\ tasks'[u] = tasks[u]
        BY <2>1, TaskSet, Zenon DEF IInv
    <3>2. ~Live(y.req.key)
        BY <2>1, <3>1 DEF At
    <3>3. tasks[u].req.key \in history.lapsed \/ Live(tasks[u].req.key)
        BY <2>1, <3>1 DEF IInv, TaskSound, Sound, At
    <3> QED
        BY <2>1, <3>1, <3>2, <3>3 DEF Grows
  <2>2. ASSUME NEW u \in Tasks \ {t}, NEW w \in Tasks \ {t}, u # w,
               At(u, "done", {"store"})', At(w, "done", {"store"})', tasks'[u].req.key = tasks'[w].req.key,
               tasks'[u].result = "yes", tasks'[w].result = "yes"
        PROVE  tasks'[u].req.key \in history'.lapsed
    <3>1. tasks'[u] = tasks[u] /\ tasks'[w] = tasks[w]
        BY <2>2, TaskSet DEF IInv
    <3> QED
        BY <2>2, <3>1 DEF IInv, StoresExclusive, At, Grows
  <2> QED
      BY <2>1, <2>2 DEF StoresExclusive
<1> QED
    BY <1>1, <1>2, <1>3 DEF IInv

-----------------------------------------------------------------------------
(* What the store holds after a step *)

\* What is held already adds nothing to what is remembered.
LEMMA Absorbed ==
    ASSUME StoreSound, NEW j \in Keys
    PROVE  history.past[j] \cup ({store[j].value} \ {NoRecord}) = history.past[j]
<1>1. store[j].value # NoRecord => store[j].value \in history.past[j]
    BY DEF StoreSound
<1> QED
    BY <1>1

\* A record just written is live.
LEMMA Written ==
    ASSUME Typed, StoreSound, NEW k \in Keys, NEW v \in Signed, store' = Set(k, v), Track, UNCHANGED cache
    PROVE  /\ store' \in [Keys -> [value : Records \cup {NoRecord}, age : Nat]]
           /\ StoreSound' /\ Live(k)'
           /\ Get(k)' = v /\ \A j \in Keys \ {k} : Get(j)' = Get(j)
           /\ history'.past = [history.past EXCEPT ![k] = @ \cup {v}]
<1>1. v \in Records /\ v # NoRecord
    BY RecordStoreConstants DEF Signed
<1>2. store' \in [Keys -> [value : Records \cup {NoRecord}, age : Nat]]
    BY <1>1 DEF Typed, Set
<1>3. store'[k] = [value |-> v, age |-> 0] /\ \A j \in Keys \ {k} : store'[j] = store[j]
    BY DEF Typed, Set
<1>4. Live(k)'
    BY <1>1, <1>3, RecordStoreConstants DEF Live, IsExpired, Vacant
<1>5. \A j \in Keys : history'.past[j] = history.past[j] \cup ({store'[j].value} \ {NoRecord})
    BY DEF Track
<1>6. StoreSound'
    BY <1>3, <1>5 DEF StoreSound
<1>7. Get(k)' = v /\ \A j \in Keys \ {k} : Get(j)' = Get(j)
    BY <1>3, <1>4 DEF Get, Live, IsExpired
<1>8. \A j \in Keys \ {k} : history'.past[j] = history.past[j]
    BY <1>3, <1>5, Absorbed, Zenon
<1>9. history'.past[k] = history.past[k] \cup {v}
    BY <1>1, <1>3, <1>5
<1>10. history'.past = [history.past EXCEPT ![k] = @ \cup {v}]
  <2>1. history'.past = [j \in Keys |-> history'.past[j]]
      BY DEF Track
  <2>2. DOMAIN history.past = Keys
      BY DEF Typed
  <2> QED
      BY <1>8, <1>9, <2>1, <2>2
<1> QED
    BY <1>2, <1>4, <1>6, <1>7, <1>10

\* A record deleted is gone and stays remembered.
LEMMA Erased ==
    ASSUME Typed, StoreSound, NEW k \in Keys, store' = Delete(k), Track, UNCHANGED cache
    PROVE  /\ store' \in [Keys -> [value : Records \cup {NoRecord}, age : Nat]]
           /\ StoreSound'
           /\ Get(k)' = NoRecord /\ \A j \in Keys \ {k} : Get(j)' = Get(j)
           /\ history'.past = history.past
<1>1. store' \in [Keys -> [value : Records \cup {NoRecord}, age : Nat]]
    BY DEF Typed, Delete, Vacant
<1>2. store'[k] = Vacant /\ \A j \in Keys \ {k} : store'[j] = store[j]
    BY DEF Typed, Delete
<1>3. \A j \in Keys : history'.past[j] = history.past[j] \cup ({store'[j].value} \ {NoRecord})
    BY DEF Track
<1>4. StoreSound'
    BY <1>2, <1>3 DEF StoreSound, Vacant
<1>5. Get(k)' = NoRecord /\ \A j \in Keys \ {k} : Get(j)' = Get(j)
    BY <1>2 DEF Get, Live, IsExpired
<1>6. ASSUME NEW j \in Keys
      PROVE  history'.past[j] = history.past[j]
  <2>1. CASE j = k
    <3>1. store'[j].value = NoRecord
        BY <1>2, <2>1 DEF Vacant
    <3> QED
        BY <1>3, <3>1, Zenon
  <2>2. CASE j # k
    <3>1. store'[j].value = store[j].value
        BY <1>2, <2>2
    <3> QED
        BY <1>3, <3>1, Absorbed, Zenon
  <2> QED
      BY <2>1, <2>2
<1>7. history'.past = [j \in Keys |-> history'.past[j]]
    BY DEF Track
<1>8. history.past = [j \in Keys |-> history.past[j]]
    BY DEF Typed
<1> QED
    BY <1>1, <1>4, <1>5, <1>6, <1>7, <1>8

\* Time changes no value: records only expire, and what has expired stays so.
LEMMA Aged ==
    ASSUME Typed, StoreSound, Track, UNCHANGED cache,
           \/ store' = store
           \/ store' = [k \in Keys |-> IF store[k] = Vacant \/ store[k].age = MaxAge
                                       THEN store[k] ELSE [store[k] EXCEPT !.age = @ + 1]]
    PROVE  /\ store' \in [Keys -> [value : Records \cup {NoRecord}, age : Nat]]
           /\ StoreSound'
           /\ \A k \in Keys : Get(k)' \in {Get(k), NoRecord} /\ (store' = store => Get(k)' = Get(k))
           /\ history'.past = history.past
<1>1. store' \in [Keys -> [value : Records \cup {NoRecord}, age : Nat]]
    BY DEF Typed
<1>2. \A k \in Keys : /\ store'[k].value = store[k].value
                      /\ store'[k].age >= store[k].age
                      /\ store[k] = Vacant => store'[k] = Vacant
    BY DEF Typed
<1>3. \A j \in Keys : history'.past[j] = history.past[j] \cup ({store'[j].value} \ {NoRecord})
    BY DEF Track
<1>4. StoreSound'
    BY <1>2, <1>3 DEF StoreSound
<1>5. ASSUME NEW k \in Keys
      PROVE  Get(k)' \in {Get(k), NoRecord} /\ (store' = store => Get(k)' = Get(k))
  <2>1. store[k].age \in Nat /\ store'[k].age \in Nat
      BY <1>1 DEF Typed
  <2>2. Live(k)' => Live(k)
      BY <1>2, <2>1, RecordStoreConstants DEF Live, IsExpired
  <2> QED
      BY <1>2, <2>2 DEF Get, Live, IsExpired
<1>6. \A j \in Keys : history'.past[j] = history.past[j]
    BY <1>2, <1>3, Absorbed, Zenon
<1>7. history'.past = [j \in Keys |-> history'.past[j]]
    BY DEF Track
<1>8. history.past = [j \in Keys |-> history.past[j]]
    BY DEF Typed
<1> QED
    BY <1>1, <1>4, <1>5, <1>6, <1>7, <1>8

-----------------------------------------------------------------------------
(* The steps of the register *)

\* What KeyRegister sees of the store and of the tasks.
Held == [k \in Keys |-> Get(k)]
Opened == [t \in Tasks |-> IF tasks[t].pc \in {"idle", "done"} THEN Idle ELSE tasks[t].req]

RegisterStep == Register!Next \/ UNCHANGED Register!vars

\* A task that goes on leaves the register alone.
LEMMA GoesOn ==
    ASSUME Typed, NEW t \in Tasks, NEW y \in Working, tasks' = [tasks EXCEPT ![t] = y],
           tasks[t].pc \notin {"idle", "done"}, y.pc # "done", y.req = tasks[t].req,
           UNCHANGED <<store, history>>
    PROVE  RegisterStep
<1>1. Opened' = Opened
    BY TaskSet DEF Opened, Working
<1>2. Held' = Held
    BY DEF Held, Get, Live, IsExpired
<1> QED
    BY <1>1, <1>2 DEF RegisterStep, Register!vars, Opened, Held

\* A task that begins opens its request, unless it ends at once.
LEMMA Opens ==
    ASSUME Typed, NEW t \in Tasks, NEW y \in Working, tasks' = [tasks EXCEPT ![t] = y],
           tasks[t].pc = "idle", UNCHANGED <<store, history>>
    PROVE  RegisterStep
<1>1. Held' = Held
    BY DEF Held, Get, Live, IsExpired
<1>2. CASE y.pc = "done"
  <2>1. Opened' = Opened
      BY <1>2, TaskSet DEF Opened
  <2> QED
      BY <1>1, <2>1 DEF RegisterStep, Register!vars, Opened, Held
<1>3. CASE y.pc # "done"
  <2>1. Opened' = [Opened EXCEPT ![t] = y.req] /\ Opened[t] = Idle /\ y.req \in Requests
      BY <1>3, TaskSet, Zenon DEF Opened, Working
  <2>2. Register!Open(t)
      BY <1>1, <2>1, Zenon DEF Register!Open, Opened, Held
  <2> QED
      BY <2>2 DEF RegisterStep, Register!Next
<1> QED
    BY <1>2, <1>3

\* A task that ends closes its request.
LEMMA Closes ==
    ASSUME Typed, NEW t \in Tasks, NEW y \in Working, tasks' = [tasks EXCEPT ![t] = y],
           tasks[t].pc \notin {"idle", "done"}, y.pc = "done"
    PROVE  /\ Opened' = [Opened EXCEPT ![t] = Idle]
           /\ Opened[t] = tasks[t].req /\ Opened[t] # Idle
<1>1. tasks[t].req \in Requests
    BY TaskBegun DEF Working
<1>2. Opened[t] = tasks[t].req
    BY DEF Opened
<1> QED
    BY <1>1, <1>2, TaskSet, RecordStoreConstants, Zenon DEF Opened

\* It may do so without an effect.
LEMMA Refuses ==
    ASSUME Typed, NEW t \in Tasks, NEW y \in Working, tasks' = [tasks EXCEPT ![t] = y],
           tasks[t].pc \notin {"idle", "done"}, y.pc = "done",
           \A k \in Keys : Get(k)' = Get(k), history'.past = history.past
    PROVE  RegisterStep
<1>1. Held' = Held
    BY DEF Held
<1>2. Register!Refuse(t)
    BY <1>1, Closes, Zenon DEF Register!Refuse, Register!Close, Opened, Held
<1> QED
    BY <1>2 DEF RegisterStep, Register!Next

\* It may write the value its request allows.
LEMMA Writes ==
    ASSUME Typed, NEW t \in Tasks, NEW y \in Working, tasks' = [tasks EXCEPT ![t] = y],
           tasks[t].pc \notin {"idle", "done"}, y.pc = "done",
           NEW q, q = tasks[t].req, q.key \in Keys,
           Get(q.key)' = q.value, \A j \in Keys \ {q.key} : Get(j)' = Get(j),
           history'.past = [history.past EXCEPT ![q.key] = @ \cup {q.value}],
           \/ q.op = "store" /\ Get(q.key) = NoRecord /\ q.value \in Signed
           \/ q.op = "update" /\ q.value \in SelfSigned /\ \E r \in history.past[q.key] : q.auth = Owner[r]
           \/ q.op = "status" /\ q.value \in IssuerSigned /\ history.past[q.key] # {}
           \/ q.op = "set" /\ q.value \in Signed
           \/ q.op = "put" /\ q.value \in SelfSigned /\ \E r \in Signed : q.auth = Owner[r]
           \/ q.op = "put" /\ q.key = StatusKey /\ q.value \in IssuerSigned
    PROVE  RegisterStep
<1>1. Held' = [Held EXCEPT ![q.key] = q.value] /\ Held[q.key] = Get(q.key)
    BY Zenon DEF Held
<1>2. Register!Write(q.key, q.value)
    BY <1>1, Zenon DEF Register!Write, Held
<1>3. \/ Register!Store(t, q) \/ Register!Update(t, q)
      \/ Register!UpdateStatusList(t, q) \/ Register!Publish(t, q)
    BY <1>1, <1>2, Zenon DEF Register!Store, Register!Update, Register!UpdateStatusList, Register!Publish,
                      Register!SignedByOwner, Register!Signed, Signed, Held
<1>4. Register!Effect(t)
    BY <1>3, Closes, Zenon DEF Register!Effect, Register!Close, Opened
<1> QED
    BY <1>4, Zenon DEF RegisterStep, Register!Next

\* It may erase the record when its owner asks for it.
LEMMA Erases ==
    ASSUME Typed, NEW t \in Tasks, NEW y \in Working, tasks' = [tasks EXCEPT ![t] = y],
           tasks[t].pc \notin {"idle", "done"}, y.pc = "done",
           NEW q, q = tasks[t].req, q.key \in Keys,
           Get(q.key)' = NoRecord, \A j \in Keys \ {q.key} : Get(j)' = Get(j),
           history'.past = history.past,
           \/ q.op = "delete" /\ \E r \in history.past[q.key] : q.auth = Owner[r]
           \/ q.op = "remove" /\ \E r \in Signed : q.auth = Owner[r]
    PROVE  RegisterStep
<1>1. Held' = [Held EXCEPT ![q.key] = NoRecord]
    BY Zenon DEF Held
<1>2. Register!Erase(q.key)
    BY <1>1 DEF Register!Erase, Held
<1>3. Register!Delete(t, q) \/ Register!Withdraw(t, q)
    BY <1>2 DEF Register!Delete, Register!Withdraw, Register!SignedByOwner, Register!Signed, Signed
<1>4. Register!Effect(t)
    BY <1>3, Closes, Zenon DEF Register!Effect, Register!Close, Opened
<1> QED
    BY <1>4 DEF RegisterStep, Register!Next

-----------------------------------------------------------------------------
(* Actions *)

\* What the authorisation of each operation comes to.
LEMMA AuthorisedGives ==
    ASSUME NEW q, NEW old, Authorised(q, old)
    PROVE  /\ q.op \in {"store", "set"} => q.value \in Signed
           /\ q.op = "status" => q.value \in IssuerSigned
           /\ q.op = "update" => q.value \in SelfSigned /\ q.auth = Owner[old]
           /\ q.op = "put" => \/ q.value \in SelfSigned /\ q.auth = Owner[old]
                              \/ q.key = StatusKey /\ q.value \in IssuerSigned
           /\ q.op \in {"delete", "remove"} => q.auth = Owner[old]
    BY Zenon DEF Authorised, Verifies, KeyRotation, Signed

\* The state of a task after Finish.
LEMMA Finished ==
    ASSUME Typed, NEW t \in Tasks, tasks[t] \in Working,
           NEW r \in Records \cup {NoRecord, "yes", "no"}, NEW ro \in {"none", "welcome", "remove"},
           Finish(t, r, ro)
    PROVE  \E y \in Working : /\ tasks' = [tasks EXCEPT ![t] = y]
                              /\ y.pc = "done" /\ y.req = tasks[t].req /\ y.result = r /\ y.old = tasks[t].old
<1> DEFINE y == [tasks[t] EXCEPT !.pc = "done", !.result = r, !.router = ro]
<1>1. y \in Working /\ y.pc = "done" /\ y.req = tasks[t].req /\ y.result = r /\ y.old = tasks[t].old
    BY Zenon DEF Working
<1>2. tasks' = [tasks EXCEPT ![t] = y]
    BY Zenon DEF Finish, Typed
<1> QED
    BY <1>1, <1>2, Zenon

\* The state of a task after Goto.
LEMMA Gone ==
    ASSUME Typed, NEW t \in Tasks, tasks[t] \in Working,
           NEW pc \in {"crawl", "check", "verify", "commit", "done"}, Goto(t, pc)
    PROVE  \E y \in Working : /\ tasks' = [tasks EXCEPT ![t] = y]
                              /\ y.pc = pc /\ y.req = tasks[t].req
                              /\ y.old = tasks[t].old /\ y.result = tasks[t].result
<1> DEFINE y == [tasks[t] EXCEPT !.pc = pc]
<1>1. y \in Working /\ y.pc = pc /\ y.req = tasks[t].req /\ y.old = tasks[t].old /\ y.result = tasks[t].result
    BY DEF Working
<1>2. tasks' = [tasks EXCEPT ![t] = y]
    BY DEF Goto, Typed
<1> QED
    BY <1>1, <1>2, Zenon

\* A step that leaves the store alone: only the task's own state matters.
LEMMA QuietStep ==
    ASSUME IInv, NEW t \in Tasks, NEW y \in Working, tasks' = [tasks EXCEPT ![t] = y],
           UNCHANGED <<store, history>>, cache' \subseteq Signed, Sound(y),
           ~(y.pc = "done" /\ y.req.op = "store" /\ y.result = "yes"),
           tasks[t].pc = "idle" \/ (tasks[t].pc # "done" /\ y.req = tasks[t].req)
    PROVE  IInv' /\ RegisterStep
<1>1. Grows /\ StoreSound'
    BY QuietGrows DEF IInv
<1>2. store' \in [Keys -> [value : Records \cup {NoRecord}, age : Nat]] /\ cache' \subseteq Records
    BY RecordStoreConstants DEF IInv, Typed, Signed
<1>3. TaskSound(t)'
  <2>1. tasks'[t] = y
      BY TaskSet, Zenon DEF IInv
  <2> QED
      BY <2>1, SMTT(40) DEF TaskSound, Sound, Live, IsExpired
<1>4. IInv'
    BY <1>1, <1>2, <1>3, TaskStep, Zenon
<1>5. \A k \in Keys : Get(k)' = Get(k)
    BY DEF Get, Live, IsExpired
<1>6. RegisterStep
    BY <1>5, GoesOn, Opens, Refuses, Zenon DEF IInv
<1> QED
    BY <1>4, <1>6

\* A set that goes on to its own value is sound, cached or not.
LEMMA VerifiesOwn ==
    ASSUME IInv, NEW t \in Tasks, tasks[t] \in Working, tasks[t].req.op = "set",
           tasks[t].pc \notin {"idle", "done"}, NEW nodes \in BOOLEAN, VerifyOwn(t, nodes),
           UNCHANGED <<store, history>>, cache' \subseteq Signed
    PROVE  IInv' /\ RegisterStep
<1> DEFINE y == [tasks[t] EXCEPT !.pc = IfCached(tasks[t].req.value, "commit", "verify"), !.targets = nodes]
<1>1. IfCached(tasks[t].req.value, "commit", "verify") \in {"commit", "verify"}
    BY DEF IfCached
<1>2. /\ y \in Working /\ y.req = tasks[t].req
      /\ y.pc = IfCached(tasks[t].req.value, "commit", "verify")
    BY <1>1, Zenon DEF Working
<1>3. tasks' = [tasks EXCEPT ![t] = y]
    BY Zenon DEF VerifyOwn, IInv, Typed
<1> HIDE DEF y
<1>4. y.pc = "commit" => y.req.value \in Signed
    BY <1>2 DEF IfCached, IInv, StoreSound
<1>5. Sound(y)
    BY <1>1, <1>2, <1>4 DEF Sound
<1> QED
    BY <1>1, <1>2, <1>3, <1>5, QuietStep, Zenon

\* A reader finds only signed records, and remembered ones.
LEMMA GetSound ==
    ASSUME IInv, NEW k \in Keys
    PROVE  /\ Get(k) \in Records \cup {NoRecord}
           /\ Get(k) # NoRecord => Get(k) \in Signed /\ Get(k) \in history.past[k]
    BY DEF IInv, Typed, StoreSound, Get

\* A request that begins has established nothing beyond what it read.
LEMMA BeginSound ==
    ASSUME IInv, NEW t \in Tasks, NEW q \in Requests, Begin(t, q)
    PROVE  IInv' /\ RegisterStep
<1> DEFINE present == Get(q.key)
<1>1. /\ q.key \in Keys /\ q.value \in Records /\ q.op \in RemoteOps \cup LocalOps
      /\ present \in Records \cup {NoRecord}
      /\ present # NoRecord => present \in Signed /\ present \in history.past[q.key]
    BY GetSound, RecordStoreConstants
<1>2. tasks[t].pc = "idle" /\ UNCHANGED <<store, history>> /\ cache' = cache /\ cache \subseteq Signed
    BY DEF Begin, Unchanged, IInv, StoreSound
<1>3. ASSUME NEW y \in Working, Sound(y), tasks' = [tasks EXCEPT ![t] = y], ~(y.pc = "done" /\ y.req.op = "store")
      PROVE  IInv' /\ RegisterStep
    BY <1>2, <1>3, QuietStep, Zenon
<1>4. \A v : /\ IfCached(v, "commit", "verify") \in {"commit", "verify"}
             /\ IfCached(v, "commit", "verify") = "commit" => v \in Signed
    BY <1>2 DEF IfCached
<1>5. CASE BeginStore(t, q)
  <2> DEFINE y == Task(q, IfCached(q.value, "commit", "verify"), NoRecord, NoRecord)
  <2>1. y \in Working /\ Sound(y) /\ y.pc # "done"
      BY <1>1, <1>4, <1>5, Zenon DEF Task, Working, Sound, BeginStore
  <2> QED
      BY <1>3, <1>5, <2>1, Zenon DEF BeginStore
<1>6. CASE BeginChange(t, q)
  <2> DEFINE y == Task(q, IF present = NoRecord THEN "done" ELSE "verify", present, Answer(FALSE))
  <2>1. y \in Working /\ Sound(y) /\ y.req.op # "store"
      BY <1>1, <1>6, Zenon DEF Task, Working, Sound, BeginChange, Answer
  <2> QED
      BY <1>3, <1>6, <2>1, Zenon DEF BeginChange
<1>7. CASE BeginFind(t, q)
  <2> DEFINE y == [Task(q, "done", NoRecord, present) EXCEPT !.router = "welcome"]
  <2>1. y \in Working /\ Sound(y) /\ y.req.op # "store"
      BY <1>1, <1>7, Zenon DEF Task, Working, Sound, BeginFind
  <2> QED
      BY <1>3, <1>7, <2>1, Zenon DEF BeginFind
<1>8. CASE BeginLocal(t, q)
  <2> DEFINE pc == IfCached(present, AfterValid(q.op), "check")
             y == IF present = NoRecord THEN Task(q, "crawl", NoRecord, NoRecord)
                  ELSE IF q.op = "set" THEN Task(q, "done", present, NoRecord)
                  ELSE Task(q, pc, present, present)
  <2>1. /\ pc \in {"check", "verify", "done"}
        /\ pc = "verify" => q.op \in {"put", "remove"}
      BY DEF IfCached, AfterValid
  <2>2. q.op \in LocalOps /\ tasks' = [tasks EXCEPT ![t] = y]
      BY <1>8 DEF BeginLocal
  <2>3. CASE present = NoRecord
    <3>1. y = Task(q, "crawl", NoRecord, NoRecord)
        BY <2>3
    <3>2. Task(q, "crawl", NoRecord, NoRecord) \in Working /\ Sound(Task(q, "crawl", NoRecord, NoRecord))
        BY <2>2 DEF Task, Working, Sound
    <3> QED
        BY <1>3, <2>2, <3>1, <3>2, Zenon DEF Task
  <2>4. CASE present # NoRecord /\ q.op = "set"
      BY <1>1, <1>3, <2>2, <2>4, Zenon DEF Task, Working, Sound
  <2>5. CASE present # NoRecord /\ q.op # "set"
    <3> HIDE DEF pc
    <3>1. y = Task(q, pc, present, present)
        BY <2>5
    <3>2. Task(q, pc, present, present) \in Working
        BY <1>1, <2>1 DEF Task, Working
    <3>3. Sound(Task(q, pc, present, present))
        BY <1>1, <2>1, <2>2, <2>5, Zenon DEF Task, Sound, LocalOps
    <3> QED
        BY <1>3, <2>2, <3>1, <3>2, <3>3, Zenon DEF Task, LocalOps
  <2> QED
      BY <2>3, <2>4, <2>5
<1> QED
    BY <1>5, <1>6, <1>7, <1>8 DEF Begin

\* A lookup that finds nothing ends the operation, except for a set.
LEMMA CrawlMissesSound ==
    ASSUME IInv, NEW t \in Tasks, CrawlMisses(t)
    PROVE  IInv' /\ RegisterStep
<1>1. /\ tasks[t].pc = "crawl" /\ tasks[t].req.op \in LocalOps
      /\ UNCHANGED <<store, history>> /\ cache' \subseteq Signed
    BY DEF CrawlMisses, At, Unchanged, IInv, StoreSound
<1>2. tasks[t] \in Working
    BY <1>1, TaskBegun DEF IInv
<1>3. CASE tasks[t].req.op = "set"
    BY <1>1, <1>2, <1>3, VerifiesOwn DEF CrawlMisses
<1>4. CASE tasks[t].req.op # "set"
  <2>1. PICK y \in Working : /\ tasks' = [tasks EXCEPT ![t] = y]
                             /\ y.pc = "done" /\ y.req = tasks[t].req /\ y.result = NoRecord
      BY <1>2, <1>4, Finished DEF CrawlMisses, IInv
  <2>2. y.req.op # "store" /\ Sound(y)
      BY <1>1, <2>1 DEF Sound, LocalOps
  <2> QED
      BY <1>1, <2>1, <2>2, QuietStep, Zenon
<1> QED
    BY <1>3, <1>4

\* What a lookup finds is used only if cached as verified; else it is checked.
LEMMA CrawlHitsSound ==
    ASSUME IInv, NEW t \in Tasks, NEW v \in Records, CrawlHits(t, v)
    PROVE  IInv' /\ RegisterStep
<1> DEFINE op == tasks[t].req.op
           pc == IfCached(v, AfterValid(op), "check")
           r == IF op = "set" THEN NoRecord ELSE v
           y == [tasks[t] EXCEPT !.old = v, !.result = r, !.pc = pc]
<1>1. /\ tasks[t].pc = "crawl" /\ op \in LocalOps
      /\ UNCHANGED <<store, history>> /\ cache' \subseteq Signed
    BY DEF CrawlHits, At, Unchanged, IInv, StoreSound
<1>2. tasks[t] \in Working
    BY <1>1, TaskBegun DEF IInv
<1>3. /\ pc \in {"check", "verify", "done"}
      /\ pc = "verify" => op \in {"put", "remove"}
      /\ pc # "check" => v \in Signed
    BY DEF IfCached, AfterValid, IInv, StoreSound
<1>4. tasks' = [tasks EXCEPT ![t] = y]
    BY Zenon DEF CrawlHits, IInv, Typed
<1>5. r \in Records \cup {NoRecord} /\ (op = "get" => r = v)
    OBVIOUS
<1> HIDE DEF pc, r
<1>6. y \in Working /\ y.req = tasks[t].req /\ y.old = v /\ y.result = r /\ y.pc = pc
    BY <1>2, <1>3, <1>5, Zenon DEF Working
<1> HIDE DEF y
<1>7. Sound(y) /\ y.req.op # "store"
    BY <1>1, <1>3, <1>5, <1>6 DEF Sound, LocalOps
<1> QED
    BY <1>1, <1>4, <1>6, <1>7, QuietStep, Zenon

\* The cache learns only what verifies.
LEMMA RememberSound ==
    ASSUME IInv, NEW v, NEW ok, Remember(v, ok), ok => v \in Signed
    PROVE  cache' \subseteq Signed
    BY DEF Remember, IInv, StoreSound

\* The present record is used from here on only if it verifies.
LEMMA CheckSound ==
    ASSUME IInv, NEW t \in Tasks, Check(t)
    PROVE  IInv' /\ RegisterStep
<1> DEFINE q == tasks[t].req
           ok == Verifies(q.key, tasks[t].old)
<1>1. tasks[t].pc = "check" /\ q.op \in LocalOps /\ UNCHANGED <<store, history>>
    BY DEF Check, At
<1>2. tasks[t] \in Working
    BY <1>1, TaskBegun DEF IInv
<1>3. ok => tasks[t].old \in Signed
    BY DEF Verifies, Signed
<1>4. cache' \subseteq Signed
    BY <1>3, RememberSound DEF Check
<1>5. CASE ok
  <2>1. /\ AfterValid(q.op) \in {"verify", "done"}
        /\ AfterValid(q.op) = "verify" => q.op \in {"put", "remove"}
      BY DEF AfterValid
  <2>2. PICK y \in Working : /\ tasks' = [tasks EXCEPT ![t] = y]
                             /\ y.pc = AfterValid(q.op) /\ y.req = q
                             /\ y.old = tasks[t].old /\ y.result = tasks[t].result
      BY <1>2, <1>5, <2>1, Gone DEF Check, IInv
  <2>3. q.op = "get" => tasks[t].result = tasks[t].old
      BY <1>1 DEF IInv, TaskSound, Sound
  <2>4. Sound(y) /\ y.req.op # "store"
      BY <1>1, <1>3, <1>5, <2>1, <2>2, <2>3 DEF Sound, LocalOps
  <2> QED
      BY <1>1, <1>4, <2>2, <2>4, QuietStep, Zenon
<1>6. CASE ~ok /\ q.op = "set"
    BY <1>1, <1>2, <1>4, <1>6, VerifiesOwn, Zenon DEF Check
<1>7. CASE ~ok /\ q.op # "set"
  <2>1. PICK y \in Working : /\ tasks' = [tasks EXCEPT ![t] = y]
                             /\ y.pc = "done" /\ y.req = q /\ y.result = NoRecord
    <3>1. Finish(t, NoRecord, "none")
        BY <1>7, Zenon DEF Check
    <3>2. Typed /\ tasks[t] \in Working /\ NoRecord \in Records \cup {NoRecord, "yes", "no"}
        BY <1>2, Zenon DEF IInv
    <3> QED
        BY <3>1, <3>2, Finished
  <2>2. y.req.op # "store" /\ Sound(y)
      BY <1>1, <2>1 DEF Sound, LocalOps
  <2> QED
      BY <1>1, <1>4, <2>1, <2>2, QuietStep, Zenon
<1> QED
    BY <1>5, <1>6, <1>7

\* A task that may write is authorised by the record it found.
LEMMA VerifyOkSound ==
    ASSUME IInv, NEW t \in Tasks, VerifyOk(t)
    PROVE  IInv' /\ RegisterStep
<1> DEFINE q == tasks[t].req
<1>1. tasks[t].pc = "verify" /\ Authorised(q, tasks[t].old) /\ UNCHANGED <<store, history>>
    BY DEF VerifyOk
<1>2. tasks[t] \in Working
    BY <1>1, TaskBegun DEF IInv
<1>3. q.op \in {"store", "set"} => q.value \in Signed
    BY <1>1, AuthorisedGives
<1>4. cache' \subseteq Signed
    BY <1>3, RememberSound, Zenon DEF VerifyOk, IInv, StoreSound
<1>5. PICK y \in Working : /\ tasks' = [tasks EXCEPT ![t] = y]
                           /\ y.pc = "commit" /\ y.req = q
                           /\ y.old = tasks[t].old /\ y.result = tasks[t].result
    BY <1>2, Gone DEF VerifyOk, IInv
<1>6. Sound(tasks[t])
    BY DEF IInv, TaskSound
<1>7. Sound(y)
    BY <1>1, <1>3, <1>5, <1>6, Zenon DEF Sound
<1> QED
    BY <1>1, <1>4, <1>5, <1>7, QuietStep, Zenon

\* A request that fails its verification ends without an effect.
LEMMA VerifyFailsSound ==
    ASSUME IInv, NEW t \in Tasks, VerifyFails(t)
    PROVE  IInv' /\ RegisterStep
<1> DEFINE q == tasks[t].req
           r == IF q.op \in LocalOps THEN NoRecord ELSE Answer(FALSE)
           ro == CASE q.op # "store"                       -> "none"
                   [] strikes'[q.sender] >= BanThreshold   -> "remove"
                   [] OTHER                                -> "welcome"
<1>1. tasks[t].pc = "verify" /\ UNCHANGED <<store, history>>
    BY DEF VerifyFails
<1>2. tasks[t] \in Working
    BY <1>1, TaskBegun DEF IInv
<1>3. cache' \subseteq Signed
    BY RememberSound, Zenon DEF VerifyFails, IInv, StoreSound
<1>4. ro \in {"none", "welcome", "remove"}
    OBVIOUS
<1>5. /\ r \in {NoRecord, "no"}
      /\ q.op = "store" => r = "no"
      /\ q.op = "get" => r = NoRecord
    BY DEF Answer, LocalOps
<1>6. Finish(t, r, ro)
    BY Zenon DEF VerifyFails
<1> HIDE DEF r, ro
<1>7. PICK y \in Working : /\ tasks' = [tasks EXCEPT ![t] = y]
                           /\ y.pc = "done" /\ y.req = q /\ y.result = r
    BY <1>2, <1>4, <1>5, <1>6, Finished DEF IInv
<1>8. q.op # "find"
    BY <1>1 DEF IInv, TaskSound, Sound
<1>9. Sound(y)
    BY <1>5, <1>7, <1>8 DEF Sound
<1> QED
    BY <1>1, <1>3, <1>5, <1>7, <1>9, QuietStep, Zenon

\* A step that ends a task and may write the store: a store reported as done
\* found its key empty and left it filled.
LEMMA CommitStep ==
    ASSUME IInv, NEW t \in Tasks, NEW y \in Working, tasks' = [tasks EXCEPT ![t] = y],
           store' \in [Keys -> [value : Records \cup {NoRecord}, age : Nat]],
           Track, StoreSound', UNCHANGED cache,
           y.pc = "done", y.req.op \notin {"get", "find"},
           y.req.op = "store" /\ y.result = "yes" => ~Live(y.req.key) /\ Live(y.req.key)'
    PROVE  IInv'
<1>1. Grows
    BY TrackGrows DEF IInv
<1>2. tasks'[t] = y
    BY TaskSet, Zenon DEF IInv
<1>3. TaskSound(t)'
    BY <1>2, Zenon DEF TaskSound, Sound
<1>4. cache' \subseteq Records
    BY DEF IInv, Typed
<1> QED
    BY <1>1, <1>3, <1>4, TaskStep, Zenon

\* A peer's store fills an empty key, or is refused.
LEMMA CommitStoreSound ==
    ASSUME IInv, NEW t \in Tasks, NEW q, q = tasks[t].req, CommitStore(t)
    PROVE  IInv' /\ RegisterStep
<1>1. tasks[t].pc = "commit" /\ q.op = "store" /\ Track /\ UNCHANGED cache
    BY DEF CommitStore, At
<1>2. tasks[t] \in Working
    BY <1>1, TaskBegun DEF IInv
<1>3. q.key \in Keys /\ q.value \in Signed
    BY <1>1, <1>2, RecordStoreConstants, Zenon DEF IInv, TaskSound, Sound, Working
<1>4. CASE Live(q.key)
  <2>1. store' = store /\ Finish(t, "no", "none")
      BY <1>4, Zenon DEF CommitStore, InsertIfAbsent, Answer
  <2>2. PICK y \in Working : /\ tasks' = [tasks EXCEPT ![t] = y]
                             /\ y.pc = "done" /\ y.req = q /\ y.result = "no"
      BY <1>2, <2>1, Finished DEF IInv
  <2>3. /\ store' \in [Keys -> [value : Records \cup {NoRecord}, age : Nat]] /\ StoreSound'
        /\ history'.past = history.past /\ \A k \in Keys : Get(k)' = Get(k)
      BY <1>1, <2>1, Aged DEF IInv
  <2>4. IInv'
      BY <1>1, <2>2, <2>3, CommitStep, Zenon
  <2>5. RegisterStep
      BY <1>1, <2>2, <2>3, Refuses, Zenon DEF IInv
  <2> QED
      BY <2>4, <2>5
<1>5. CASE ~Live(q.key)
  <2>1. store' = Set(q.key, q.value) /\ Finish(t, "yes", "welcome")
      BY <1>5 DEF CommitStore, InsertIfAbsent, Answer
  <2>2. PICK y \in Working : /\ tasks' = [tasks EXCEPT ![t] = y]
                             /\ y.pc = "done" /\ y.req = q /\ y.result = "yes"
      BY <1>2, <2>1, Finished DEF IInv
  <2>3. /\ store' \in [Keys -> [value : Records \cup {NoRecord}, age : Nat]] /\ StoreSound' /\ Live(q.key)'
        /\ Get(q.key)' = q.value /\ \A j \in Keys \ {q.key} : Get(j)' = Get(j)
        /\ history'.past = [history.past EXCEPT ![q.key] = @ \cup {q.value}]
    <3>1. Typed /\ StoreSound
        BY DEF IInv
    <3> QED
        BY <1>1, <1>3, <2>1, <3>1, Written, Zenon
  <2>4. Live(y.req.key)'
      BY <2>2, <2>3, Zenon DEF Live, IsExpired
  <2>5. IInv'
      BY <1>1, <1>5, <2>2, <2>3, <2>4, CommitStep, Zenon
  <2>6. Get(q.key) = NoRecord
      BY <1>5 DEF Get
  <2>7. RegisterStep
      BY <1>1, <1>3, <2>2, <2>3, <2>6, Writes, Zenon DEF IInv
  <2> QED
      BY <2>5, <2>7
<1> QED
    BY <1>4, <1>5

\* A task about to write has its request authorised by a record it found.
LEMMA AtCommit ==
    ASSUME IInv, NEW t \in Tasks, NEW q, q = tasks[t].req, tasks[t].pc = "commit"
    PROVE  /\ tasks[t] \in Working /\ q.key \in Keys
           /\ q.op \in {"update", "status", "delete"} => tasks[t].old \in history.past[q.key]
           /\ q.op \in {"put", "remove"} => tasks[t].old \in Signed
           /\ q.op = "set" => q.value \in Signed
           /\ q.op = "status" => q.value \in IssuerSigned
           /\ q.op = "update" => q.value \in SelfSigned /\ q.auth = Owner[tasks[t].old]
           /\ q.op = "put" => \/ q.value \in SelfSigned /\ q.auth = Owner[tasks[t].old]
                              \/ q.key = StatusKey /\ q.value \in IssuerSigned
           /\ q.op \in {"delete", "remove"} => q.auth = Owner[tasks[t].old]
<1>1. tasks[t] \in Working
    BY TaskBegun DEF IInv
<1>2. q.key \in Keys
    BY <1>1, RecordStoreConstants DEF Working
<1>3. Sound(tasks[t])
    BY DEF IInv, TaskSound
<1>4. q.op \notin {"store", "set"} => Authorised(q, tasks[t].old)
    BY <1>3 DEF Sound
<1> QED
    BY <1>1, <1>2, <1>3, <1>4, AuthorisedGives, Zenon DEF Sound

\* A task other than a peer's store that writes its value as it ends.
LEMMA CommitWrites ==
    ASSUME IInv, NEW t \in Tasks, NEW q, q = tasks[t].req, tasks[t].pc = "commit",
           q.op \in {"update", "status", "set", "put"},
           store' = Set(q.key, q.value), Track, UNCHANGED cache,
           NEW y \in Working, tasks' = [tasks EXCEPT ![t] = y], y.pc = "done", y.req = q
    PROVE  IInv' /\ RegisterStep
<1>1. q.key \in Keys /\ q.value \in Signed
    BY AtCommit DEF Signed
<1>2. /\ store' \in [Keys -> [value : Records \cup {NoRecord}, age : Nat]] /\ StoreSound'
      /\ Get(q.key)' = q.value /\ \A j \in Keys \ {q.key} : Get(j)' = Get(j)
      /\ history'.past = [history.past EXCEPT ![q.key] = @ \cup {q.value}]
  <2>1. Typed /\ StoreSound
      BY DEF IInv
  <2> QED
      BY <1>1, <2>1, Written, Zenon
<1>3. IInv'
    BY <1>2, CommitStep, Zenon
<1>4. \/ q.op = "update" /\ q.value \in SelfSigned /\ \E r \in history.past[q.key] : q.auth = Owner[r]
      \/ q.op = "status" /\ q.value \in IssuerSigned /\ history.past[q.key] # {}
      \/ q.op = "set" /\ q.value \in Signed
      \/ q.op = "put" /\ q.value \in SelfSigned /\ \E r \in Signed : q.auth = Owner[r]
      \/ q.op = "put" /\ q.key = StatusKey /\ q.value \in IssuerSigned
    BY AtCommit
<1>5. RegisterStep
    BY <1>1, <1>2, <1>4, Writes, Zenon DEF IInv
<1> QED
    BY <1>3, <1>5

\* A task that erases its record as it ends.
LEMMA CommitErases ==
    ASSUME IInv, NEW t \in Tasks, NEW q, q = tasks[t].req, tasks[t].pc = "commit",
           q.op \in {"delete", "remove"},
           store' = Delete(q.key), Track, UNCHANGED cache,
           NEW y \in Working, tasks' = [tasks EXCEPT ![t] = y], y.pc = "done", y.req = q
    PROVE  IInv' /\ RegisterStep
<1>1. q.key \in Keys
    BY AtCommit
<1>2. /\ store' \in [Keys -> [value : Records \cup {NoRecord}, age : Nat]] /\ StoreSound'
      /\ Get(q.key)' = NoRecord /\ \A j \in Keys \ {q.key} : Get(j)' = Get(j)
      /\ history'.past = history.past
    BY <1>1, Erased DEF IInv
<1>3. IInv'
    BY <1>2, CommitStep, Zenon
<1>4. \/ q.op = "delete" /\ \E r \in history.past[q.key] : q.auth = Owner[r]
      \/ q.op = "remove" /\ \E r \in Signed : q.auth = Owner[r]
    BY AtCommit
<1>5. RegisterStep
    BY <1>1, <1>2, <1>4, Erases, Zenon DEF IInv
<1> QED
    BY <1>3, <1>5

\* A peer's change writes or erases what it was authorised to.
LEMMA CommitChangeSound ==
    ASSUME IInv, NEW t \in Tasks, NEW q, q = tasks[t].req, CommitChange(t)
    PROVE  IInv' /\ RegisterStep
<1>1. tasks[t].pc = "commit" /\ q.op \in {"update", "status", "delete"} /\ Track /\ UNCHANGED cache
    BY DEF CommitChange, At
<1>2. tasks[t] \in Working
    BY <1>1, AtCommit
<1>3. PICK y \in Working : tasks' = [tasks EXCEPT ![t] = y] /\ y.pc = "done" /\ y.req = q
  <2>1. Finish(t, "yes", "welcome")
      BY DEF CommitChange, Answer
  <2> QED
      BY <1>2, <2>1, Finished DEF IInv
<1>4. CASE q.op = "delete"
  <2>1. store' = Delete(q.key)
      BY <1>4 DEF CommitChange
  <2> QED
      BY <1>1, <1>3, <1>4, <2>1, CommitErases, Zenon
<1>5. CASE q.op # "delete"
  <2>1. store' = Set(q.key, q.value)
      BY <1>5 DEF CommitChange
  <2> QED
      BY <1>1, <1>3, <1>5, <2>1, CommitWrites, Zenon
<1> QED
    BY <1>4, <1>5

\* The node's own set or update writes a copy here, or none.
LEMMA CommitLocalSound ==
    ASSUME IInv, NEW t \in Tasks, NEW q, q = tasks[t].req,
           NEW near \in BOOLEAN, NEW acked \in BOOLEAN, CommitLocal(t, near, acked)
    PROVE  IInv' /\ RegisterStep
<1>1. tasks[t].pc = "commit" /\ q.op \in {"set", "put"} /\ Track /\ UNCHANGED cache
    BY DEF CommitLocal, At
<1>2. tasks[t] \in Working
    BY <1>1, AtCommit
<1>3. PICK y \in Working : tasks' = [tasks EXCEPT ![t] = y] /\ y.pc = "done" /\ y.req = q
  <2>1. Finish(t, Answer(acked), "none") /\ Answer(acked) \in {"yes", "no"}
      BY DEF CommitLocal, Answer
  <2> QED
      BY <1>2, <2>1, Finished DEF IInv
<1>4. CASE near
  <2>1. store' = Set(q.key, q.value)
      BY <1>4 DEF CommitLocal
  <2> QED
      BY <1>1, <1>3, <2>1, CommitWrites, Zenon
<1>5. CASE ~near
  <2>1. store' = store
      BY <1>5 DEF CommitLocal
  <2>2. /\ store' \in [Keys -> [value : Records \cup {NoRecord}, age : Nat]] /\ StoreSound'
        /\ history'.past = history.past /\ \A k \in Keys : Get(k)' = Get(k)
      BY <1>1, <2>1, Aged DEF IInv
  <2>3. IInv'
      BY <1>1, <1>3, <2>2, CommitStep, Zenon
  <2>4. RegisterStep
      BY <1>1, <1>3, <2>2, Refuses, Zenon DEF IInv
  <2> QED
      BY <2>3, <2>4
<1> QED
    BY <1>4, <1>5

\* The node's own deletion erases the record here.
LEMMA CommitRemoveSound ==
    ASSUME IInv, NEW t \in Tasks, NEW q, q = tasks[t].req, CommitRemove(t)
    PROVE  IInv' /\ RegisterStep
<1>1. /\ tasks[t].pc = "commit" /\ q.op = "remove" /\ Track /\ UNCHANGED cache
      /\ store' = Delete(q.key)
    BY DEF CommitRemove, At
<1>2. tasks[t] \in Working
    BY <1>1, AtCommit
<1>3. PICK y \in Working : tasks' = [tasks EXCEPT ![t] = y] /\ y.pc = "done" /\ y.req = q
  <2>1. Finish(t, "yes", "none")
      BY DEF CommitRemove, Answer
  <2> QED
      BY <1>2, <2>1, Finished DEF IInv
<1> QED
    BY <1>1, <1>3, CommitErases, Zenon

\* Steps of no task keep what the tasks have established.
LEMMA NoTaskStep ==
    ASSUME IInv, Grows, StoreSound', cache' \subseteq Records, UNCHANGED tasks,
           store' \in [Keys -> [value : Records \cup {NoRecord}, age : Nat]]
    PROVE  IInv'
<1>1. Typed'
    BY DEF IInv, Typed, Grows
<1>2. \A u \in Tasks : TaskSound(u)'
    BY TaskKept DEF IInv
<1>3. StoresExclusive'
    BY DEF IInv, StoresExclusive, At, Grows
<1> QED
    BY <1>1, <1>2, <1>3 DEF IInv

\* Expiry is the register's Lapse, of the keys whose records are no longer live.
LEMMA TickSound ==
    ASSUME IInv, Tick
    PROVE  IInv' /\ RegisterStep
<1>1. /\ store' \in [Keys -> [value : Records \cup {NoRecord}, age : Nat]]
      /\ StoreSound' /\ history'.past = history.past
      /\ \A k \in Keys : Get(k)' \in {Get(k), NoRecord}
    BY Aged DEF Tick, IInv
<1>2. Grows
    BY <1>1, TrackGrows DEF Tick, IInv
<1>3. IInv'
    BY <1>1, <1>2, NoTaskStep DEF Tick, IInv, Typed
<1>4. PICK K \in SUBSET Keys : K = {k \in Keys : Get(k)' = NoRecord}
    BY Zenon
<1>5. Held' = [k \in Keys |-> IF k \in K THEN NoRecord ELSE Held[k]]
    BY <1>1, <1>4 DEF Held
<1>6. Opened' = Opened
    BY DEF Tick, Opened
<1>7. Register!Lapse
    BY <1>1, <1>5, <1>6 DEF Register!Lapse, Held, Opened
<1> QED
    BY <1>3, <1>7 DEF RegisterStep, Register!Next

\* An entry that leaves the cache changes nothing a task relies on.
LEMMA EvictSound ==
    ASSUME IInv, NEW v \in Records, Evict(v)
    PROVE  IInv' /\ RegisterStep
<1>1. UNCHANGED <<store, history, tasks>> /\ cache' \subseteq Signed /\ cache' \subseteq Records
    BY DEF Evict, IInv, StoreSound, Typed
<1>2. IInv'
    BY <1>1, QuietGrows, NoTaskStep DEF IInv, Typed
<1>3. Held' = Held /\ Opened' = Opened
    BY <1>1 DEF Held, Opened, Get, Live, IsExpired
<1> QED
    BY <1>1, <1>2, <1>3 DEF RegisterStep, Register!vars, Held, Opened

\* Every step keeps the invariant and is one of the register, or a stutter.
LEMMA StepSound ==
    ASSUME IInv, [Next]_vars
    PROVE  IInv' /\ RegisterStep
<1>1. ASSUME NEW t \in Tasks, Step(t)
      PROVE  IInv' /\ RegisterStep
  <2>1. ASSUME Commit(t) PROVE IInv' /\ RegisterStep
      BY <2>1, CommitStoreSound, CommitChangeSound, CommitLocalSound, CommitRemoveSound DEF Commit
  <2> QED
      BY <1>1, <2>1, CrawlMissesSound, CrawlHitsSound, CheckSound, VerifyOkSound, VerifyFailsSound DEF Step
<1>2. CASE UNCHANGED vars
  <2>1. UNCHANGED <<store, history, tasks, cache>>
      BY <1>2 DEF vars
  <2>2. IInv'
      BY <2>1, QuietGrows, NoTaskStep DEF IInv, Typed, StoreSound
  <2>3. Held' = Held /\ Opened' = Opened
      BY <2>1 DEF Held, Opened, Get, Live, IsExpired
  <2> QED
      BY <2>1, <2>2, <2>3 DEF RegisterStep, Register!vars, Held, Opened
<1> QED
    BY <1>1, <1>2, BeginSound, TickSound, EvictSound DEF Next

-----------------------------------------------------------------------------
(* What is held was verified *)

\* What the verifications made so far say of a task in state x.
Backed(x) ==
    /\ x.pc = "commit" /\ x.req.op \in {"store", "set"} => Accepted(x.req.key, x.req.value)
    /\ x.pc \in {"verify", "commit"} /\ x.req.op \in {"put", "remove"} => Accepted(x.req.key, x.old)
    /\ x.pc = "done" /\ x.req.op = "get" /\ x.result # NoRecord => Accepted(x.req.key, x.result)
    /\ x.pc = "done" /\ x.req.op = "find" /\ x.result # NoRecord => Vouched(x.req.key, x.result)

TaskBacked(t) == Backed(tasks[t])

ProofsHold == \A p \in verified : Verifies(p[1], p[2])

CacheBacked == \A v \in cache : HasCache /\ \E j \in Keys : <<j, v>> \in verified

StoreBacked == \A k \in Keys : store[k].value # NoRecord => Vouched(k, store[k].value)

\* OnlyVerifiedRecords, strengthened for the tasks on their way.
VInv == ProofsHold /\ CacheBacked /\ StoreBacked /\ \A t \in Tasks : TaskBacked(t)

\* What is cached is accepted for every key.
LEMMA CachedAccepted ==
    ASSUME CacheBacked, NEW k, NEW v \in cache
    PROVE  Accepted(k, v)
    BY Zenon DEF CacheBacked, Accepted

\* Verifications are not undone, and neither are updates that have ended.
LEMMA VouchKept ==
    ASSUME verified \subseteq verified', \A u \in Tasks : tasks[u].pc = "done" => tasks'[u] = tasks[u],
           NEW k, NEW v
    PROVE  (Accepted(k, v) => Accepted(k, v)') /\ (Vouched(k, v) => Vouched(k, v)')
<1>1. Accepted(k, v) => Accepted(k, v)'
    BY Zenon DEF Accepted
<1>2. ASSUME NEW t \in Tasks, At(t, "done", {"update", "status", "put"}), tasks[t].old # NoRecord,
             tasks[t].req.key = k, tasks[t].req.value = v, Authorised(tasks[t].req, tasks[t].old)
      PROVE  Vouched(k, v)'
  <2>1. tasks'[t] = tasks[t]
      BY <1>2, Zenon DEF At
  <2> QED
      BY <1>2, <2>1, Zenon DEF Vouched, At, Authorised, Verifies, KeyRotation
<1>3. Vouched(k, v) => Vouched(k, v)'
    BY <1>1, <1>2, Zenon DEF Vouched
<1> QED
    BY <1>1, <1>3, Zenon

\* A step of one task keeps the invariant when what it changed is backed.
LEMMA BackedStep ==
    ASSUME VInv, NEW t \in Tasks, tasks[t].pc # "done", \A u \in Tasks \ {t} : tasks'[u] = tasks[u],
           verified \subseteq verified', ProofsHold', CacheBacked', TaskBacked(t)',
           StoreBacked' \/ store' = store
    PROVE  VInv'
<1>1. \A k, v : (Accepted(k, v) => Accepted(k, v)') /\ (Vouched(k, v) => Vouched(k, v)')
    BY VouchKept, Zenon
<1>2. ASSUME NEW u \in Tasks \ {t} PROVE TaskBacked(u)'
  <2>1. tasks'[u] = tasks[u] /\ Backed(tasks[u])
      BY <1>2, Zenon DEF VInv, TaskBacked
  <2> QED
      BY <1>1, <2>1, Zenon DEF TaskBacked, Backed
<1>3. StoreBacked'
    BY <1>1, Zenon DEF VInv, StoreBacked
<1> QED
    BY <1>2, <1>3, Zenon DEF VInv

\* The same when nothing is verified, cached or written.
LEMMA QuietBacked ==
    ASSUME IInv, VInv, NEW t \in Tasks, tasks[t].pc # "done", NEW y, tasks' = [tasks EXCEPT ![t] = y],
           UNCHANGED <<store, cache, verified>>, TaskBacked(t)'
    PROVE  VInv'
<1>1. \A u \in Tasks \ {t} : tasks'[u] = tasks[u]
    BY Zenon DEF IInv, Typed
<1>2. ProofsHold' /\ CacheBacked'
    BY Zenon DEF VInv, ProofsHold, CacheBacked, Verifies
<1> QED
    BY <1>1, <1>2, BackedStep, Zenon

\* A request that begins relies on what is cached, and reads what is held.
LEMMA BeginBacked ==
    ASSUME IInv, VInv, NEW t \in Tasks, NEW q \in Requests, Begin(t, q)
    PROVE  VInv'
<1>1. tasks[t].pc = "idle" /\ UNCHANGED <<store, cache, verified>> /\ q.key \in Keys
    BY RecordStoreConstants, Zenon DEF Begin, Unchanged
<1>2. \A u \in Tasks : tasks[u].pc = "done" => u # t
    BY <1>1
<1>3. \A k, v : v \in cache => Accepted(k, v)'
    BY <1>1, CachedAccepted, Zenon DEF VInv, Accepted
<1>4. CASE BeginStore(t, q)
  <2> DEFINE y == Task(q, IfCached(q.value, "commit", "verify"), NoRecord, NoRecord)
  <2>1. tasks' = [tasks EXCEPT ![t] = y] /\ tasks'[t] = y
      BY <1>4, Zenon DEF BeginStore, IInv, Typed
  <2>2. y.req = q /\ q.op = "store" /\ (y.pc = "verify" \/ (y.pc = "commit" /\ q.value \in cache))
      BY <1>4, Zenon DEF BeginStore, Task, IfCached
  <2> HIDE DEF y
  <2>3. TaskBacked(t)'
      BY <1>3, <2>1, <2>2, Zenon DEF TaskBacked, Backed
  <2> QED
      BY <1>1, <2>1, <2>3, QuietBacked, Zenon
<1>5. CASE BeginChange(t, q)
  <2> DEFINE y == Task(q, IF Get(q.key) = NoRecord THEN "done" ELSE "verify", Get(q.key), Answer(FALSE))
  <2>1. tasks' = [tasks EXCEPT ![t] = y] /\ tasks'[t] = y
      BY <1>5, Zenon DEF BeginChange, IInv, Typed
  <2>2. y.req = q /\ q.op \in {"update", "status", "delete"} /\ y.pc \in {"verify", "done"}
      BY <1>5, Zenon DEF BeginChange, Task
  <2> HIDE DEF y
  <2>3. TaskBacked(t)'
      BY <2>1, <2>2, Zenon DEF TaskBacked, Backed
  <2> QED
      BY <1>1, <2>1, <2>3, QuietBacked, Zenon
<1>6. CASE BeginFind(t, q)
  <2> DEFINE y == [Task(q, "done", NoRecord, Get(q.key)) EXCEPT !.router = "welcome"]
  <2>1. tasks' = [tasks EXCEPT ![t] = y] /\ tasks'[t] = y
      BY <1>6, Zenon DEF BeginFind, IInv, Typed
  <2>2. y.req = q /\ q.op = "find" /\ y.pc = "done" /\ y.result = Get(q.key)
      BY <1>6, Zenon DEF BeginFind, Task
  <2> HIDE DEF y
  <2>3. Get(q.key) # NoRecord => Vouched(q.key, Get(q.key))
      BY <1>1, Zenon DEF VInv, StoreBacked, Get
  <2>4. \A u \in Tasks : tasks[u].pc = "done" => tasks'[u] = tasks[u]
      BY <1>2, <2>1, Zenon DEF IInv, Typed
  <2>5. \A k, v : Vouched(k, v) => Vouched(k, v)'
      BY <1>1, <2>4, VouchKept, Zenon
  <2>6. TaskBacked(t)'
      BY <2>1, <2>2, <2>3, <2>5, Zenon DEF TaskBacked, Backed
  <2> QED
      BY <1>1, <2>1, <2>6, QuietBacked, Zenon
<1>7. CASE BeginLocal(t, q)
  <2> DEFINE present == Get(q.key)
             y == IF present = NoRecord THEN Task(q, "crawl", NoRecord, NoRecord)
                  ELSE IF q.op = "set" THEN Task(q, "done", present, NoRecord)
                  ELSE Task(q, IfCached(present, AfterValid(q.op), "check"), present, present)
  <2>1. tasks' = [tasks EXCEPT ![t] = y] /\ tasks'[t] = y /\ q.op \in LocalOps
      BY <1>7, Zenon DEF BeginLocal, IInv, Typed
  <2>2. y.req = q
      BY Zenon DEF Task
  <2>3. \/ y.pc \in {"crawl", "check"}
        \/ y.pc = "done" /\ q.op = "set"
        \/ y.pc \in {"verify", "done"} /\ present \in cache /\ y.old = present /\ y.result = present
      BY Zenon DEF Task, IfCached, AfterValid
  <2> HIDE DEF y
  <2>4. TaskBacked(t)'
      BY <1>3, <2>1, <2>2, <2>3, Zenon DEF TaskBacked, Backed, LocalOps
  <2> QED
      BY <1>1, <2>1, <2>4, QuietBacked, Zenon
<1> QED
    BY <1>4, <1>5, <1>6, <1>7, Zenon DEF Begin

\* A set that goes on to its own value relies on the cache, or verifies.
LEMMA OwnBacked ==
    ASSUME IInv, VInv, NEW t \in Tasks, tasks[t] \in Working, tasks[t].req.op = "set",
           NEW nodes, VerifyOwn(t, nodes), verified \subseteq verified'
    PROVE  TaskBacked(t)' /\ \A u \in Tasks \ {t} : tasks'[u] = tasks[u]
<1> DEFINE y == [tasks[t] EXCEPT !.pc = IfCached(tasks[t].req.value, "commit", "verify"), !.targets = nodes]
<1>1. tasks' = [tasks EXCEPT ![t] = y]
    BY Zenon DEF VerifyOwn, IInv, Typed
<1>2. PICK k, v : k = tasks[t].req.key /\ v = tasks[t].req.value
    BY Zenon
<1>3. y.req = tasks[t].req /\ (y.pc = "verify" \/ (y.pc = "commit" /\ v \in cache))
    BY <1>2, Zenon DEF Working, IfCached
<1>4. tasks'[t] = y
    BY <1>1, Zenon DEF IInv, Typed
<1> HIDE DEF y
<1>5. v \in cache => Accepted(k, v)'
  <2>1. v \in cache => Accepted(k, v)
      BY CachedAccepted, Zenon DEF VInv
  <2> QED
      BY <2>1, Zenon DEF Accepted
<1>6. TaskBacked(t)'
    BY <1>2, <1>3, <1>4, <1>5, Zenon DEF TaskBacked, Backed
<1> QED
    BY <1>1, <1>6, Zenon DEF IInv, Typed

\* A lookup that finds nothing gives a task nothing to rely on.
LEMMA CrawlMissesBacked ==
    ASSUME IInv, VInv, NEW t \in Tasks, CrawlMisses(t)
    PROVE  VInv'
<1>1. /\ tasks[t].pc = "crawl" /\ tasks[t].req.op \in LocalOps
      /\ UNCHANGED <<store, cache, verified>>
    BY Zenon DEF CrawlMisses, At, Unchanged
<1>2. tasks[t] \in Working /\ ProofsHold' /\ CacheBacked'
  <2>1. tasks[t] \in Working
      BY <1>1, TaskBegun DEF IInv
  <2>2. ProofsHold' /\ CacheBacked'
      BY <1>1, Zenon DEF VInv, ProofsHold, CacheBacked, Verifies
  <2> QED
      BY <2>1, <2>2, Zenon
<1>3. CASE tasks[t].req.op = "set"
  <2>1. \E nodes : VerifyOwn(t, nodes)
      BY <1>3, Zenon DEF CrawlMisses
  <2>2. TaskBacked(t)' /\ \A u \in Tasks \ {t} : tasks'[u] = tasks[u]
      BY <1>1, <1>2, <1>3, <2>1, OwnBacked, Zenon
  <2> QED
      BY <1>1, <1>2, <2>2, BackedStep
<1>4. CASE tasks[t].req.op # "set"
  <2>1. PICK y \in Working : tasks' = [tasks EXCEPT ![t] = y] /\ y.pc = "done" /\ y.req = tasks[t].req
                             /\ y.result = NoRecord
      BY <1>2, <1>4, Finished DEF CrawlMisses, IInv
  <2>2. TaskBacked(t)'
      BY <2>1, TaskSet, Zenon DEF IInv, TaskBacked, Backed
  <2> QED
      BY <1>1, <2>1, <2>2, QuietBacked, Zenon
<1> QED
    BY <1>3, <1>4, Zenon

\* What a lookup finds is relied on only if it is cached.
LEMMA CrawlHitsBacked ==
    ASSUME IInv, VInv, NEW t \in Tasks, NEW v \in Records, CrawlHits(t, v)
    PROVE  VInv'
<1> DEFINE op == tasks[t].req.op
           pc == IfCached(v, AfterValid(op), "check")
           r == IF op = "set" THEN NoRecord ELSE v
           y == [tasks[t] EXCEPT !.old = v, !.result = r, !.pc = pc]
<1>1. /\ tasks[t].pc = "crawl" /\ op \in LocalOps
      /\ UNCHANGED <<store, cache, verified>>
    BY Zenon DEF CrawlHits, At, Unchanged
<1>2. tasks[t] \in Working
    BY <1>1, TaskBegun DEF IInv
<1>3. tasks' = [tasks EXCEPT ![t] = y] /\ tasks'[t] = y
    BY Zenon DEF CrawlHits, IInv, Typed
<1>4. pc = "check" \/ (pc \in {"verify", "done"} /\ v \in cache)
    BY Zenon DEF IfCached, AfterValid
<1>5. r \in {v, NoRecord}
    BY Zenon
<1> HIDE DEF pc, r
<1>6. y.req = tasks[t].req /\ y.old = v /\ y.result = r /\ y.pc = pc
    BY <1>2, Zenon DEF Working
<1> HIDE DEF y
<1>7. v \in cache => \A k : Accepted(k, v)'
    BY <1>1, CachedAccepted, Zenon DEF VInv, Accepted
<1>8. TaskBacked(t)'
    BY <1>1, <1>3, <1>4, <1>5, <1>6, <1>7, Zenon DEF TaskBacked, Backed, LocalOps
<1> QED
    BY <1>1, <1>3, <1>8, QuietBacked, Zenon

\* A record that is verified for its key is accepted from here on.
LEMMA ProvenAccepted ==
    ASSUME VInv, NEW k \in Keys, NEW v, NEW ok \in BOOLEAN, Remember(v, ok), Proven(k, v, ok),
           ok => Verifies(k, v)
    PROVE  verified \subseteq verified' /\ ProofsHold' /\ CacheBacked' /\ (ok => Accepted(k, v)')
<1>1. CASE ok
  <2>1. verified' = verified \cup {<<k, v>>} /\ Verifies(k, v)
      BY <1>1, Zenon DEF Proven
  <2>2. ProofsHold'
    <3>1. \A p \in verified' : p \in verified \/ p = <<k, v>>
        BY <2>1, Zenon
    <3>2. ASSUME NEW p \in verified' PROVE Verifies(p[1], p[2])
        BY <2>1, <3>1 DEF VInv, ProofsHold
    <3> QED
        BY <3>2, Zenon DEF ProofsHold, Verifies
  <2>3. CacheBacked'
      BY <1>1, <2>1, Zenon DEF VInv, CacheBacked, Remember
  <2> QED
      BY <2>1, <2>2, <2>3, Zenon DEF Accepted
<1>2. CASE ~ok
    BY <1>2, Zenon DEF Proven, Remember, VInv, ProofsHold, CacheBacked, Verifies
<1> QED
    BY <1>1, <1>2, Zenon

\* The present record is used from here on only if it verifies.
LEMMA CheckBacked ==
    ASSUME IInv, VInv, NEW t \in Tasks, Check(t)
    PROVE  VInv'
<1>1. /\ tasks[t].pc = "check" /\ tasks[t].req.op \in LocalOps /\ store' = store
      /\ tasks[t] \in Working /\ tasks[t].req.key \in Keys
  <2>1. tasks[t].pc = "check" /\ tasks[t].req.op \in LocalOps /\ store' = store
      BY Zenon DEF Check, At
  <2>2. tasks[t] \in Working
      BY <2>1, TaskBegun DEF IInv
  <2> QED
      BY <2>1, <2>2, RecordStoreConstants DEF Working
<1>2. PICK k, v : k \in Keys /\ k = tasks[t].req.key /\ v = tasks[t].old
    BY <1>1, Zenon
<1>3. PICK ok \in BOOLEAN : ok <=> Verifies(k, v)
    BY Zenon
<1>4. /\ Remember(v, ok) /\ Proven(k, v, ok)
      /\ IF ok THEN Goto(t, AfterValid(tasks[t].req.op))
         ELSE IF tasks[t].req.op = "set" THEN VerifyOwn(t, FALSE)
         ELSE Finish(t, NoRecord, "none")
  <2>1. Verifies(k, v) = ok
      BY <1>3 DEF Verifies
  <2> QED
      BY <1>2, <2>1, Zenon DEF Check
<1>5. verified \subseteq verified' /\ ProofsHold' /\ CacheBacked' /\ (ok => Accepted(k, v)')
    BY <1>2, <1>3, <1>4, ProvenAccepted, Zenon
<1>6. ASSUME TaskBacked(t)', \A u \in Tasks \ {t} : tasks'[u] = tasks[u] PROVE VInv'
    BY <1>1, <1>5, <1>6, BackedStep
<1>7. CASE ok
  <2>1. AfterValid(tasks[t].req.op) \in {"verify", "done"}
      BY DEF AfterValid
  <2>2. PICK y \in Working : /\ tasks' = [tasks EXCEPT ![t] = y] /\ y.pc \in {"verify", "done"}
                             /\ y.req = tasks[t].req /\ y.old = v /\ y.result = tasks[t].result
      BY <1>1, <1>2, <1>4, <1>7, <2>1, Gone DEF IInv
  <2>3. tasks[t].req.op = "get" => tasks[t].result = v
      BY <1>1, <1>2 DEF IInv, TaskSound, Sound
  <2>4. TaskBacked(t)' /\ \A u \in Tasks \ {t} : tasks'[u] = tasks[u]
    <3>1. tasks'[t] = y /\ \A u \in Tasks \ {t} : tasks'[u] = tasks[u]
        BY <2>2, TaskSet, Zenon DEF IInv
    <3> QED
        BY <1>1, <1>2, <1>5, <1>7, <2>2, <2>3, <3>1, Zenon DEF TaskBacked, Backed, LocalOps
  <2> QED
      BY <1>6, <2>4, Zenon
<1>8. CASE ~ok /\ tasks[t].req.op = "set"
  <2>1. VerifyOwn(t, FALSE)
      BY <1>4, <1>8, Zenon
  <2> QED
      BY <1>1, <1>5, <1>6, <1>8, <2>1, OwnBacked, Zenon
<1>9. CASE ~ok /\ tasks[t].req.op # "set"
  <2>1. PICK y \in Working : tasks' = [tasks EXCEPT ![t] = y] /\ y.pc = "done" /\ y.req = tasks[t].req
                             /\ y.result = NoRecord
    <3>1. Finish(t, NoRecord, "none")
        BY <1>4, <1>9, Zenon
    <3>2. Typed /\ tasks[t] \in Working
        BY <1>1, Zenon DEF IInv
    <3> QED
        BY <3>1, <3>2, Finished
  <2>2. tasks'[t] = y /\ \A u \in Tasks \ {t} : tasks'[u] = tasks[u]
      BY <2>1, TaskSet, Zenon DEF IInv
  <2>3. TaskBacked(t)'
      BY <2>1, <2>2, Zenon DEF TaskBacked, Backed, LocalOps
  <2> QED
      BY <1>6, <2>2, <2>3, Zenon
<1> QED
    BY <1>7, <1>8, <1>9, Zenon

\* A task that may write has verified what it writes, or what it rests on.
LEMMA VerifyOkBacked ==
    ASSUME IInv, VInv, NEW t \in Tasks, VerifyOk(t)
    PROVE  VInv'
<1>1. /\ tasks[t].pc = "verify" /\ store' = store /\ Authorised(tasks[t].req, tasks[t].old)
      /\ Goto(t, "commit")
    BY Zenon DEF VerifyOk
<1>2. tasks[t] \in Working
    BY <1>1, TaskBegun DEF IInv
<1>3. PICK y \in Working : /\ tasks' = [tasks EXCEPT ![t] = y]
                           /\ y.pc = "commit" /\ y.req = tasks[t].req /\ y.old = tasks[t].old
    BY <1>1, <1>2, Gone DEF IInv
<1>4. tasks'[t] = y /\ \A u \in Tasks \ {t} : tasks'[u] = tasks[u]
    BY <1>3, TaskSet, Zenon DEF IInv
<1>5. PICK k, v : k \in Keys /\ k = y.req.key /\ v = y.req.value
  <2>1. y.req.key \in Keys
      BY <1>3, RecordStoreConstants DEF Working
  <2> QED
      BY <2>1, Zenon
<1>6. CASE y.req.op \in {"store", "set"}
  <2>1. Remember(v, TRUE) /\ Proven(k, v, TRUE)
      BY <1>3, <1>5, <1>6, Zenon DEF VerifyOk
  <2>2. Verifies(k, v)
      BY <1>1, <1>3, <1>5, <1>6, Zenon DEF Authorised
  <2>3. verified \subseteq verified' /\ ProofsHold' /\ CacheBacked' /\ Accepted(k, v)'
      BY <1>5, <2>1, <2>2, ProvenAccepted, Zenon
  <2>4. TaskBacked(t)'
      BY <1>3, <1>4, <1>5, <1>6, <2>3, Zenon DEF TaskBacked, Backed
  <2> QED
      BY <1>1, <1>4, <2>3, <2>4, BackedStep, Zenon
<1>7. CASE y.req.op \notin {"store", "set"}
  <2>1. UNCHANGED <<store, cache, verified>>
      BY <1>1, <1>3, <1>7, Zenon DEF VerifyOk
  <2>2. PICK old : old = y.old
      BY Zenon
  <2>3. y.req.op \in {"put", "remove"} => Accepted(k, old)
      BY <1>1, <1>3, <1>5, <2>2, Zenon DEF VInv, TaskBacked, Backed
  <2>4. y.req.op \in {"put", "remove"} => Accepted(k, old)'
      BY <2>1, <2>3, Zenon DEF Accepted
  <2>5. TaskBacked(t)'
      BY <1>3, <1>4, <1>5, <1>7, <2>2, <2>4, Zenon DEF TaskBacked, Backed
  <2> QED
      BY <1>1, <1>3, <2>1, <2>5, QuietBacked, Zenon
<1> QED
    BY <1>6, <1>7, Zenon

\* A request that fails its verification leaves nothing behind.
LEMMA VerifyFailsBacked ==
    ASSUME IInv, VInv, NEW t \in Tasks, VerifyFails(t)
    PROVE  VInv'
<1>1. /\ tasks[t].pc = "verify" /\ UNCHANGED <<store, cache, verified>>
      /\ tasks' = [tasks EXCEPT ![t] = tasks'[t]]
      /\ tasks'[t].pc = "done" /\ tasks'[t].req = tasks[t].req
      /\ tasks[t].req.op \in LocalOps => tasks'[t].result = NoRecord
  <2> DEFINE q == tasks[t].req
             res == IF q.op \in LocalOps THEN NoRecord ELSE Answer(FALSE)
             ro == CASE q.op # "store"                       -> "none"
                     [] strikes'[q.sender] >= BanThreshold   -> "remove"
                     [] OTHER                                -> "welcome"
  <2>1. tasks[t].pc = "verify" /\ UNCHANGED <<store, cache, verified>> /\ Finish(t, res, ro)
      BY Zenon DEF VerifyFails, Remember
  <2>2. tasks[t] \in Working
      BY <2>1, TaskBegun DEF IInv
  <2> HIDE DEF ro
  <2>3. \A x : [tasks[t] EXCEPT !.pc = "done", !.result = res, !.router = x].pc = "done"
      BY <2>2, Zenon DEF Working
  <2>4. tasks'[t] = [tasks[t] EXCEPT !.pc = "done", !.result = res, !.router = ro]
      BY <2>1, Zenon DEF Finish, IInv, Typed
  <2>5. tasks' = [tasks EXCEPT ![t] = tasks'[t]]
      BY <2>1, <2>4, Zenon DEF Finish, IInv, Typed
  <2> QED
      BY <2>1, <2>2, <2>3, <2>4, <2>5, Zenon DEF Working
<1>2. tasks[t].req.op # "find"
    BY <1>1 DEF IInv, TaskSound, Sound
<1>3. tasks[t].req.op = "get" => tasks'[t].result = NoRecord
    BY <1>1, Zenon DEF LocalOps
<1>4. TaskBacked(t)'
    BY <1>1, <1>2, <1>3, Zenon DEF TaskBacked, Backed
<1>5. \A u \in Tasks \ {t} : tasks'[u] = tasks[u]
    BY <1>1, Zenon DEF IInv, Typed
<1>6. ProofsHold' /\ CacheBacked'
    BY <1>1, Zenon DEF VInv, ProofsHold, CacheBacked, Verifies
<1> QED
    BY <1>1, <1>4, <1>5, <1>6, BackedStep, Zenon

\* A task that ends is backed, and so is what it wrote.
LEMMA CommitBacked ==
    ASSUME IInv, VInv, NEW t \in Tasks, Commit(t)
    PROVE  VInv'
<1>1. /\ tasks[t].pc = "commit" /\ UNCHANGED <<cache, verified>>
      /\ tasks[t].req.op \in {"store", "update", "status", "delete", "set", "put", "remove"}
      /\ \E r \in {"yes", "no"}, ro \in {"none", "welcome", "remove"} : Finish(t, r, ro)
      /\ \/ store' = store \/ store' = Delete(tasks[t].req.key)
         \/ /\ store' = Set(tasks[t].req.key, tasks[t].req.value)
            /\ tasks[t].req.op \in {"store", "set", "update", "status", "put"}
  <2>1. CASE CommitStore(t)
      BY <2>1, Zenon DEF CommitStore, At, InsertIfAbsent, Answer
  <2>2. CASE CommitChange(t)
      BY <2>2, Zenon DEF CommitChange, At, Answer
  <2>3. CASE CommitRemove(t)
      BY <2>3, Zenon DEF CommitRemove, At, Answer
  <2>4. CASE \E near, acked \in BOOLEAN : CommitLocal(t, near, acked)
      BY <2>4, Zenon DEF CommitLocal, At, Answer
  <2> QED
      BY <2>1, <2>2, <2>3, <2>4, Zenon DEF Commit
<1>2. tasks[t] \in Working
    BY <1>1, AtCommit
<1>3. PICK y \in Working : /\ tasks' = [tasks EXCEPT ![t] = y] /\ y.pc = "done"
                           /\ y.req = tasks[t].req /\ y.old = tasks[t].old
    BY <1>1, <1>2, Finished DEF IInv
<1>4. tasks'[t] = y /\ \A u \in Tasks \ {t} : tasks'[u] = tasks[u]
    BY <1>3, TaskSet, Zenon DEF IInv
<1>5. TaskBacked(t)'
    BY <1>1, <1>3, <1>4, Zenon DEF TaskBacked, Backed
<1>6. ProofsHold' /\ CacheBacked'
    BY <1>1, Zenon DEF VInv, ProofsHold, CacheBacked, Verifies
<1>7. PICK k, v : k \in Keys /\ k = y.req.key /\ v = y.req.value
  <2>1. y.req.key \in Keys
      BY <1>3, RecordStoreConstants DEF Working
  <2> QED
      BY <2>1, Zenon
<1>8. \A j, w : Vouched(j, w) => Vouched(j, w)'
  <2>1. \A u \in Tasks : tasks[u].pc = "done" => tasks'[u] = tasks[u]
      BY <1>1, <1>4, Zenon
  <2> QED
      BY <1>1, <2>1, VouchKept, Zenon
<1>9. y.req.op \in {"store", "set", "update", "status", "put"} => Vouched(k, v)'
  <2>1. CASE y.req.op \in {"store", "set"}
    <3>1. Accepted(k, v)
        BY <1>1, <1>3, <1>7, <2>1, Zenon DEF VInv, TaskBacked, Backed
    <3>2. Vouched(k, v)
        BY <3>1, Zenon DEF Vouched
    <3> QED
        BY <1>8, <3>2, Zenon
  <2>2. CASE y.req.op \in {"update", "status", "put"}
    <3>1. Sound(tasks[t])
        BY DEF IInv, TaskSound
    <3>2. Authorised(y.req, y.old)
        BY <1>1, <1>3, <2>2, <3>1, Zenon DEF Sound
    <3>3. y.old # NoRecord
      <4>1. y.old \in history.past[y.req.key] \/ y.old \in Signed
          BY <1>1, <1>3, <2>2, <3>1, Zenon DEF Sound
      <4> QED
          BY <1>7, <4>1, RecordStoreConstants DEF IInv, Typed, Signed
    <3>4. /\ tasks'[t].pc = "done" /\ tasks'[t].req.op \in {"update", "status", "put"}
          /\ tasks'[t].old # NoRecord /\ tasks'[t].req.key = k /\ tasks'[t].req.value = v
        BY <1>3, <1>4, <1>7, <2>2, <3>3, Zenon
    <3>5. Authorised(tasks[t].req, tasks[t].old)'
        BY <1>4, <3>2, Zenon DEF Authorised, Verifies, KeyRotation
    <3> QED
        BY <3>4, <3>5, Zenon DEF Vouched, At
  <2> QED
      BY <2>1, <2>2, Zenon
<1>10. StoreBacked' \/ store' = store
  <2>1. CASE store' = Delete(k)
      BY <1>8, <2>1, Zenon DEF VInv, StoreBacked, Delete, Vacant, IInv, Typed
  <2>2. CASE store' = Set(k, v) /\ Vouched(k, v)'
      BY <1>8, <2>2, Zenon DEF VInv, StoreBacked, Set, IInv, Typed
  <2> QED
      BY <1>1, <1>3, <1>7, <1>9, <2>1, <2>2, Zenon
<1> QED
    BY <1>1, <1>4, <1>5, <1>6, <1>10, BackedStep, Zenon

\* Every step keeps what is verified tied to what is held.
LEMMA StepBacked ==
    ASSUME IInv, VInv, [Next]_vars
    PROVE  VInv'
<1>1. ASSUME NEW t \in Tasks, Step(t) PROVE VInv'
    BY <1>1, CrawlMissesBacked, CrawlHitsBacked, CheckBacked, VerifyOkBacked, VerifyFailsBacked,
       CommitBacked, Zenon DEF Step
<1>2. ASSUME UNCHANGED <<tasks, verified>>, cache' \subseteq cache,
             \A k \in Keys : store'[k].value = store[k].value
      PROVE  VInv'
  <2>1. \A k, v : (Accepted(k, v) => Accepted(k, v)') /\ (Vouched(k, v) => Vouched(k, v)')
      BY <1>2, VouchKept, Zenon
  <2>2. \A t \in Tasks : TaskBacked(t)'
      BY <1>2, <2>1, Zenon DEF VInv, TaskBacked, Backed
  <2>3. ProofsHold' /\ CacheBacked'
      BY <1>2, Zenon DEF VInv, ProofsHold, CacheBacked, Verifies
  <2>4. StoreBacked'
      BY <1>2, <2>1, Zenon DEF VInv, StoreBacked
  <2> QED
      BY <2>2, <2>3, <2>4, Zenon DEF VInv
<1>3. CASE Tick
  <2>1. \A k \in Keys : store'[k].value = store[k].value
      BY <1>3 DEF Tick, IInv, Typed
  <2> QED
      BY <1>2, <1>3, <2>1, Zenon DEF Tick
<1>4. CASE \E v \in Records : Evict(v)
    BY <1>2, <1>4, Zenon DEF Evict
<1>5. CASE UNCHANGED vars
    BY <1>2, <1>5, Zenon DEF vars
<1> QED
    BY <1>1, <1>3, <1>4, <1>5, BeginBacked, Zenon DEF Next

-----------------------------------------------------------------------------
(* Theorems *)

\* The invariant holds throughout.
LEMMA Invariance == Safety => []IInv
<1>1. IInv /\ [Next]_vars => IInv'
    BY StepSound
<1> QED
    BY InitSound, <1>1, PTL DEF Safety

\* Whatever the handlers, the local operations, expiry and the cache do between
\* each other's awaits, no record is held, cached or answered that this node has
\* not verified, under the rule of its own key or, through the cache, under that
\* of another (verify_for_key, verify_value, SignatureCache).
THEOREM RecordsAreVerified == Safety => []OnlyVerifiedRecords
<1>1. Init => VInv
  <2> SUFFICES ASSUME Init PROVE VInv
      BY Zenon
  <2>1. \A t \in Tasks : tasks[t].pc = "idle"
      BY DEF Init, Idle
  <2>2. \A t \in Tasks : TaskBacked(t)
      BY <2>1 DEF TaskBacked, Backed
  <2> QED
      BY <2>2, Zenon DEF Init, VInv, ProofsHold, CacheBacked, StoreBacked, Vacant
<1>2. IInv /\ VInv /\ [Next]_vars => VInv'
    BY StepBacked, Zenon
<1>3. VInv => OnlyVerifiedRecords
    BY Zenon DEF VInv, ProofsHold, CacheBacked, StoreBacked, TaskBacked, Backed, OnlyVerifiedRecords, At
<1> QED
    BY Invariance, <1>1, <1>2, <1>3, PTL DEF Safety

\* Two concurrent stores of one key are not both answered with success.
THEOREM OneStoreWins == Safety => []StoresExclusive
<1>1. IInv => StoresExclusive
    BY DEF IInv
<1> QED
    BY Invariance, <1>1, PTL

\* An update that rpc_update lets through was signed by an owner of the key.
THEOREM OwnersUpdate == Safety => []UpdateByAnOwner
<1>1. IInv => UpdateByAnOwner
    BY AtCommit DEF UpdateByAnOwner, At
<1> QED
    BY Invariance, <1>1, PTL

\* Each request takes effect in one step and as KeyRegister allows, for any
\* number of tasks, keys and records.
THEOREM NodeIsARegister == Safety => ImplementsRegister
<1>1. Init => Register!Init
  <2> SUFFICES ASSUME Init PROVE Register!Init
      OBVIOUS
  <2>1. \A k \in Keys : Get(k) = NoRecord
      BY DEF Init, Get, Live
  <2>2. \A t \in Tasks : tasks[t].pc = "idle"
      BY DEF Init, Idle
  <2>3. history.past = [k \in Keys |-> {}]
      BY DEF Init
  <2> QED
      BY <2>1, <2>2, <2>3 DEF Register!Init
<1>2. IInv /\ [Next]_vars => [Register!Next]_(Register!vars)
    BY StepSound DEF RegisterStep
<1> QED
    BY Invariance, <1>1, <1>2, PTL DEF Safety, ImplementsRegister, Register!Spec
=============================================================================
