-------------------------- MODULE KeyWrappingProofs -------------------------
(***************************************************************************)
(* Proofs about KeyWrapping, for every set of slots, processes, goroutines, *)
(* fields and configurations of either strategy, when the configurations     *)
(* name each key after the field it lives in, or have one local master key   *)
(* (FieldsNameKeys).                                                         *)
(***************************************************************************)
EXTENDS KeyWrapping, TLAPS

----------------------------------------------------------------------------
(* The inductive invariant.                                                  *)

\* An identifier in use is the name of a field.
Named(id) == id \in Fields /\ id # OldMasterKey

\* The key that stands for an identifier in process p.
Right(p, id, key) ==
    IF Local(p) THEN key = config[p].master ELSE Named(id) /\ key = id

\* The deployment keeps to one strategy.
OneStrategy == \A p, q \in Processes : config[p].strategy = config[q].strategy

\* A stored slot holds its own data key and PIN, sealed with the key its row names, and that
\* key is still there to be fetched.
RowsSealed ==
    \A r \in Rows : row[r] # NoRow =>
        /\ row[r].wrapped.of = r
        /\ row[r].pin = [under |-> r, of |-> r]
        /\ \A p \in Processes :
              /\ Right(p, row[r].version, row[r].wrapped.under)
              /\ ~Local(p) => row[r].version \in secret

\* What a process caches under a name is that field's key. The one it wraps with is still in
\* the Secret, for a field some process is configured with is never removed.
CacheNamed ==
    \A p \in Processes :
        /\ Local(p) => cache[p] = {}
        /\ \A c \in cache[p] :
              /\ Named(c.id) /\ c.key = c.id
              /\ c.id = config[p].keyId => c.id \in secret

\* A goroutine past GetKey holds the key its identifier stands for; the one that wraps uses
\* the identifier its process is configured with.
JobNamed(w) ==
    /\ job[w].op = "wrap" => job[w].id = config[job[w].proc].keyId
    /\ Local(job[w].proc) => pc[w] \in {"lookup", "use"}
    /\ ~Local(job[w].proc) => Named(job[w].id)
    /\ pc[w] \in {"store", "use"} =>
          /\ Right(job[w].proc, job[w].id, job[w].key)
          /\ ~Local(job[w].proc) /\ job[w].id = config[job[w].proc].keyId => job[w].id \in secret

JobsNamed == \A w \in Workers : pc[w] # "idle" => JobNamed(w)

IInv == TypeOK /\ OneStrategy /\ RowsSealed /\ CacheNamed /\ JobsNamed

----------------------------------------------------------------------------
(* Facts about the operators.                                                *)

\* The configurations as records.
LEMMA ConfigFields ==
    ASSUME FieldsNameKeys, NEW cfg \in Configs
    PROVE  /\ cfg.keyId \in Ids
           /\ cfg.strategy # "local" => cfg.keyId = cfg.master /\ Named(cfg.keyId)
BY WrappingAssumption DEF FieldsNameKeys, Named, Ids

\* A name means the field of that name, in every process.
LEMMA NameMeansField ==
    ASSUME FieldsNameKeys, config \in [Processes -> Configs], NEW p \in Processes,
           ~Local(p), NEW id, Named(id)
    PROVE  SecretField(p, id) = id
<1>1. config[p].keyId = config[p].master
  BY ConfigFields DEF Local
<1>2. QED
  BY <1>1 DEF SecretField, Named

\* A goroutine at work has a job, of one of the processes and on one of the rows.
LEMMA BusyHasJob ==
    ASSUME TypeOK, NEW w \in Workers, pc[w] # "idle"
    PROVE  job[w] \in Job
BY DEF TypeOK

\* An idle goroutine has none.
LEMMA JobIsNotNoJob ==
    ASSUME NEW j \in Job
    PROVE  j # NoJob
<1>1. j.proc \in Processes /\ NoJob.proc = None
  BY DEF Job, NoJob
<1>2. QED
  BY <1>1, WrappingAssumption

\* A goroutine that moves on with a job keeps the types of the goroutines.
LEMMA MoveTyped ==
    ASSUME TypeOK, NEW w \in Workers, NEW from, NEW to \in Steps \ {"idle"}, NEW j \in Job,
           Goes(w, from, to), job' = [job EXCEPT ![w] = j]
    PROVE  /\ pc' \in [Workers -> Steps] /\ job' \in [Workers -> Job \cup {NoJob}]
           /\ \A v \in Workers : (job'[v] = NoJob) = (pc'[v] = "idle")
<1>1. j # NoJob
  BY JobIsNotNoJob
<1>2. pc' \in [Workers -> Steps] /\ job' \in [Workers -> Job \cup {NoJob}]
  BY DEF TypeOK, Goes
<1>3. ASSUME NEW v \in Workers PROVE (job'[v] = NoJob) = (pc'[v] = "idle")
  <2>1. CASE v = w
    BY <2>1, <1>1 DEF TypeOK, Goes
  <2>2. CASE v # w
    BY <2>2 DEF TypeOK, Goes
  <2>3. QED
    BY <2>1, <2>2
<1>4. QED
  BY <1>2, <1>3

\* A goroutine that ends keeps the types of the goroutines.
LEMMA EndsTyped ==
    ASSUME TypeOK, NEW w \in Workers, Ends(w)
    PROVE  /\ pc' \in [Workers -> Steps] /\ job' \in [Workers -> Job \cup {NoJob}]
           /\ \A v \in Workers : (job'[v] = NoJob) = (pc'[v] = "idle")
<1>1. pc' \in [Workers -> Steps] /\ job' \in [Workers -> Job \cup {NoJob}]
  BY DEF TypeOK, Ends, Steps
<1>2. ASSUME NEW v \in Workers PROVE (job'[v] = NoJob) = (pc'[v] = "idle")
  <2>1. CASE v = w
    BY <2>1 DEF TypeOK, Ends
  <2>2. CASE v # w
    BY <2>2 DEF TypeOK, Ends
  <2>3. QED
    BY <2>1, <2>2
<1>3. QED
  BY <1>1, <1>2

\* Rows and caches say the same as long as no field goes.
LEMMA StoresKept ==
    ASSUME IInv, UNCHANGED <<config, cache, row>>, secret \subseteq secret'
    PROVE  OneStrategy' /\ RowsSealed' /\ CacheNamed'
<1>1. OneStrategy'
  BY DEF IInv, OneStrategy
<1>2. RowsSealed'
  BY DEF IInv, RowsSealed, Right, Local, Named
<1>3. CacheNamed'
  BY DEF IInv, CacheNamed, Local, Named
<1>4. QED
  BY <1>1, <1>2, <1>3

\* A goroutine's step is nothing to the others.
LEMMA JobsKept ==
    ASSUME IInv, NEW w \in Workers, UNCHANGED config, secret \subseteq secret',
           \A v \in Workers \ {w} : pc'[v] = pc[v] /\ job'[v] = job[v],
           pc'[w] # "idle" => JobNamed(w)'
    PROVE  JobsNamed'
<1>1. ASSUME NEW v \in Workers, v # w, pc'[v] # "idle" PROVE JobNamed(v)'
  <2>1. JobNamed(v) /\ pc'[v] = pc[v] /\ job'[v] = job[v]
    BY <1>1 DEF IInv, JobsNamed
  <2>2. QED
    BY <2>1 DEF JobNamed, Right, Local, Named
<1>2. QED
  BY <1>1 DEF JobsNamed

\* A goroutine that ends leaves everything to the others.
LEMMA EndsIInv ==
    ASSUME IInv, NEW w \in Workers, Ends(w), TypeOK', UNCHANGED config, secret \subseteq secret',
           OneStrategy' /\ RowsSealed' /\ CacheNamed'
    PROVE  IInv'
<1>1. pc'[w] = "idle" /\ \A v \in Workers \ {w} : pc'[v] = pc[v] /\ job'[v] = job[v]
  BY DEF IInv, TypeOK, Ends
<1>2. JobsNamed'
  BY <1>1, JobsKept
<1>3. QED
  BY <1>2 DEF IInv

----------------------------------------------------------------------------
(* The invariant holds at the start and every action keeps it.               *)

LEMMA InitIInv ==
    ASSUME FieldsNameKeys, Init
    PROVE  IInv
<1>1. PICK cfg \in Configs : config = [p \in Processes |-> cfg] /\ secret = {cfg.master}
  BY DEF Init
<1>2. TypeOK
  BY <1>1, WrappingAssumption DEF Init, TypeOK, Steps
<1>3. OneStrategy
  BY <1>1 DEF OneStrategy
<1>4. RowsSealed /\ CacheNamed /\ JobsNamed
  BY DEF Init, RowsSealed, CacheNamed, JobsNamed
<1>5. QED
  BY <1>2, <1>3, <1>4 DEF IInv

\* A slot that is being initialized takes the key of its process's configuration.
LEMMA BeginWrapIInv ==
    ASSUME FieldsNameKeys, IInv, NEW w \in Workers, NEW p \in Processes, NEW r \in Rows,
           BeginWrap(w, p, r)
    PROVE  IInv'
<1> DEFINE j == [proc |-> p, op |-> "wrap", row |-> r, id |-> config[p].keyId, key |-> None]
<1>1. /\ config[p] \in Configs /\ config[p].keyId \in Ids
      /\ ~Local(p) => Named(config[p].keyId)
  BY ConfigFields DEF IInv, TypeOK, Local
<1>2. j \in Job
  BY <1>1 DEF Job
<1>3. job' = [job EXCEPT ![w] = j] /\ Goes(w, "idle", "lookup")
      /\ UNCHANGED <<secret, removed, config, cache, row>>
  BY DEF BeginWrap
<1>4. TypeOK'
  <2>1. /\ pc' \in [Workers -> Steps] /\ job' \in [Workers -> Job \cup {NoJob}]
        /\ \A v \in Workers : (job'[v] = NoJob) = (pc'[v] = "idle")
    BY <1>2, <1>3, MoveTyped DEF IInv, Steps
  <2>2. QED
    BY <2>1, <1>3 DEF IInv, TypeOK
<1>5. JobsNamed'
  <2>1. /\ pc'[w] = "lookup" /\ job'[w] = j
        /\ \A v \in Workers \ {w} : pc'[v] = pc[v] /\ job'[v] = job[v]
    BY <1>3 DEF IInv, TypeOK, Goes
  <2>2. JobNamed(w)'
    BY <1>1, <1>3, <2>1 DEF JobNamed, Local, Named
  <2>3. QED
    BY <1>3, <2>1, <2>2, JobsKept
<1>6. OneStrategy' /\ RowsSealed' /\ CacheNamed'
  BY <1>3, StoresKept
<1>7. QED
  BY <1>4, <1>5, <1>6 DEF IInv

\* A slot that is being read takes the key its row names.
LEMMA BeginUnwrapIInv ==
    ASSUME FieldsNameKeys, IInv, NEW w \in Workers, NEW p \in Processes, NEW r \in Rows,
           BeginUnwrap(w, p, r)
    PROVE  IInv'
<1> DEFINE j == [proc |-> p, op |-> "unwrap", row |-> r, id |-> row[r].version, key |-> None]
<1>1. (~Local(p) => Named(row[r].version)) /\ row[r].version \in Ids
  BY DEF IInv, TypeOK, RowsSealed, Right, BeginUnwrap, Sealed
<1>2. j \in Job
  BY <1>1 DEF Job
<1>3. job' = [job EXCEPT ![w] = j] /\ Goes(w, "idle", "lookup")
      /\ UNCHANGED <<secret, removed, config, cache, row>>
  BY DEF BeginUnwrap
<1>4. TypeOK'
  <2>1. /\ pc' \in [Workers -> Steps] /\ job' \in [Workers -> Job \cup {NoJob}]
        /\ \A v \in Workers : (job'[v] = NoJob) = (pc'[v] = "idle")
    BY <1>2, <1>3, MoveTyped DEF IInv, Steps
  <2>2. QED
    BY <2>1, <1>3 DEF IInv, TypeOK
<1>5. JobsNamed'
  <2>1. /\ pc'[w] = "lookup" /\ job'[w] = j
        /\ \A v \in Workers \ {w} : pc'[v] = pc[v] /\ job'[v] = job[v]
    BY <1>3 DEF IInv, TypeOK, Goes
  <2>2. JobNamed(w)'
    BY <1>1, <1>3, <2>1 DEF JobNamed, Local, Named
  <2>3. QED
    BY <1>3, <2>1, <2>2, JobsKept
<1>6. OneStrategy' /\ RowsSealed' /\ CacheNamed'
  BY <1>3, StoresKept
<1>7. QED
  BY <1>4, <1>5, <1>6 DEF IInv

\* A key that a goroutine gets, from wherever, is the one it asked for.
LEMMA GotIInv ==
    ASSUME IInv, NEW w \in Workers, NEW from \in {"lookup", "fetch"},
           NEW to \in {"store", "use"}, NEW key \in Fields, Goes(w, from, to), Got(w, key),
           Right(job[w].proc, job[w].id, key),
           Local(job[w].proc) => to = "use",
           ~Local(job[w].proc) /\ job[w].id = config[job[w].proc].keyId => key \in secret,
           UNCHANGED <<secret, removed, config, cache, row>>
    PROVE  IInv'
<1> DEFINE j == [job[w] EXCEPT !.key = key]
<1>1. job[w] \in Job /\ JobNamed(w)
  BY BusyHasJob DEF IInv, JobsNamed, Goes
<1>2. j \in Job /\ job' = [job EXCEPT ![w] = j]
  BY <1>1 DEF Job, Got
<1>3. TypeOK'
  <2>1. /\ pc' \in [Workers -> Steps] /\ job' \in [Workers -> Job \cup {NoJob}]
        /\ \A v \in Workers : (job'[v] = NoJob) = (pc'[v] = "idle")
    BY <1>2, MoveTyped DEF IInv, Steps
  <2>2. QED
    BY <2>1 DEF IInv, TypeOK
<1>4. JobsNamed'
  <2>1. ASSUME NEW v \in Workers, v # w PROVE pc'[v] = pc[v] /\ job'[v] = job[v]
    BY <2>1, <1>2 DEF IInv, TypeOK, Goes
  <2>2. pc'[w] = to /\ job'[w] = j /\ pc[w] # "idle"
    BY <1>2 DEF IInv, TypeOK, Goes
  <2>3. j.id = job[w].id /\ j.op = job[w].op /\ j.proc = job[w].proc /\ j.key = key
    BY <1>1 DEF Job
  <2> HIDE DEF j
  <2>4. JobNamed(w)'
    BY <1>1, <2>2, <2>3 DEF JobNamed, Right, Local, Named
  <2>5. QED
    BY <2>1, <2>4, JobsKept
<1>5. OneStrategy' /\ RowsSealed' /\ CacheNamed'
  BY StoresKept
<1>6. QED
  BY <1>3, <1>4, <1>5 DEF IInv

\* The local strategy gives its one key.
LEMMA LocalGetKeyIInv ==
    ASSUME IInv, NEW w \in Workers, LocalGetKey(w)
    PROVE  IInv'
<1>1. job[w].proc \in Processes
  BY BusyHasJob DEF IInv, LocalGetKey, Goes, Job
<1>2. config[job[w].proc].master \in Fields
  BY <1>1, WrappingAssumption DEF IInv, TypeOK
<1>3. QED
  BY <1>2, GotIInv DEF LocalGetKey, Right

LEMMA CacheHitIInv ==
    ASSUME IInv, NEW w \in Workers, CacheHit(w)
    PROVE  IInv'
<1>1. PICK key \in Cached(job[w].proc, job[w].id) : Got(w, key)
  BY DEF CacheHit
<1>2. job[w].proc \in Processes
  BY BusyHasJob DEF IInv, CacheHit, Goes, Job
<1>3. /\ key = job[w].id /\ Named(job[w].id)
      /\ job[w].id = config[job[w].proc].keyId => key \in secret
  BY <1>1, <1>2 DEF IInv, CacheNamed, Cached
<1>4. QED
  BY <1>1, <1>3, GotIInv DEF CacheHit, Right, Named

LEMMA FetchIInv ==
    ASSUME FieldsNameKeys, IInv, NEW w \in Workers, Fetch(w)
    PROVE  IInv'
<1>1. PICK key \in Holds(SecretField(job[w].proc, job[w].id)) : Got(w, key)
  BY DEF Fetch
<1>2. job[w].proc \in Processes /\ ~Local(job[w].proc) /\ Named(job[w].id)
  <2>1. pc[w] = "fetch"
    BY DEF Fetch, Goes
  <2>2. job[w] \in Job /\ JobNamed(w)
    BY <2>1, BusyHasJob DEF IInv, JobsNamed
  <2>3. QED
    BY <2>1, <2>2 DEF JobNamed, Job
<1>3. SecretField(job[w].proc, job[w].id) = job[w].id
  BY <1>2, NameMeansField DEF IInv, TypeOK
<1>4. key = job[w].id /\ key \in secret
  BY <1>1, <1>3 DEF Holds
<1>5. QED
  BY <1>1, <1>2, <1>4, GotIInv DEF Fetch, Right, Named

LEMMA CacheMissIInv ==
    ASSUME IInv, NEW w \in Workers, CacheMiss(w)
    PROVE  IInv'
<1>1. TypeOK'
  BY DEF IInv, TypeOK, CacheMiss, Goes, Steps
<1>2. OneStrategy' /\ RowsSealed' /\ CacheNamed'
  BY StoresKept DEF CacheMiss
<1>3. JobsNamed'
  <2>1. /\ pc[w] = "lookup" /\ pc'[w] = "fetch" /\ job' = job
        /\ \A v \in Workers \ {w} : pc'[v] = pc[v] /\ job'[v] = job[v]
    BY DEF IInv, TypeOK, CacheMiss, Goes
  <2>2. JobNamed(w)
    BY <2>1 DEF IInv, JobsNamed
  <2>3. JobNamed(w)'
    BY <2>1, <2>2 DEF CacheMiss, JobNamed, Local, Named
  <2>4. QED
    BY <2>1, <2>3, JobsKept DEF CacheMiss
<1>4. QED
  BY <1>1, <1>2, <1>3 DEF IInv

\* What is put in the cache is the key that was asked for, under its name.
LEMMA StoreIInv ==
    ASSUME IInv, NEW w \in Workers, Store(w)
    PROVE  IInv'
<1> DEFINE p == job[w].proc
           c == [id |-> job[w].id, key |-> job[w].key]
<1>1. /\ job[w] \in Job /\ p \in Processes /\ ~Local(p) /\ Named(c.id) /\ c.key = c.id
      /\ c.id = config[p].keyId => c.id \in secret
  <2>1. pc[w] = "store"
    BY DEF Store, Goes
  <2>2. job[w] \in Job /\ p \in Processes
    BY <2>1, BusyHasJob DEF IInv, Job
  <2>3. JobNamed(w)
    BY <2>1 DEF IInv, JobsNamed
  <2>4. QED
    BY <2>1, <2>2, <2>3 DEF JobNamed, Right
<1>2. c \in [id : Ids, key : Fields]
  BY <1>1 DEF Named, Job
<1>3. cache'[p] = {d \in cache[p] : d.id # job[w].id} \cup {c}
      /\ cache' = [cache EXCEPT ![p] = {d \in @ : d.id # job[w].id} \cup {c}]
  BY <1>1 DEF Store, IInv, TypeOK
<1>4. TypeOK'
  <2>1. cache' \in [Processes -> SUBSET [id : Ids, key : Fields]]
    BY <1>1, <1>2, <1>3 DEF IInv, TypeOK
  <2>2. QED
    BY <2>1 DEF IInv, TypeOK, Store, Goes, Steps
<1>5. CacheNamed'
  <2>1. ASSUME NEW q \in Processes, NEW d \in cache'[q]
        PROVE  Named(d.id) /\ d.key = d.id /\ (d.id = config[q].keyId => d.id \in secret)
    <3>1. CASE d \in cache[q]
      BY <3>1 DEF IInv, CacheNamed
    <3>2. CASE d \notin cache[q]
      <4>1. q = p /\ d = c
        BY <3>2, <1>1, <1>3 DEF IInv, TypeOK
      <4>2. QED
        BY <4>1, <1>1
    <3>3. QED
      BY <3>1, <3>2
  <2>2. ASSUME NEW q \in Processes, Local(q) PROVE cache'[q] = {}
    BY <2>2, <1>1, <1>3 DEF IInv, TypeOK, CacheNamed
  <2>3. UNCHANGED <<config, secret>>
    BY DEF Store
  <2>4. QED
    BY <2>1, <2>2, <2>3 DEF CacheNamed, Local, Named
<1>6. OneStrategy' /\ RowsSealed'
  BY DEF IInv, OneStrategy, RowsSealed, Right, Local, Named, Store
<1>7. JobsNamed'
  <2>1. /\ pc[w] = "store" /\ pc'[w] = "use" /\ job' = job
        /\ \A v \in Workers \ {w} : pc'[v] = pc[v] /\ job'[v] = job[v]
    BY DEF IInv, TypeOK, Store, Goes
  <2>2. JobNamed(w)
    BY <2>1 DEF IInv, JobsNamed
  <2>3. JobNamed(w)'
    BY <2>1, <2>2 DEF Store, JobNamed, Right, Local, Named
  <2>4. QED
    BY <2>1, <2>3, JobsKept DEF Store
<1>8. QED
  BY <1>4, <1>5, <1>6, <1>7 DEF IInv

\* What is the right key in one process is the right key in all.
LEMMA RightForAll ==
    ASSUME FieldsNameKeys, IInv, NEW p \in Processes, NEW q \in Processes, NEW id, NEW key,
           Right(p, id, key)
    PROVE  Right(q, id, key) /\ (Local(p) <=> Local(q))
<1>1. config[p] \in Configs /\ config[q] \in Configs /\ config[p].strategy = config[q].strategy
  BY DEF IInv, TypeOK, OneStrategy
<1>2. QED
  BY <1>1 DEF FieldsNameKeys, Right, Local

\* The row that InitializeSlot stores names a key that all processes have.
LEMMA WrapIInv ==
    ASSUME FieldsNameKeys, IInv, NEW w \in Workers, Wrap(w)
    PROVE  IInv'
<1> DEFINE j == job[w]
           new == [version |-> j.id, wrapped |-> [under |-> j.key, of |-> j.row],
                   pin |-> [under |-> j.row, of |-> j.row]]
<1>1. /\ j \in Job /\ j.proc \in Processes /\ Right(j.proc, j.id, j.key)
      /\ ~Local(j.proc) => j.id \in secret
  <2>1. pc[w] = "use" /\ j.op = "wrap"
    BY DEF Wrap
  <2>2. j \in Job /\ j.proc \in Processes
    BY <2>1, BusyHasJob DEF IInv, Job
  <2>3. JobNamed(w)
    BY <2>1 DEF IInv, JobsNamed
  <2>4. QED
    BY <2>1, <2>2, <2>3 DEF JobNamed
<1>2. row' = [row EXCEPT ![j.row] = new] /\ Ends(w) /\ UNCHANGED <<secret, removed, config, cache>>
  BY DEF Wrap, WrapKey, EncryptAESGCM, GenerateDataKey
<1>3. j.row \in Rows /\ j.id \in Ids /\ j.key \in Fields
  <2>1. config[j.proc].master \in Fields
    BY <1>1, WrappingAssumption DEF IInv, TypeOK
  <2>2. QED
    BY <1>1, <2>1 DEF Job, Right, Named
<1>4. new \in Sealed
  BY <1>3 DEF Sealed
<1>5. TypeOK'
  <2>1. row' \in [Rows -> Sealed \cup {NoRow}]
    BY <1>2, <1>3, <1>4 DEF IInv, TypeOK
  <2>2. QED
    BY <1>2, <2>1, EndsTyped DEF IInv, TypeOK
<1>6. RowsSealed'
  <2>1. ASSUME NEW r \in Rows, row'[r] # NoRow
        PROVE  /\ row'[r].wrapped.of = r
               /\ row'[r].pin = [under |-> r, of |-> r]
               /\ \A p \in Processes :
                     /\ Right(p, row'[r].version, row'[r].wrapped.under)
                     /\ ~Local(p) => row'[r].version \in secret
    <3>1. CASE r = j.row
      <4>1. row'[r] = new
        BY <3>1, <1>2, <1>3 DEF IInv, TypeOK
      <4>2. QED
        BY <4>1, <3>1, <1>1, RightForAll
    <3>2. CASE r # j.row
      <4>1. row'[r] = row[r]
        BY <3>2, <1>2 DEF IInv, TypeOK
      <4>2. QED
        BY <4>1, <2>1 DEF IInv, RowsSealed
    <3>3. QED
      BY <3>1, <3>2
  <2>2. QED
    BY <2>1, <1>2 DEF RowsSealed, Right, Local, Named
<1>7. OneStrategy' /\ CacheNamed'
  BY <1>2 DEF IInv, OneStrategy, CacheNamed, Local, Named
<1>8. QED
  BY <1>2, <1>5, <1>6, <1>7, EndsIInv

\* A goroutine that is done, or gives up, touches nothing else.
LEMMA EndIInv ==
    ASSUME IInv, NEW w \in Workers, Unwrap(w) \/ JobFails(w)
    PROVE  IInv'
<1>1. Ends(w) /\ UNCHANGED <<secret, removed, config, cache, row>>
  BY DEF Unwrap, JobFails
<1>2. TypeOK'
  BY <1>1, EndsTyped DEF IInv, TypeOK
<1>3. OneStrategy' /\ RowsSealed' /\ CacheNamed'
  BY <1>1, StoresKept
<1>4. QED
  BY <1>1, <1>2, <1>3, EndsIInv

LEMMA AddFieldIInv ==
    ASSUME IInv, NEW f \in Fields, AddField(f)
    PROVE  IInv'
<1>1. TypeOK'
  BY DEF IInv, TypeOK, AddField
<1>2. OneStrategy' /\ RowsSealed' /\ CacheNamed'
  BY StoresKept DEF AddField
<1>3. JobsNamed'
  BY DEF IInv, JobsNamed, JobNamed, Right, Local, Named, AddField
<1>4. QED
  BY <1>1, <1>2, <1>3 DEF IInv

\* The field that goes is named by no row, and no process is configured with it.
LEMMA RemoveFieldIInv ==
    ASSUME IInv, NEW f \in Fields, RemoveField(f)
    PROVE  IInv'
<1>1. /\ secret' = secret \ {f} /\ UNCHANGED <<config, cache, row, job, pc>>
      /\ \A r \in Rows : row[r].version # f
      /\ \A p \in Processes : config[p].keyId # f
  BY DEF RemoveField
<1>2. TypeOK'
  BY <1>1 DEF IInv, TypeOK, RemoveField
<1>3. RowsSealed'
  BY <1>1 DEF IInv, RowsSealed, Right, Local, Named
<1>4. OneStrategy' /\ CacheNamed'
  BY <1>1 DEF IInv, OneStrategy, CacheNamed, Local, Named
<1>5. JobsNamed'
  <2>1. ASSUME NEW w \in Workers, pc[w] \in {"store", "use"},
               job[w].id = config[job[w].proc].keyId
        PROVE  job[w].id # f
    <3>1. job[w].proc \in Processes
      BY <2>1, BusyHasJob DEF IInv, Job
    <3>2. QED
      BY <3>1, <2>1, <1>1
  <2>2. QED
    BY <1>1, <2>1 DEF IInv, JobsNamed, JobNamed, Right, Local, Named
<1>6. QED
  BY <1>2, <1>3, <1>4, <1>5 DEF IInv

\* A new process starts with nothing cached and nothing in hand.
LEMMA RestartIInv ==
    ASSUME FieldsNameKeys, IInv, NEW p \in Processes, NEW cfg \in Configs, Restart(p, cfg)
    PROVE  IInv'
<1>1. /\ config' = [config EXCEPT ![p] = cfg] /\ cache' = [cache EXCEPT ![p] = {}]
      /\ pc' = [w \in Workers |-> IF job[w].proc = p THEN "idle" ELSE pc[w]]
      /\ job' = [w \in Workers |-> IF job[w].proc = p THEN NoJob ELSE job[w]]
      /\ UNCHANGED <<secret, removed, row>>
  BY DEF Restart
<1>2. TypeOK'
  <2>1. config' \in [Processes -> Configs] /\ cache' \in [Processes -> SUBSET [id : Ids, key : Fields]]
    BY <1>1 DEF IInv, TypeOK
  <2>2. pc' \in [Workers -> Steps] /\ job' \in [Workers -> Job \cup {NoJob}]
    BY <1>1 DEF IInv, TypeOK, Steps
  <2>3. \A w \in Workers : (job'[w] = NoJob) = (pc'[w] = "idle")
    BY <1>1 DEF IInv, TypeOK
  <2>4. QED
    BY <2>1, <2>2, <2>3, <1>1 DEF IInv, TypeOK
<1>3. /\ config[p] \in Configs /\ config'[p] = cfg /\ cfg.strategy = config[p].strategy
      /\ \A q \in Processes : Local(q)' = Local(q)
      /\ \A q \in Processes : Local(q) => config'[q].master = config[q].master
  <2>1. config[p] \in Configs /\ config'[p] = cfg /\ cfg.strategy = config[p].strategy
    BY <1>1 DEF Restart, IInv, TypeOK
  <2>2. ASSUME NEW q \in Processes, q # p PROVE config'[q] = config[q]
    BY <2>2, <1>1 DEF IInv, TypeOK
  <2>3. Local(p) => cfg.master = config[p].master
    BY <2>1 DEF FieldsNameKeys, Local
  <2>4. QED
    BY <2>1, <2>2, <2>3 DEF Local
<1>4. OneStrategy'
  BY <1>1, <1>3 DEF IInv, TypeOK, OneStrategy
<1>5. RowsSealed'
  <2>1. \A q \in Processes : \A id, key : Right(q, id, key)' = Right(q, id, key)
    BY <1>3 DEF Right, Named
  <2>2. QED
    BY <1>1, <1>3, <2>1 DEF IInv, RowsSealed
<1>6. CacheNamed'
  <2>1. ASSUME NEW q \in Processes, NEW c \in cache'[q]
        PROVE  q # p /\ cache'[q] = cache[q] /\ config'[q] = config[q]
    BY <1>1 DEF IInv, TypeOK
  <2>2. ASSUME NEW q \in Processes, Local(q) PROVE cache'[q] = {}
    BY <2>2, <1>1 DEF IInv, TypeOK, CacheNamed
  <2>3. QED
    BY <1>1, <1>3, <2>1, <2>2 DEF IInv, CacheNamed, Named
<1>7. JobsNamed'
  <2>1. ASSUME NEW w \in Workers, pc'[w] # "idle"
        PROVE  /\ pc'[w] = pc[w] /\ job'[w] = job[w]
               /\ config'[job[w].proc] = config[job[w].proc]
    <3>1. job[w].proc # p /\ pc'[w] = pc[w] /\ job'[w] = job[w]
      BY <2>1, <1>1
    <3>2. job[w].proc \in Processes
      BY <2>1, <3>1, BusyHasJob DEF IInv, Job
    <3>3. QED
      BY <3>1, <3>2, <1>1 DEF IInv, TypeOK
  <2>2. QED
    BY <1>1, <2>1 DEF IInv, JobsNamed, JobNamed, Right, Local, Named
<1>8. QED
  BY <1>2, <1>4, <1>5, <1>6, <1>7 DEF IInv

LEMMA NextIInv ==
    ASSUME FieldsNameKeys, IInv, [Next]_vars
    PROVE  IInv'
<1>1. ASSUME NEW w \in Workers, Step(w) PROVE IInv'
  <2>1. CASE \E p \in Processes, r \in Rows : BeginWrap(w, p, r) \/ BeginUnwrap(w, p, r)
    BY <2>1, BeginWrapIInv, BeginUnwrapIInv
  <2>2. CASE CacheHit(w)
    BY <2>2, CacheHitIInv
  <2>3. CASE CacheMiss(w)
    BY <2>3, CacheMissIInv
  <2>4. CASE Fetch(w)
    BY <2>4, FetchIInv
  <2>5. CASE Store(w)
    BY <2>5, StoreIInv
  <2>6. CASE Wrap(w)
    BY <2>6, WrapIInv
  <2>7. CASE Unwrap(w) \/ JobFails(w)
    BY <2>7, EndIInv
  <2>8. CASE LocalGetKey(w)
    BY <2>8, LocalGetKeyIInv
  <2>9. QED
    BY <1>1, <2>1, <2>2, <2>3, <2>4, <2>5, <2>6, <2>7, <2>8 DEF Step
<1>2. ASSUME NEW f \in Fields, AddField(f) \/ RemoveField(f) PROVE IInv'
  BY <1>2, AddFieldIInv, RemoveFieldIInv
<1>3. ASSUME NEW p \in Processes, NEW cfg \in Configs, Restart(p, cfg) PROVE IInv'
  BY <1>3, RestartIInv
<1>4. CASE UNCHANGED vars
  <2>1. TypeOK'
    BY <1>4 DEF vars, IInv, TypeOK
  <2>2. OneStrategy' /\ RowsSealed' /\ CacheNamed'
    BY <1>4, StoresKept DEF vars
  <2>3. JobsNamed'
    BY <1>4 DEF vars, IInv, JobsNamed, JobNamed, Right, Local, Named
  <2>4. QED
    BY <2>1, <2>2, <2>3 DEF IInv
<1>5. QED
  BY <1>1, <1>2, <1>3, <1>4 DEF Next

----------------------------------------------------------------------------
(* What follows from it.                                                     *)

\* What a process gets for a name, when it gets anything, is the field's key; and it gets it
\* while the field is there.
LEMMA KeyForName ==
    ASSUME FieldsNameKeys, IInv, NEW p \in Processes, ~Local(p),
           NEW id, Named(id), id \in secret
    PROVE  KeyFor(p, id) = {id}
<1>1. Cached(p, id) \subseteq {id}
  BY DEF Cached, IInv, CacheNamed
<1>2. Holds(SecretField(p, id)) = {id}
  BY NameMeansField DEF Holds, IInv, TypeOK
<1>3. QED
  BY <1>1, <1>2 DEF KeyFor

LEMMA IInvPins ==
    ASSUME FieldsNameKeys, IInv
    PROVE  PinsReadable
<1>1. ASSUME NEW r \in Rows, NEW p \in Processes, row[r] # NoRow
      PROVE  PinOf(p, r) = {r}
  <2>1. /\ Right(p, row[r].version, row[r].wrapped.under)
        /\ ~Local(p) => row[r].version \in secret
        /\ row[r].wrapped.of = r
        /\ row[r].pin = [under |-> r, of |-> r]
    BY <1>1 DEF IInv, RowsSealed
  <2>2. KeyFor(p, row[r].version) = {row[r].wrapped.under}
    <3>1. CASE Local(p)
      BY <3>1, <2>1 DEF KeyFor, Right
    <3>2. CASE ~Local(p)
      BY <3>2, <2>1, KeyForName DEF Right
    <3>3. QED
      BY <3>1, <3>2
  <2>3. UnwrapKey(row[r].wrapped.under, row[r].wrapped) = r
    BY ONLY <2>1 DEF UnwrapKey
  <2>4. DecryptAESGCM(r, row[r].pin) = r
    BY ONLY <2>1 DEF DecryptAESGCM
  <2>5. QED
    BY <2>2, <2>3, <2>4 DEF PinOf
<1>2. QED
  BY <1>1 DEF PinsReadable

LEMMA IInvCache ==
    ASSUME FieldsNameKeys, IInv
    PROVE  CacheIsRight
<1>1. ASSUME NEW p \in Processes, NEW c \in cache[p], NEW d \in cache[p]
      PROVE  (c.id = d.id => c = d) /\ Holds(SecretField(p, c.id)) \subseteq {c.key}
  <2>1. /\ c \in [id : Ids, key : Fields] /\ d \in [id : Ids, key : Fields]
        /\ Named(c.id) /\ c.key = c.id /\ d.key = d.id /\ ~Local(p)
    BY DEF IInv, TypeOK, CacheNamed
  <2>2. SecretField(p, c.id) = c.id
    BY <2>1, NameMeansField DEF IInv, TypeOK
  <2>3. QED
    BY <2>1, <2>2 DEF Holds
<1>2. QED
  BY <1>1 DEF CacheIsRight

LEMMA SpecIInv ==
    ASSUME FieldsNameKeys
    PROVE  Spec => []IInv
<1>1. Init => IInv
  BY InitIInv
<1>2. IInv /\ [Next]_vars => IInv'
  BY NextIInv
<1>3. QED
  BY <1>1, <1>2, PTL DEF Spec

\* Every variable keeps to its type: no goroutine seals a PIN with a key it did not get
\* (AESKeyManagerAdapter checks the answer of GetKey before it uses the key).
THEOREM WrappingTypeCorrect == FieldsNameKeys => (Spec => []TypeOK)
<1> SUFFICES ASSUME FieldsNameKeys PROVE Spec => []TypeOK
  OBVIOUS
<1>1. IInv => TypeOK
  BY DEF IInv
<1>2. QED
  BY <1>1, SpecIInv, PTL

\* However many slots are initialized and read by however many processes, whatever keys the
\* operator rotates through and in whatever order the processes follow: every stored PIN can
\* be read back by every process (createHSMSlot, Bootstrap, K8sAESKeyManager.GetKey).
THEOREM PinsStayReadable == FieldsNameKeys => (Spec => []PinsReadable)
<1> SUFFICES ASSUME FieldsNameKeys PROVE Spec => []PinsReadable
  OBVIOUS
<1>1. IInv => PinsReadable
  BY IInvPins
<1>2. QED
  BY <1>1, SpecIInv, PTL

\* The cache of GetKey, which is never emptied, never holds another key than the Secret does.
THEOREM CacheStaysRight == FieldsNameKeys => (Spec => []CacheIsRight)
<1> SUFFICES ASSUME FieldsNameKeys PROVE Spec => []CacheIsRight
  OBVIOUS
<1>1. IInv => CacheIsRight
  BY IInvCache
<1>2. QED
  BY <1>1, SpecIInv, PTL
=============================================================================
