---------------------------- MODULE KeyWrapping -----------------------------
(* The envelope around the PIN of a slot: the PIN is encrypted with a data key of the slot,   *)
(* the data key is wrapped with a master key that lives in a field of a Kubernetes Secret,    *)
(* and the row keeps the identifier of that master key. K8sAESKeyManager reads a master key   *)
(* once and caches it for the life of the process; InitializeSlot wraps and Bootstrap         *)
(* unwraps. The operator rotates the master key: new field, new configuration, restart, one   *)
(* process of the deployment after the other, and the old field goes when nothing needs it.   *)
(* LocalAESKeyManager, the default, has one master key, in its configuration, and gives it    *)
(* for whatever identifier it is asked for: there a rotation would make every row unreadable. *)
EXTENDS FiniteSets

CONSTANTS Rows,        \* slots, each with the data key and the PIN it gets
          Processes,   \* processes of the deployment
          Workers,     \* goroutines at work on a row
          Fields,      \* fields of the Secret, each standing for the master key in it
          Configs,     \* what the operator deploys: [strategy, keyId, master, old]
          OldMasterKey,\* the identifier "old-master-key"
          None

ASSUME WrappingAssumption ==
    /\ None \notin Rows \cup Processes \cup Fields
    /\ Configs # {}
    /\ \A cfg \in Configs :
        /\ DOMAIN cfg = {"strategy", "keyId", "master", "old"}
        /\ cfg.strategy \in {"k8s", "local"} /\ cfg.master \in Fields

\* The configuration names the key after its field, as every one in the repository does, and
\* nobody calls a field "old-master-key". The local master key is the same for all time.
FieldsNameKeys ==
    /\ \A cfg \in Configs : cfg.strategy = "k8s" =>
            cfg.keyId = cfg.master /\ cfg.keyId # OldMasterKey
    /\ \A c, d \in Configs : c.strategy = "local" /\ d.strategy = "local" => c.master = d.master

VARIABLES
    secret,     \* the fields the Secret has now                                (external)
    removed,    \* the fields it had before
    config,     \* config[p]: the configuration process p runs with
    cache,      \* cache[p]: keyCache of process p, as a set of [id, key]
    row,        \* row[r]: the stored slot, version id, wrapped data key and encrypted PIN
    job,        \* job[w]: what goroutine w is doing, None when idle
    pc          \* pc[w]: where it is

vars == <<secret, removed, config, cache, row, job, pc>>

Ids == Fields \cup {cfg.keyId : cfg \in Configs} \cup {OldMasterKey}
Steps == {"idle", "lookup", "fetch", "store", "use"}
NoJob == [proc |-> None, op |-> "none", row |-> None, id |-> None, key |-> None]

\* crypto.WrapKey and UnwrapKey, EncryptAESGCM and DecryptAESGCM: what was sealed with one key
\* is opened by that key and rejected by any other.
WrapKey(key, plain) == [under |-> key, of |-> plain]
UnwrapKey(key, wrapped) == IF wrapped.under = key THEN wrapped.of ELSE None
EncryptAESGCM(key, plain) == [under |-> key, of |-> plain]
DecryptAESGCM(key, sealed) == IF sealed.under = key THEN sealed.of ELSE None

\* A fresh data key is as good as the row it is made for.
GenerateDataKey(r) == r
NoRow == [version |-> None, wrapped |-> None, pin |-> None]

\* Slip: every identifier means the current master key.
CurrentField(p, id) == config[p].master

\* The field an identifier stands for, in the configuration of process p.
SecretField(p, id) ==
    IF id = config[p].keyId THEN config[p].master
    ELSE IF id = OldMasterKey /\ config[p].old # None THEN config[p].old
    ELSE id

\* What is in a field, for which the field stands: it is never overwritten.
Holds(f) == {f} \cap secret

-----------------------------------------------------------------------------
Goes(w, from, to) == pc[w] = from /\ pc' = [pc EXCEPT ![w] = to]

\* createHSMSlot takes the identifier of the current master key.
BeginWrap(w, p, r) ==
    /\ Goes(w, "idle", "lookup")
    /\ row[r] = NoRow /\ \A v \in Workers : job[v].row # r
    /\ job' = [job EXCEPT ![w] = [proc |-> p, op |-> "wrap", row |-> r,
                                  id |-> config[p].keyId, key |-> None]]
    /\ UNCHANGED <<secret, removed, config, cache, row>>

\* Bootstrap takes the identifier that the row has kept.
BeginUnwrap(w, p, r) ==
    /\ Goes(w, "idle", "lookup")
    /\ row[r] # NoRow
    /\ job' = [job EXCEPT ![w] = [proc |-> p, op |-> "unwrap", row |-> r,
                                  id |-> row[r].version, key |-> None]]
    /\ UNCHANGED <<secret, removed, config, cache, row>>

Cached(p, id) == {c.key : c \in {d \in cache[p] : d.id = id}}
Got(w, key) == job' = [job EXCEPT ![w].key = key]

\* LocalAESKeyManager.GetKey looks neither at the identifier nor anywhere else.
Local(p) == config[p].strategy = "local"

LocalGetKey(w) ==
    /\ Goes(w, "lookup", "use")
    /\ Local(job[w].proc)
    /\ Got(w, config[job[w].proc].master)
    /\ UNCHANGED <<secret, removed, config, cache, row>>

CacheHit(w) ==
    /\ Goes(w, "lookup", "use")
    /\ ~Local(job[w].proc)
    /\ \E key \in Cached(job[w].proc, job[w].id) : Got(w, key)
    /\ UNCHANGED <<secret, removed, config, cache, row>>

CacheMiss(w) ==
    /\ Goes(w, "lookup", "fetch")
    /\ ~Local(job[w].proc)
    /\ Cached(job[w].proc, job[w].id) = {}
    /\ UNCHANGED <<secret, removed, config, cache, row, job>>

Fetch(w) ==
    /\ Goes(w, "fetch", "store")
    /\ \E key \in Holds(SecretField(job[w].proc, job[w].id)) : Got(w, key)
    /\ UNCHANGED <<secret, removed, config, cache, row>>

\* Slip: the key goes into the cache under the name of the current one.
StoreAsCurrent(w) ==
    LET p == job[w].proc IN
    /\ Goes(w, "store", "use")
    /\ cache' = [cache EXCEPT ![p] = {c \in @ : c.id # config[p].keyId}
                                        \cup {[id |-> config[p].keyId, key |-> job[w].key]}]
    /\ UNCHANGED <<secret, removed, config, row, job>>

Store(w) ==
    LET p == job[w].proc IN
    /\ Goes(w, "store", "use")
    /\ cache' = [cache EXCEPT ![p] = {c \in @ : c.id # job[w].id}
                                        \cup {[id |-> job[w].id, key |-> job[w].key]}]
    /\ UNCHANGED <<secret, removed, config, row, job>>

Ends(w) == pc' = [pc EXCEPT ![w] = "idle"] /\ job' = [job EXCEPT ![w] = NoJob]

\* The PIN and its data key are sealed and stored with the identifier.
Wrap(w) ==
    LET j == job[w]
        dataKey == GenerateDataKey(j.row)
    IN /\ pc[w] = "use" /\ j.op = "wrap"
       /\ row' = [row EXCEPT ![j.row] = [version |-> j.id, wrapped |-> WrapKey(j.key, dataKey),
                                         pin |-> EncryptAESGCM(dataKey, j.row)]]
       /\ Ends(w)
       /\ UNCHANGED <<secret, removed, config, cache>>

\* Bootstrap has the PIN, or skips the slot.
Unwrap(w) ==
    /\ pc[w] = "use" /\ job[w].op = "unwrap"
    /\ Ends(w)
    /\ UNCHANGED <<secret, removed, config, cache, row>>

\* Slip: the answer of GetKey is not looked at.
JobGoesOn(w) ==
    /\ Goes(w, "fetch", "use")
    /\ UNCHANGED <<secret, removed, config, cache, row, job>>

\* The Secret cannot be read, has no such field, or the database or the cipher fails.
JobFails(w) ==
    /\ pc[w] \in {"fetch", "use"}
    /\ Ends(w)
    /\ UNCHANGED <<secret, removed, config, cache, row>>

-----------------------------------------------------------------------------
(* The operator.                                                                               *)

AddField(f) ==
    /\ f \notin secret \cup removed
    /\ secret' = secret \cup {f}
    /\ UNCHANGED <<removed, config, cache, row, job, pc>>

\* A field goes when no row names its key and no process is configured with it.
RemoveField(f) ==
    /\ f \in secret
    /\ \A r \in Rows : row[r].version # f
    /\ \A p \in Processes : config[p].keyId # f
    /\ secret' = secret \ {f}
    /\ removed' = removed \cup {f}
    /\ UNCHANGED <<config, cache, row, job, pc>>

\* A process is replaced by one with another configuration of the same strategy and an empty
\* cache: the rows of one strategy cannot be moved to the other.
Restart(p, cfg) ==
    /\ cfg.strategy = config[p].strategy
    /\ config' = [config EXCEPT ![p] = cfg]
    /\ cache' = [cache EXCEPT ![p] = {}]
    /\ pc' = [w \in Workers |-> IF job[w].proc = p THEN "idle" ELSE pc[w]]
    /\ job' = [w \in Workers |-> IF job[w].proc = p THEN NoJob ELSE job[w]]
    /\ UNCHANGED <<secret, removed, row>>

-----------------------------------------------------------------------------
Init ==
    /\ \E cfg \in Configs : config = [p \in Processes |-> cfg] /\ secret = {cfg.master}
    /\ removed = {}
    /\ cache = [p \in Processes |-> {}]
    /\ row = [r \in Rows |-> NoRow]
    /\ job = [w \in Workers |-> NoJob]
    /\ pc = [w \in Workers |-> "idle"]

Step(w) ==
    \/ \E p \in Processes, r \in Rows : BeginWrap(w, p, r) \/ BeginUnwrap(w, p, r)
    \/ LocalGetKey(w) \/ CacheHit(w) \/ CacheMiss(w) \/ Fetch(w) \/ Store(w) \/ Wrap(w) \/ Unwrap(w) \/ JobFails(w)

Next ==
    \/ \E w \in Workers : Step(w)
    \/ \E f \in Fields : AddField(f) \/ RemoveField(f)
    \/ \E p \in Processes, cfg \in Configs : Restart(p, cfg)

Spec == Init /\ [][Next]_vars

-----------------------------------------------------------------------------
Sealed == [version : Ids, wrapped : [under : Fields, of : Rows], pin : [under : Rows, of : Rows]]
Job == [proc : Processes, op : {"wrap", "unwrap"}, row : Rows, id : Ids, key : Fields \cup {None}]

TypeOK ==
    /\ secret \subseteq Fields /\ removed \subseteq Fields
    /\ config \in [Processes -> Configs]
    /\ cache \in [Processes -> SUBSET [id : Ids, key : Fields]]
    /\ row \in [Rows -> Sealed \cup {NoRow}]
    /\ pc \in [Workers -> Steps]
    /\ job \in [Workers -> Job \cup {NoJob}]
    /\ \A w \in Workers : (job[w] = NoJob) = (pc[w] = "idle")

\* What GetKey gives process p for an identifier: the one key, the cached key, or the one in
\* the Secret.
KeyFor(p, id) ==
    IF Local(p) THEN {config[p].master}
    ELSE IF Cached(p, id) # {} THEN Cached(p, id) ELSE Holds(SecretField(p, id))

\* The PIN that process p would get for the row.
PinOf(p, r) ==
    {DecryptAESGCM(UnwrapKey(key, row[r].wrapped), row[r].pin) : key \in KeyFor(p, row[r].version)}

\* Every stored PIN can be read, and read right, by every process of the deployment, whatever
\* configuration it runs with and whatever it has cached: rotating the master key loses no
\* slot, though processes with the old and the new configuration run side by side and keep
\* wrapping, and though the old field is removed in the end.
PinsReadable == \A r \in Rows, p \in Processes : row[r] # NoRow => PinOf(p, r) = {r}

\* A process never caches two keys under one identifier, nor one that is no longer, or never
\* was, what the Secret holds for it, as long as it holds anything.
CacheIsRight ==
    \A p \in Processes : \A c, d \in cache[p] :
        /\ c.id = d.id => c = d
        /\ Holds(SecretField(p, c.id)) \subseteq {c.key}
=============================================================================
