---------------------------- MODULE OnlineDelete ----------------------------
(***************************************************************************)
(* Online deletion: the two-generation node store, the background rotator  *)
(* and the persistence worker, with process crashes and restarts.          *)
(*                                                                         *)
(* Records go to the writable generation; reads fall back to the archive   *)
(* generation and never copy what they find there.  Every Interval         *)
(* validated ledgers the rotator advances the durable floor, copies the    *)
(* trees of every ledger the service owns from the archive to the writable *)
(* generation, and then publishes a manifest in which the writable         *)
(* generation is the archive, a new directory is writable and the old      *)
(* archive is garbage.                                                     *)
(*                                                                         *)
(* A ledger's state tree is the set of its nodes (content-addressed, so    *)
(* two ledgers may share nodes, also through ledgers between them).  No    *)
(* two ledgers have the same root: every close changes the skip list.  A   *)
(* file is replaced by a rename followed by a sync of its directory: a     *)
(* crash in between leaves the new or the old contents, and what a restart *)
(* reads is taken to be stable.                                            *)
(***************************************************************************)
EXTENDS Integers, Sequences, FiniteSetsExt

CONSTANTS Trees,       \* the state trees, sets of nodes
          Interval,    \* RotationConfig.DeleteInterval
          CacheSize,   \* the history window, Service.ledgerCacheSize
          QueueLimit,  \* persistenceAdmissionLimit
          Passes,      \* the passes of PrepareStateRetention
          Outcomes,    \* outcomes of replacing a file: "ok", "unsynced", "fail"
          MaxSeq,      \* bound: ledgers
          MaxCrash     \* bound: crashes

\* The window is 256 ledgers by default and may be set as low as 1 (config.go:150);
\* admission stops at 8 (memory.go:62).  There are eight passes.
ASSUME SizesAssumption ==
  {Interval, CacheSize, QueueLimit, Passes} \subseteq Nat \ {0}

ASSUME BoundsAssumption ==
  /\ MaxSeq \in Nat \ {0}
  /\ MaxCrash \in Nat
  /\ Outcomes \subseteq {"ok", "unsynced", "fail"}

VARIABLES
  height,     \* the newest ledger of the network
  tree,       \* its state trees, by ledger sequence
  validated,  \* Service.validatedLedger, 0 for the initial ledger
  history,    \* Service.ledgerHistory
  dirty,      \* <<ledger, node>>: a node of the ledger's map that is not yet stored
  queue,      \* persistQueue and persistActive: s to persist ledger s, -s to clean
              \* up the tip of the evicted ledger s, 0 for a flush barrier
  step,       \* how far runPersistJob is with Head(queue)
  rows,       \* the ledgers of the relational database
  gens,       \* the generation directories: nodes and headers, by generation number
  tips,       \* the validated tip recorded in each: 0 once invalidated, or NoTip
  manifest,   \* the generation manifest: writable, archive, last, min
  manifests,  \* older manifests a crash may bring back
  file,       \* the advisory-delete state (shamapstore.Store): last, min
  files,      \* older states a crash may bring back
  floor,      \* Rotator.minimumOnline
  notify,     \* Rotator.notifyCh, 0 when empty
  rot,        \* the rotation in progress
  crashes

chain   == <<height, tree>>
service == <<validated, history, dirty, queue, step, rows>>
store   == <<gens, tips, manifest, manifests>>
advice  == <<file, files, floor>>
vars    == <<chain, service, store, advice, notify, rot, crashes>>

-----------------------------------------------------------------------------
(* Records and ledgers *)

Node(n)   == <<"node", n>>
Header(s) == <<"header", s>>
NoTip     == -1

StateNodes(s) == {Node(n) : n \in tree[s]}

\* RotatingStore.Get: the writable generation, then the archive.
Visible(m) == gens[m.writable] \cup gens[m.archive]

\* The validated tip a reader of manifest m finds, 0 for none.
TipOf(m) ==
  LET tip == IF tips[m.writable] # NoTip THEN tips[m.writable] ELSE tips[m.archive]
  IN  IF tip = NoTip THEN 0 ELSE tip

Put(records) == gens' = [gens EXCEPT ![manifest.writable] = @ \cup records]
PutTip(s)    == tips' = [tips EXCEPT ![manifest.writable] = s]

InQueue(job) == \E i \in DOMAIN queue : queue[i] = job

\* stateRetentionLedgersLocked: the ledgers the service holds on to.
Owned == {s \in 1..MaxSeq : s \in history \/ InQueue(s)}

\* The dirty nodes StoreStateDirty finds in the maps of the ledgers S, in every map
\* that shares them: a ledger's map is a copy of its parent's.
Unstored(S) ==
  {d \in dirty : \E s \in S : \A k \in (s..d[1]) \cup (d[1]..s) : <<k, d[2]>> \in dirty}

-----------------------------------------------------------------------------
(* Ledgers arrive *)

\* invalidateEvictedLedger for the ledgers S, in the order of a Go map.
Cleanups(S) ==
  {jobs \in UNION {[1..n -> {-h : h \in S}] : n \in 0..Len(queue)} :
     /\ \A i, j \in DOMAIN jobs : jobs[i] = jobs[j] => i = j
     /\ \A h \in S : \E i \in DOMAIN jobs : jobs[i] = -h}

\* Ledger s with state t becomes the validated ledger: it enters the history, the
\* history is cut to its window, s is queued for persistence and the rotator is
\* told.  A ledger that leaves the history before it is persisted has its job
\* cancelled and a cleanup queued.  Persistence admission bounds the queue.
Validate(s, t) ==
  LET kept == {h \in history \cup {s} : h > s - CacheSize}
  IN  /\ Len(queue) < QueueLimit
      /\ height' = s
      /\ tree' = [tree EXCEPT ![s] = t]
      /\ validated' = s
      /\ history' = kept
      /\ \E jobs \in Cleanups({h \in history \ kept : InQueue(h)}) :
           queue' = queue \o jobs \o <<s>>
      /\ notify' = Max({notify, s})
      /\ UNCHANGED <<step, rows, tips, manifest, manifests, advice, rot, crashes>>

\* The node closes the successor of its validated ledger: the nodes that are
\* new in it are dirty, and so are those that are still dirty in its parent.
CloseLedger ==
  \E t \in Trees :
    /\ validated = height /\ validated # 0 /\ height < MaxSeq
    /\ Validate(height + 1, t)
    /\ dirty' = dirty \cup {<<height + 1, n>> :
                              n \in {x \in t : x \in tree[validated] => <<validated, x>> \in dirty}}
    /\ UNCHANGED gens

\* The node acquires a ledger from the network, not always the next: the nodes it
\* finds in neither generation are fetched and stored, the others are left where
\* they are.
AdoptLedger ==
  \E t \in Trees, s \in (height + 1)..MaxSeq :
    /\ Validate(s, t)
    /\ Put({Node(n) : n \in t} \ Visible(manifest))
    /\ UNCHANGED dirty

-----------------------------------------------------------------------------
(* The persistence worker, runPersistJob *)

Job == Head(queue)

\* job.canceled, set when a queued ledger leaves the history.
Canceled == Job \notin history

Done == queue' = Tail(queue) /\ step' = 0

\* A job that was cancelled meanwhile stops at its next check.
Continue(n) ==
  IF Canceled THEN Done ELSE step' = n /\ UNCHANGED queue

\* The worker takes a ledger's job, or drops it.
TakeJob ==
  /\ queue # << >> /\ Job > 0 /\ step = 0
  /\ Continue(1)
  /\ UNCHANGED <<chain, validated, history, dirty, rows, store, advice, notify, rot, crashes>>

\* persistToNodeStore: the dirty nodes, then the header, then a sync.
PersistNodes ==
  /\ step = 1
  /\ Put({Node(d[2]) : d \in Unstored({Job})} \cup {Header(Job)})
  /\ dirty' = dirty \ Unstored({Job})
  /\ Continue(2)
  /\ UNCHANGED <<chain, validated, history, rows, tips, manifest, manifests, advice, notify, rot, crashes>>

\* persistToRelationalDB.
PersistRow ==
  /\ step = 2
  /\ rows' = rows \cup {Job}
  /\ Continue(3)
  /\ UNCHANGED <<chain, validated, history, dirty, store, advice, notify, rot, crashes>>

\* persistValidatedTipLocked, unless a later tip is stored.
PersistTip ==
  /\ step = 3
  /\ IF TipOf(manifest) < Job THEN PutTip(Job) ELSE UNCHANGED tips
  /\ step' = 4
  /\ UNCHANGED <<chain, validated, history, dirty, queue, rows, gens, manifest, manifests, advice, notify, rot, crashes>>

\* recordValidatedPersistence: from here on the ledger may be evicted silently.
FinishJob ==
  /\ step = 4
  /\ Done
  /\ UNCHANGED <<chain, validated, history, dirty, rows, store, advice, notify, rot, crashes>>

\* invalidateEvictedValidatedTip: the tip the cancelled job may have stored.
CleanTip ==
  /\ queue # << >> /\ Job < 0
  /\ IF TipOf(manifest) = -Job THEN PutTip(0) ELSE UNCHANGED tips
  /\ Done
  /\ UNCHANGED <<chain, validated, history, dirty, rows, gens, manifest, manifests, advice, notify, rot, crashes>>

\* A flush barrier reaches the head of the queue: flushPersists returns.
PassBarrier ==
  /\ queue # << >> /\ Job = 0
  /\ Done
  /\ rot' = [rot EXCEPT !.pc = "collect"]
  /\ UNCHANGED <<chain, validated, history, dirty, rows, store, advice, notify, crashes>>

-----------------------------------------------------------------------------
(* The rotator *)

Idle == [pc |-> "idle", target |-> 0, boundary |-> 0, roots |-> {}, preserved |-> {}, pass |-> 0, doomed |-> 0]

Goto(pc) == rot' = [rot EXCEPT !.pc = pc]
Return   == rot' = Idle

\* Store.update: the file is replaced and, once it is in place, memory follows;
\* an error is returned when it is not in place or its directory is not synced.
Update(last, min, outcome) ==
  LET next == [last |-> Max({file.last, last}), min |-> Max({file.min, min})]
  IN  /\ file' = IF outcome = "fail" THEN file ELSE next
      /\ files' = CASE outcome = "ok"       -> {}
                    [] outcome = "unsynced" -> files \cup {file}
                    [] outcome = "fail"     -> files

\* Mutant: the manifest is consulted at startup only.
ReconcileSkipped ==
  /\ rot.pc = "idle" /\ notify # 0
  /\ notify' = 0
  /\ rot' = [Idle EXCEPT !.pc = "check", !.target = notify]
  /\ UNCHANGED <<chain, service, store, advice, crashes>>

\* maybeRotate, first part: ReconcileGenerationState brings the file up to the
\* manifest; when that fails the notification is dropped.
Reconcile ==
  /\ rot.pc = "idle" /\ notify # 0
  /\ notify' = 0
  /\ IF manifest.last > file.last \/ manifest.min > file.min
     THEN \E o \in Outcomes :
            /\ Update(manifest.last, manifest.min, o)
            /\ floor' = IF o = "ok" THEN file'.min ELSE floor
            /\ rot' = IF o = "ok" THEN [Idle EXCEPT !.pc = "check", !.target = notify] ELSE Idle
     ELSE /\ rot' = [Idle EXCEPT !.pc = "check", !.target = notify]
          /\ UNCHANGED advice
  /\ UNCHANGED <<chain, service, store, crashes>>

\* maybeRotate, second part: the first ledger seeds the boundary; a rotation
\* starts Interval ledgers after the last one, unless can_delete or the health
\* of the node forbids it.
Check ==
  /\ rot.pc = "check"
  /\ \/ /\ file.last = 0
        /\ \E o \in Outcomes : Update(rot.target, 0, o)
        /\ Return
        /\ UNCHANGED floor
     \/ /\ file.last # 0
        /\ rot.target >= file.last + Interval
        /\ rot' = [rot EXCEPT !.pc = "floor", !.boundary = file.last]
        /\ UNCHANGED advice
     \/ /\ file.last # 0
        /\ Return
        /\ UNCHANGED advice
  /\ UNCHANGED <<chain, service, store, notify, crashes>>

\* Mutant: the retention starts without waiting for queued persists.
NoFlush == Goto("collect") /\ UNCHANGED queue

\* flushPersists: a barrier behind the jobs of the persistence worker.
Flush == Goto("flush") /\ queue' = Append(queue, 0)

\* rotate, first part: SetMinimumOnlineFloor, then PrepareStateRetention begins
\* by flushing the persistence worker.
SetFloor ==
  /\ rot.pc = "floor"
  /\ LET min == Max({floor, rot.boundary + 1})
     IN  \E o \in Outcomes :
           /\ Update(0, min, o)
           /\ floor' = IF o = "ok" THEN min ELSE floor
           /\ IF o = "ok" THEN Flush ELSE Return /\ UNCHANGED queue
  /\ UNCHANGED <<chain, validated, history, dirty, step, rows, store, notify, crashes>>

\* PrepareStateRetention, a pass: under the service's locks the dirty nodes and
\* the headers of the owned ledgers are stored and their roots collected.  A root
\* is the sequence of its ledger.
Collect ==
  /\ rot.pc = "collect"
  /\ Put({Node(d[2]) : d \in Unstored(Owned)} \cup {Header(s) : s \in Owned})
  /\ dirty' = dirty \ Unstored(Owned)
  /\ rot' = [rot EXCEPT !.pc = "preserve", !.target = validated, !.pass = @ + 1, !.roots = Owned]
  /\ UNCHANGED <<chain, validated, history, queue, step, rows, tips, manifest, manifests, advice, notify, crashes>>

\* Mutant: a node that is found in either generation is left where it is.
CopyMissing ==
  LET nodes == UNION {StateNodes(s) : s \in rot.roots}
  IN  nodes \subseteq Visible(manifest) /\ Put(nodes \ Visible(manifest))

\* preserveStateDifference: a walk over the trees of the roots reads every node
\* and leaves it in the writable generation.
CopyTrees ==
  LET nodes == UNION {StateNodes(s) : s \in rot.roots}
  IN  nodes \subseteq Visible(manifest) /\ Put(nodes)

\* The rest of the pass, off the locks: every new root's tree is copied from the
\* archive, and another pass follows while there were new roots.
Preserve ==
  LET last == rot.roots \subseteq rot.preserved \/ rot.pass = Passes
  IN  /\ rot.pc = "preserve"
      /\ \/ /\ CopyTrees
            /\ rot' = [rot EXCEPT !.pc = IF last THEN "prepared" ELSE "collect",
                                  !.preserved = @ \cup rot.roots, !.roots = {}]
         \/ /\ Return   \* a missing node, a failed health checkpoint
            /\ UNCHANGED gens
      /\ UNCHANGED <<chain, service, tips, manifest, manifests, advice, notify, crashes>>

\* stateRetentionGuard: the root of every owned ledger was preserved.
Admitted == Owned \subseteq rot.preserved

\* Mutant: the old archive is removed whether or not the manifest was synced.
RetireUnsynced(outcome) ==
  rot' = [rot EXCEPT !.pc = "retire", !.doomed = manifest.archive]

\* The retirement closure keeps the old archive when the directory of the
\* manifest could not be synced.
AfterSwap(outcome) ==
  rot' = IF outcome = "ok" THEN [rot EXCEPT !.pc = "retire", !.doomed = manifest.archive]
                           ELSE [rot EXCEPT !.pc = "record"]

\* RotateWithRetirement: the writable generation becomes the archive of a manifest
\* that names a new directory.
Rotate(outcome) ==
  LET new == Max(DOMAIN gens) + 1
  IN  /\ rot.target > manifest.last
      /\ floor >= manifest.min
      /\ gens' = [g \in DOMAIN gens \cup {new} |-> IF g = new THEN {} ELSE gens[g]]
      /\ tips' = [g \in DOMAIN gens \cup {new} |-> IF g = new THEN NoTip ELSE tips[g]]
      /\ manifest' = [writable |-> new, archive |-> manifest.writable,
                      last |-> rot.target, min |-> floor]
      /\ manifests' = IF outcome = "ok" THEN {} ELSE manifests \cup {manifest}
      /\ AfterSwap(outcome)

\* RotateGenerationWithRetention: an admitted swap is committed.  It fails when it
\* is not admitted, when the node is not healthy or the manifest not saved;
\* RotationAdmissible says that it does not fail for its boundaries.
Swap ==
  /\ rot.pc = "prepared"
  /\ \/ Return /\ UNCHANGED store
     \/ Admitted /\ \E o \in Outcomes \ {"fail"} : Rotate(o)
  /\ UNCHANGED <<chain, service, advice, notify, crashes>>

\* The retirement closure: the old archive's directory is removed.
Retire ==
  /\ rot.pc = "retire"
  /\ gens' = [g \in DOMAIN gens \ {rot.doomed} |-> gens[g]]
  /\ tips' = [g \in DOMAIN gens \ {rot.doomed} |-> tips[g]]
  /\ Goto("record")
  /\ UNCHANGED <<chain, service, manifest, manifests, advice, notify, crashes>>

\* SetRotation.
RecordRotation ==
  /\ rot.pc = "record"
  /\ \E o \in Outcomes :
       /\ Update(rot.target, floor, o)
       /\ IF o = "ok" THEN Goto("rows") ELSE Return
  /\ UNCHANGED <<chain, service, store, floor, notify, crashes>>

\* Mutant: the rows are deleted up to the new boundary.
DeleteToTarget ==
  /\ rot.pc = "rows"
  /\ Return
  /\ rows' = {s \in rows : s >= rot.target}
  /\ UNCHANGED <<chain, validated, history, dirty, queue, step, store, advice, notify, crashes>>

\* DeleteLedgersBefore the previous boundary, when the node is healthy.
DeleteRelational ==
  /\ rot.pc = "rows"
  /\ Return
  /\ \/ rows' = {s \in rows : s >= rot.boundary}
     \/ UNCHANGED rows
  /\ UNCHANGED <<chain, validated, history, dirty, queue, step, store, advice, notify, crashes>>

-----------------------------------------------------------------------------
(* Crash and restart *)

\* loadLatestLedger: the newest relational ledger can be loaded if it is the
\* validated tip and its tree and header are found.
Loadable(m) ==
  /\ rows # {}
  /\ TipOf(m) = Max(rows)
  /\ StateNodes(TipOf(m)) \cup {Header(TipOf(m))} \subseteq Visible(m)

\* ReconcileGenerationState at startup, and the floor of a database that has
\* rows but no floor yet.
Reconciled(f, m) ==
  LET min == Max({f.min, m.min})
  IN  [last |-> Max({f.last, m.last}),
       min  |-> IF min = 0 /\ rows # {} THEN Min(rows) ELSE min]

\* A crash and the startup after it: the store opens the generations of the
\* manifest it finds and removes the others; a node that cannot load its tip
\* starts from the initial ledger and waits for the network.
Restart ==
  /\ crashes < MaxCrash
  /\ crashes' = crashes + 1
  /\ \E m \in {manifest} \cup manifests, f \in {file} \cup files :
       /\ manifest' = m
       /\ gens' = [g \in {m.writable, m.archive} |-> gens[g]]
       /\ tips' = [g \in {m.writable, m.archive} |-> tips[g]]
       /\ file' = Reconciled(f, m)
       /\ validated' = IF Loadable(m) THEN TipOf(m) ELSE 0
       /\ history' = {validated'} \ {0}
  /\ manifests' = {} /\ files' = {}
  /\ floor' = file'.min
  /\ dirty' = {} /\ queue' = << >> /\ step' = 0
  /\ notify' = 0 /\ rot' = Idle
  /\ UNCHANGED <<chain, rows>>

-----------------------------------------------------------------------------
\* A node that starts with the first ledger in its writable generation.
Init ==
  /\ height = 1
  /\ \E t \in Trees : tree = [s \in 1..MaxSeq |-> IF s = 1 THEN t ELSE {}]
  /\ validated = 1 /\ history = {1} /\ dirty = {}
  /\ queue = << >> /\ step = 0 /\ rows = {1}
  /\ manifest = [writable |-> 1, archive |-> 0, last |-> 0, min |-> 0]
  /\ gens = [g \in 0..1 |-> IF g = 1 THEN StateNodes(1) \cup {Header(1)} ELSE {}]
  /\ tips = [g \in 0..1 |-> IF g = 1 THEN 1 ELSE NoTip]
  /\ manifests = {}
  /\ file = [last |-> 0, min |-> 0] /\ files = {} /\ floor = 0
  /\ notify = 1 /\ rot = Idle /\ crashes = 0

Persistence == TakeJob \/ PersistNodes \/ PersistRow \/ PersistTip \/ FinishJob \/ CleanTip \/ PassBarrier
Rotation    == Reconcile \/ Check \/ SetFloor \/ Collect \/ Preserve \/ Swap
                 \/ Retire \/ RecordRotation \/ DeleteRelational

Next == CloseLedger \/ AdoptLedger \/ Persistence \/ Rotation \/ Restart

Spec == Init /\ [][Next]_vars

-----------------------------------------------------------------------------
(* Properties *)

Manifests == {manifest} \cup manifests
Complete(m, s) == StateNodes(s) \cup {Header(s)} \subseteq Visible(m)

\* No rotation takes a node from under a ledger the service still uses: every
\* ledger of the history and of the persistence queue can be read in full, from
\* the store or from its own map.
LiveComplete ==
  \A s \in Owned : \A n \in tree[s] : Node(n) \in Visible(manifest) \/ <<s, n>> \in dirty

\* Whatever manifest a crash leaves, both its generations are still there, and
\* the validated tip a restart finds in it is a complete ledger with its header,
\* as long as the service has not let go of that ledger.
TipComplete ==
  \A m \in Manifests :
    /\ {m.writable, m.archive} \subseteq DOMAIN gens
    /\ TipOf(m) \in Owned => Complete(m, TipOf(m))

\* Nothing but a crash takes back the validated tip of a ledger the service still
\* owns: a rotation does not leave it behind in the archive it removes, and the
\* cleanup of an evicted ledger does not invalidate it.
TipSurvives ==
  [][crashes' = crashes /\ TipOf(manifest) \in Owned => TipOf(manifest)' >= TipOf(manifest)]_vars

\* Rows are deleted only below the floor every restart will find.
RowsAboveFloor ==
  [][\A s \in rows \ rows', m \in Manifests, f \in {file} \cup files :
       s < Max({f.min, m.min})]_vars

\* The backend never refuses a rotation and never takes one for done.
RotationAdmissible ==
  rot.pc = "prepared" =>
    /\ rot.target > manifest.last
    /\ floor >= manifest.min
    /\ floor <= rot.target

=============================================================================
