----------------------- MODULE PreferredRecoveryProofs -----------------------
(* Machine-checked proofs about the preferred-ledger recovery, for any tree    *)
(* of ledgers, any views of the network and any number of faults.              *)
EXTENDS PreferredRecovery, InductionLemmas, FiniteSetTheorems, TLAPS

\* Leaves without arithmetic are for Zenon, which is the default.
USE Zenon

(* The tree of ledgers.  Induction is stated over sets of ledgers.             *)

\* A set that holds the root and, with a parent, its children holds every ledger.
LEMMA TreeInduction ==
    ASSUME NEW G \in SUBSET Ledgers, Root \in G,
           \A l \in Ledgers \ {Root} : Parent[l] \in G => l \in G
    PROVE  G = Ledgers
<1> SUFFICES ASSUME Ledgers \ G # {} PROVE FALSE
  OBVIOUS
<1>1. PICK depth \in [Ledgers -> 1..Cardinality(Ledgers)] :
         \A l \in Ledgers \ {Root} :
             Parent[l] \in Ledgers /\ depth[l] = depth[Parent[l]] + 1
  BY TreeAssumption
<1>2. Cardinality(Ledgers) \in Nat
  BY TreeAssumption, FS_CardinalityType
<1>3. \A l \in Ledgers : depth[l] \in Nat
  BY <1>1, <1>2, SMTT(30)
<1> DEFINE D == {depth[l] : l \in Ledgers \ G}
<1>4. D \in SUBSET Nat /\ D # {}
  BY <1>3, SMTT(30)
<1>5. PICK x \in D : \A y \in D : x <= y
  <2> HIDE DEF D
  <2> QED
    BY <1>4, LeastNumber
<1>6. PICK l \in Ledgers \ G : depth[l] = x
  OBVIOUS
<1>7. Parent[l] \in Ledgers \ G /\ depth[l] = depth[Parent[l]] + 1
  BY <1>1, <1>6
<1>8. depth[l] <= depth[Parent[l]]
  BY <1>5, <1>6, <1>7, SMTT(30)
<1> QED
  BY <1>3, <1>6, <1>7, <1>8, SMTT(30)

\* The ledgers every parent-closed set around l holds.
Closure(l) ==
    {k \in Ledgers : \A S \in SUBSET Ledgers :
        l \in S /\ (\A m \in S \ {Root} : Parent[m] \in S) => k \in S}

\* Anc is the function its recursive definition describes.
LEMMA AncUnfold ==
    /\ Anc = [l \in Ledgers |-> {l} \cup (IF l = Root THEN {} ELSE Anc[Parent[l]])]
<1> DEFINE F == [l \in Ledgers |-> Closure(l)]
<1>1. \A l \in Ledgers : l \in Closure(l)
  BY DEF Closure
<1>2. \A l \in Ledgers \ {Root} : Parent[l] \in Ledgers
  BY TreeAssumption
<1>3. ASSUME NEW l \in Ledgers
      PROVE  Closure(l) = {l} \cup (IF l = Root THEN {} ELSE Closure(Parent[l]))
  <2> DEFINE S == {l} \cup (IF l = Root THEN {} ELSE Closure(Parent[l]))
  <2>1. S \in SUBSET Ledgers
    BY DEF Closure
  <2>2. \A m \in S \ {Root} : Parent[m] \in S
    BY <1>1, <1>2 DEF Closure
  <2>3. Closure(l) \subseteq S
    <3> HIDE DEF S
    <3>1. l \in S
      BY DEF S
    <3> QED
      BY <2>1, <2>2, <3>1 DEF Closure
  <2>4. ASSUME l # Root PROVE Closure(Parent[l]) \subseteq Closure(l)
    BY <2>4, <1>2 DEF Closure
  <2> QED
    BY <1>1, <2>3, <2>4
<1>4. F = [l \in Ledgers |-> {l} \cup (IF l = Root THEN {} ELSE F[Parent[l]])]
  BY <1>2, <1>3
<1> QED
  BY <1>4 DEF Anc

\* A ledger is its own ancestor, and so are its parent's ancestors.
LEMMA AncStep ==
    /\ \A l \in Ledgers : l \in Anc[l]
    /\ Anc[Root] = {Root}
    /\ \A l \in Ledgers \ {Root} :
           Parent[l] \in Ledgers /\ Anc[l] = {l} \cup Anc[Parent[l]]
BY AncUnfold, TreeAssumption, SMTT(30)

LEMMA AncTyped ==
    ASSUME NEW l \in Ledgers
    PROVE  Anc[l] \subseteq Ledgers
<1> DEFINE G == {m \in Ledgers : Anc[m] \subseteq Ledgers}
<1>1. Root \in G
  BY AncStep, TreeAssumption
<1>2. \A m \in Ledgers \ {Root} : Parent[m] \in G => m \in G
  BY AncStep
<1>3. G = Ledgers
  <2>1. G \in SUBSET Ledgers
    OBVIOUS
  <2> HIDE DEF G
  <2> QED
    BY <1>1, <1>2, <2>1, TreeInduction
<1> QED
  BY <1>3

\* The sequence of a ledger is a number.
LEMMA SeqTyped ==
    ASSUME NEW l \in Ledgers
    PROVE  Seq(l) \in Nat
BY AncTyped, TreeAssumption, FS_Subset, FS_CardinalityType DEF Seq

\* What an ancestor descends from, its descendant descends from.
LEMMA AncTransitive ==
    ASSUME NEW l \in Ledgers, NEW k \in Anc[l]
    PROVE  Anc[k] \subseteq Anc[l]
<1> DEFINE G == {m \in Ledgers : \A j \in Anc[m] : Anc[j] \subseteq Anc[m]}
<1>1. Root \in G
  BY AncStep, TreeAssumption
<1>2. \A m \in Ledgers \ {Root} : Parent[m] \in G => m \in G
  BY AncStep
<1>3. G = Ledgers
  <2>1. G \in SUBSET Ledgers
    OBVIOUS
  <2> HIDE DEF G
  <2> QED
    BY <1>1, <1>2, <2>1, TreeInduction
<1> QED
  BY <1>3

\* Two ledgers that descend from each other are one.
LEMMA AncAntisymmetric ==
    ASSUME NEW l \in Ledgers, NEW k \in Anc[l], l \in Anc[k]
    PROVE  k = l
<1>1. PICK depth \in [Ledgers -> 1..Cardinality(Ledgers)] :
         \A m \in Ledgers \ {Root} :
             Parent[m] \in Ledgers /\ depth[m] = depth[Parent[m]] + 1
  BY TreeAssumption
<1>2. \A m \in Ledgers : depth[m] \in Int
  BY <1>1, TreeAssumption, FS_CardinalityType, SMTT(30)
<1> DEFINE G == {m \in Ledgers : \A j \in Anc[m] : j = m \/ depth[j] < depth[m]}
<1>3. Root \in G
  BY AncStep, TreeAssumption
<1>4. \A m \in Ledgers \ {Root} : Parent[m] \in G => m \in G
  BY <1>1, <1>2, AncStep, AncTyped, SMTT(30)
<1>5. G = Ledgers
  <2>1. G \in SUBSET Ledgers
    OBVIOUS
  <2> HIDE DEF G
  <2> QED
    BY <1>3, <1>4, <2>1, TreeInduction
<1>6. k \in Ledgers
  BY AncTyped
<1>7. k = l \/ depth[k] < depth[l]
  BY <1>5
<1>8. l = k \/ depth[l] < depth[k]
  BY <1>5, <1>6
<1> QED
  BY <1>2, <1>6, <1>7, <1>8, SMTT(30)


-----------------------------------------------------------------------------
(* Types.                                                                  *)

\* Nothing the code stores in a pointer is the nil pointer.
LEMMA NilApart ==
    /\ Nil \notin Ledgers /\ Nil \notin Requests /\ Nil \notin Jobs
    /\ Nil \notin Builds /\ Nil \notin Holds /\ Nil # "job"
BY NilAssumption, TreeAssumption

LEMMA NetworkTyped ==
    ASSUME TypeOK, NEW l \in Ledgers
    PROVE  NetworkLedger(l) \in Ledgers
BY DEF TypeOK, NetworkLedger

\* startRoundLocked keeps the parent it is given.
LEMMA StartRoundShape ==
    ASSUME NEW e \in Engines, NEW recovering \in BOOLEAN
    PROVE  /\ StartRound(e, recovering) \in Engines
           /\ StartRound(e, recovering).prev = e.prev
BY DEF StartRound, Engines, Modes

LEMMA ObserveShape ==
    ASSUME NEW e \in Engines
    PROVE  /\ Observe(e) \in Engines /\ Observe(e).prev = e.prev
           /\ Demote(e) \in Engines /\ Demote(e).prev = e.prev
BY DEF Observe, Demote, Engines, Modes

\* The worker runs the same job, at the same step, for the same target.
SameJob(w, v) ==
    /\ v \in Workers /\ v.stopped = w.stopped
    /\ w.job = Nil <=> v.job = Nil
    /\ w.job # Nil =>
          /\ v.job.pc = w.job.pc /\ v.job.valid = w.job.valid
          /\ v.job.retired = w.job.retired /\ v.job.req.id = w.job.req.id
          /\ w.job.cancelled => v.job.cancelled

\* The worker has begun a job.
BegunJob(v) ==
    /\ v \in Workers /\ v.job # Nil /\ v.job.pc = "prepare" /\ v.job.valid = Nil
    /\ ~v.job.retired

LEMMA NewJobTyped ==
    ASSUME NEW req \in Requests
    PROVE  NewJob(req) \in Jobs
BY DEF NewJob, Jobs, Steps

LEMMA RestartedShape ==
    ASSUME NEW w \in Workers
    PROVE  /\ SameJob(w, Restarted(w))
           /\ Restarted(w).pending # Nil => w.pending # Nil
<1> DEFINE job == IF w.job = Nil THEN Nil ELSE [w.job EXCEPT !.req.fresh = FALSE]
           pend == IF w.pending = Nil THEN Nil ELSE [w.pending EXCEPT !.fresh = FALSE]
<1>1. Restarted(w) = [w EXCEPT !.job = job, !.pending = pend]
  BY DEF Restarted
<1>2. job \in Jobs \cup {Nil} /\ (job = Nil <=> w.job = Nil)
  <2>1. CASE w.job = Nil
    BY <2>1
  <2>2. CASE w.job # Nil
    <3>1. w.job \in Jobs
      BY <2>2 DEF Workers
    <3>2. [w.job EXCEPT !.req.fresh = FALSE] \in Jobs
      BY <3>1 DEF Jobs, Requests
    <3> QED
      BY <2>2, <3>2, NilApart
  <2> QED
    BY <2>1, <2>2
<1>3. w.job # Nil => /\ job.pc = w.job.pc /\ job.valid = w.job.valid
                     /\ job.retired = w.job.retired /\ job.req.id = w.job.req.id
                     /\ job.cancelled = w.job.cancelled
  BY DEF Workers, Jobs, Requests
<1>4. pend \in Requests \cup {Nil} /\ (pend # Nil => w.pending # Nil)
  BY DEF Workers, Requests
<1> HIDE DEF job, pend
<1> QED
  BY <1>1, <1>2, <1>3, <1>4 DEF SameJob, Workers

\* submitLocked starts a job, or asks the one in its place to stop.
LEMMA SubmitShape ==
    ASSUME NEW w \in Workers, NEW e \in Engines, NEW l \in Ledgers
    PROVE  LET v == SubmitLocked(w, e, l)
           IN  /\ v.stopped = w.stopped
               /\ \/ w.job = Nil /\ BegunJob(v) /\ v.pending = w.pending
                  \/ w.job # Nil /\ v = w
                  \/ w.job # Nil /\ SameJob(w, v) /\ v.job.cancelled
<1> DEFINE req == [id |-> l, prev |-> e.prev, fresh |-> TRUE]
<1>1. req \in Requests
  BY DEF Requests, Engines
<1>2. CASE w.job = Nil
  <2>1. SubmitLocked(w, e, l) = [w EXCEPT !.job = NewJob(req)]
    BY <1>2 DEF SubmitLocked
  <2>2. NewJob(req) \in Jobs /\ NewJob(req) # Nil
    BY <1>1, NewJobTyped, NilApart
  <2>3. NewJob(req).pc = "prepare" /\ NewJob(req).valid = Nil /\ ~NewJob(req).retired
    BY DEF NewJob
  <2> QED
    BY <1>2, <2>1, <2>2, <2>3 DEF BegunJob, Workers
<1>3. CASE w.job # Nil /\ w.job.req = req
  BY <1>3 DEF SubmitLocked, Workers
<1>4. CASE w.job # Nil /\ w.job.req # req
  <2>1. SubmitLocked(w, e, l) = [w EXCEPT !.pending = req, !.job.cancelled = TRUE]
    BY <1>4 DEF SubmitLocked
  <2>2. w.job \in Jobs /\ [w.job EXCEPT !.cancelled = TRUE] \in Jobs
    BY <1>4 DEF Workers, Jobs
  <2>3. SubmitLocked(w, e, l) =
          [w EXCEPT !.pending = req, !.job = [w.job EXCEPT !.cancelled = TRUE]]
    BY <2>1 DEF Workers
  <2>4. [w.job EXCEPT !.cancelled = TRUE] # Nil
    BY <2>2, NilApart
  <2> HIDE DEF req
  <2> QED
    BY <1>1, <1>4, <2>2, <2>3, <2>4 DEF SameJob, Workers, Jobs
<1> QED
  BY <1>2, <1>3, <1>4

\* finish leaves no replacement behind, and begins none in a stopped worker.
LEMMA FinishedShape ==
    ASSUME NEW w \in Workers
    PROVE  LET v == Finished(w)
           IN  /\ v \in Workers /\ v.stopped = w.stopped /\ v.pending = Nil
               /\ v.job = Nil \/ (~w.stopped /\ BegunJob(v))
<1> DEFINE job == IF w.stopped \/ w.pending = Nil THEN Nil ELSE NewJob(w.pending)
<1>1. Finished(w) = [w EXCEPT !.job = job, !.pending = Nil]
  BY DEF Finished
<1>2. CASE w.stopped \/ w.pending = Nil
  BY <1>1, <1>2 DEF Workers
<1>3. CASE ~w.stopped /\ w.pending # Nil
  <2>1. w.pending \in Requests
    BY <1>3 DEF Workers
  <2>2. job \in Jobs /\ job # Nil
    BY <1>3, <2>1, NewJobTyped, NilApart
  <2>3. job.pc = "prepare" /\ job.valid = Nil /\ ~job.retired
    BY <1>3 DEF NewJob
  <2> HIDE DEF job
  <2> QED
    BY <1>1, <1>3, <2>2, <2>3 DEF BegunJob, Workers
<1> QED
  BY <1>2, <1>3

-----------------------------------------------------------------------------
(* The inductive invariant.                                                *)

\* e.mu is held across a step for one of three reasons, and never while an
\* accepted ledger is being built; the fence is a committing job's.
Exclusive ==
    /\ \/ mu \in {Free, Phase, Fence}
       \/ mu \in Holds /\ mu.at = "sync" /\ mu.by # "job" /\ mu.undo \in held \cup {Nil}
    /\ mu # Free => build = Nil
    /\ mu = Fence => At("commit") /\ worker.job.req.id \in held

\* A build is of the engine's parent, and once published is the closed ledger.
BuildOnParent ==
    build # Nil =>
        /\ build.pc = "build" => build.parent = eng.prev /\ build.ledger = Nil
        /\ build.ledger # Nil => closed = build.ledger

\* A job's captured validated ledger is on the validated chain.  If it is still
\* the validated ledger at the fence, the target extends it.
FenceHolds ==
    /\ worker.job # Nil /\ worker.job.valid # Nil =>
           worker.job.valid \in Anc[validated]
    /\ mu = Fence /\ worker.job.valid = validated => CanSwitch(worker.job.req.id)

\* What a Stop has joined does not come back.
StopHolds ==
    /\ worker.job # Nil /\ worker.job.retired => worker.job.pc = "callback"
    /\ \A c \in Callers :
          /\ stop[c] \in {"join", "wait", "returned"} => worker.stopped
          /\ stop[c] \in {"wait", "returned"} =>
                 worker.job = Nil \/ worker.job.retired
    /\ stop["main"] = "returned" => ~live.hb /\ mu = Free /\ build = Nil

Inv ==
    /\ TypeOK /\ NothingStranded /\ Exclusive /\ BuildOnParent
    /\ FenceHolds /\ StopHolds

-----------------------------------------------------------------------------
(* What the engine's handlers do to the worker and to the parent.          *)

\* The worker is left alone, is given its first job, or keeps the one it has,
\* told to stop when it gets a replacement.
JobKept ==
    \/ UNCHANGED worker
    \/ /\ worker.job = Nil /\ BegunJob(worker') /\ ~worker.stopped
       /\ ~worker'.stopped /\ worker'.pending = worker.pending
    \/ /\ SameJob(worker, worker')
       /\ worker'.pending # Nil =>
             \/ worker.pending # Nil
             \/ worker.job # Nil /\ worker'.job.cancelled /\ ~worker.stopped

LEMMA SubmitKept ==
    ASSUME TypeOK, NEW e \in Engines, NEW l \in Ledgers, ~worker.stopped,
           worker' = SubmitLocked(worker, e, l)
    PROVE  JobKept
<1>1. worker \in Workers
  BY DEF TypeOK
<1> QED
  BY <1>1, SubmitShape DEF JobKept

LEMMA RestartKept ==
    ASSUME TypeOK, worker' = Restarted(worker)
    PROVE  JobKept
<1>1. worker \in Workers
  BY DEF TypeOK
<1> QED
  BY <1>1, RestartedShape DEF JobKept

\* The engine stays on p and e.mu goes on to the phase or is given up, or the
\* engine moves to a ledger above the validated one and keeps e.mu.
Handled(p, by) ==
    \/ eng'.prev = p /\ mu' = After(by) /\ JobKept
    \/ CanSwitch(eng'.prev) /\ mu' = Sync(by, Nil) /\ UNCHANGED worker

LEMMA HandleShape ==
    ASSUME TypeOK, NEW e \in Engines, e.prev \in held, NEW l \in Ledgers, NEW by,
           HandleWrongLedger(e, l, by)
    PROVE  /\ eng' \in Engines /\ eng'.prev \in held
           /\ Handled(e.prev, by)
           /\ UNCHANGED <<closed, owner, validated, pref, held, stop, live, used>>
<1>1. Observe(e) \in Engines /\ Observe(e).prev = e.prev
  BY ObserveShape
<1>2. [Observe(e) EXCEPT !.prev = l, !.wrong = Nil] \in Engines
  BY <1>1 DEF Engines
<1>3. [Observe(e) EXCEPT !.prev = l, !.wrong = Nil].prev = l
  BY <1>1 DEF Engines
<1>4. [e EXCEPT !.wrong = l, !.mode = "wrong"] \in Engines
  BY DEF Engines, Modes
<1>5. [e EXCEPT !.wrong = l, !.mode = "wrong"].prev = e.prev
  BY DEF Engines
<1>6. UNCHANGED worker => JobKept
  BY DEF JobKept
<1>7. ~worker.stopped /\ worker' = SubmitLocked(worker, e, l) => JobKept
  BY SubmitKept
<1> QED
  BY <1>1, <1>2, <1>3, <1>4, <1>5, <1>6, <1>7 DEF HandleWrongLedger, Handled

\* The ledger checkLedger moves to is a ledger.
LEMMA CheckTyped ==
    ASSUME TypeOK, NEW e \in Engines, CheckLedger(e) # Nil
    PROVE  CheckLedger(e) \in Ledgers
<1>1. NetworkLedger(e.prev) \in Ledgers
  BY NetworkTyped DEF Engines
<1> QED
  BY <1>1 DEF CheckLedger, TypeOK

\* A tick checks the engine as it is, demoted when it hands over.
LEMMA TickShape ==
    ASSUME TypeOK, TickCheck
    PROVE  /\ eng' \in Engines /\ eng'.prev \in held
           /\ Handled(eng.prev, "hb")
           /\ UNCHANGED <<build, closed, owner, validated, pref, held, stop, live, used>>
<1> DEFINE e == IF eng.full THEN eng ELSE Observe(eng)
           l == CheckLedger(e)
<1>1. e \in Engines /\ e.prev = eng.prev
  BY ObserveShape DEF TypeOK
<1>2. Demote(e) \in Engines /\ Demote(e).prev = eng.prev
  BY <1>1, ObserveShape
<1>3. CASE l # Nil
  <2>1. l \in Ledgers
    BY <1>1, <1>3, CheckTyped
  <2>2. HandleWrongLedger(Demote(e), l, "hb")
    BY <1>3 DEF TickCheck
  <2>3. Demote(e).prev \in held
    BY <1>2 DEF TypeOK
  <2> HIDE DEF l, e
  <2> QED
    BY <1>2, <2>1, <2>2, <2>3, HandleShape DEF TickCheck
<1>4. CASE l = Nil
  <2>1. eng' = e /\ mu' = Phase
    BY <1>4 DEF TickCheck
  <2>2. UNCHANGED <<worker, closed, owner, validated, pref, held, stop, live, used>>
    BY <1>4 DEF TickCheck
  <2> HIDE DEF l, e
  <2> QED
    BY <1>1, <2>1, <2>2 DEF TickCheck, TypeOK, Handled, After, JobKept
<1> QED
  BY <1>3, <1>4

LEMMA FailedShape ==
    ASSUME Inv, CommitFailed
    PROVE  /\ eng' \in Engines /\ eng'.prev \in held
           /\ Handled(eng.prev, "accept")
           /\ UNCHANGED <<closed, owner, validated, pref, held, stop, live, used>>
<1> DEFINE e == [eng EXCEPT !.phase = "open"]
<1>1. e \in Engines /\ e.prev = eng.prev
  BY DEF Inv, TypeOK, Engines
<1>2. e.prev \in held /\ validated \in Ledgers
  BY <1>1 DEF Inv, TypeOK
<1>3. CASE HandleWrongLedger(e, validated, "accept")
  <2> HIDE DEF e
  <2> QED
    BY <1>1, <1>2, <1>3, HandleShape DEF Inv
<1>4. CASE /\ eng' = e
           /\ UNCHANGED <<worker, mu, closed, owner, validated, pref,
                          held, stop, live, used>>
  BY <1>1, <1>2, <1>4 DEF CommitFailed, Handled, After, JobKept
<1> QED
  BY <1>3, <1>4 DEF CommitFailed

\* The parent after an accepted ledger: kept, that ledger, or the network's.
LEMMA AcceptedShape ==
    ASSUME Inv, CommitAccepted
    PROVE  /\ eng' \in Engines /\ eng'.prev \in held
           /\ \/ Handled(eng.prev, "accept")
              \/ Handled(build.ledger, "accept")
              \/ Handled(NetworkLedger(build.ledger), "accept")
           /\ UNCHANGED <<closed, owner, validated, pref, held, stop, live, used>>
<1> DEFINE e == [eng EXCEPT !.prev = build.ledger, !.lcl = Nil]
           net == NetworkLedger(build.ledger)
           next == [e EXCEPT !.prev = net,
                             !.lcl = IF net = build.ledger THEN Nil ELSE build.ledger]
<1>1. build.ledger \in Ledgers /\ build.ledger = closed /\ build.ledger \in held
  BY DEF Inv, TypeOK, BuildOnParent, CommitAccepted, Builds
<1>2. net \in Ledgers
  BY <1>1, NetworkTyped DEF Inv
<1>3. e \in Engines /\ e.prev = build.ledger
  BY <1>1 DEF Inv, TypeOK, Engines
<1>4. next \in Engines /\ next.prev = net
  <2> HIDE DEF net, e
  <2> QED
    BY <1>1, <1>2, <1>3 DEF Engines
<1>5. validated \in Ledgers /\ eng \in Engines /\ eng.prev \in held /\ TypeOK
  BY DEF Inv, TypeOK
<1>6. CASE HandleWrongLedger(eng, validated, "accept")
  BY <1>5, <1>6, HandleShape
<1>7. CASE HandleWrongLedger(e, net, "accept")
  <2> HIDE DEF net, e
  <2> QED
    BY <1>1, <1>2, <1>3, <1>5, <1>7, HandleShape
<1>8. CASE eng' = e /\ UNCHANGED <<worker, mu, closed, owner, validated, pref, held,
                                  stop, live, used>>
  BY <1>1, <1>3, <1>8 DEF CommitAccepted, Handled, After, JobKept
<1>9. CASE /\ eng' = StartRound(next, FALSE) /\ worker' = Restarted(worker)
           /\ net \in held
           /\ UNCHANGED <<mu, closed, owner, validated, pref, held, stop, live, used>>
  <2>1. eng' \in Engines /\ eng'.prev = net
    <3> HIDE DEF next, net
    <3> QED
      BY <1>4, <1>9, StartRoundShape
  <2>2. JobKept
    BY <1>5, <1>9, RestartKept
  <2> QED
    BY <1>9, <2>1, <2>2 DEF CommitAccepted, Handled, After
<1> QED
  BY <1>6, <1>7, <1>8, <1>9 DEF CommitAccepted

\* A handler of the engine leaves the transition, the validated ledger and the
\* shutdown alone, and does not run behind a fence or after a Stop has returned.
EngineStep ==
    /\ eng' \in Engines /\ eng'.prev \in held /\ JobKept
    /\ mu # Fence
    /\ \/ mu' \in {Free, Phase}
       \/ /\ mu' \in Holds /\ mu'.at = "sync" /\ mu'.by # "job" /\ build' = Nil
          /\ mu'.undo \in held \cup {Nil}
    /\ UNCHANGED <<owner, validated, held, stop, live, pref>>
    /\ used' \in [views : Nat, faults : Nat]
    /\ stop["main"] # "returned"

LEMMA PhaseApart == Phase # Fence /\ Phase \in Holds /\ Fence \in Holds
BY NilApart DEF Phase, Fence, Holds

LEMMA SyncShape ==
    ASSUME NEW by \in {"hb", "router", "accept"}, NEW undo \in Ledgers \cup {Nil}
    PROVE  /\ Sync(by, undo) \in Holds /\ Sync(by, undo).at = "sync"
           /\ Sync(by, undo).by # "job" /\ Sync(by, undo).undo = undo
BY DEF Sync, Holds

LEMMA AfterShape ==
    \A by : After(by) \in {Free, Phase}
BY DEF After

LEMMA HandledStep ==
    ASSUME Inv, NEW p, NEW by \in {"hb", "router", "accept"}, Handled(p, by),
           eng' \in Engines, eng'.prev \in held, mu = Free, build' = Nil,
           UNCHANGED <<owner, validated, held, stop, live, pref, used>>,
           stop["main"] # "returned"
    PROVE  EngineStep
<1>1. mu # Fence
  BY PhaseApart, NilApart DEF Free
<1>2. JobKept
  BY DEF Handled, JobKept
<1>3. \/ mu' \in {Free, Phase}
      \/ mu' \in Holds /\ mu'.at = "sync" /\ mu'.by # "job" /\ mu'.undo = Nil
  BY SyncShape, AfterShape, SMTT(30) DEF Handled
<1> QED
  BY <1>1, <1>2, <1>3 DEF EngineStep, Inv, TypeOK

\* Every handler of the engine is such a step, and keeps the mutex discipline.
LEMMA EngineMoves ==
    ASSUME Inv,
           \/ TickCheck \/ TickPhase \/ SyncSwitch \/ SyncRefused
           \/ CommitFailed \/ CommitAccepted
           \/ \E l \in Ledgers : TrySwitch(l)
    PROVE  /\ EngineStep
           /\ mu' # Free => build' = Nil
           /\ build' \in Builds \cup {Nil} /\ BuildOnParent'
           /\ closed' \in held
<1> USE DEF Free
<1>1. /\ eng \in Engines /\ worker \in Workers /\ TypeOK /\ eng.prev \in held
      /\ closed \in held /\ closed \in Ledgers /\ eng.prev \in Ledgers
  BY DEF Inv, TypeOK
<1>2. CASE TickCheck
  <2>1. mu = Free /\ build = Nil /\ build' = Nil /\ live.hb
    BY <1>2 DEF TickCheck
  <2>2. stop["main"] # "returned"
    BY <2>1 DEF Inv, StopHolds
  <2>3. EngineStep
    BY <1>1, <1>2, <2>1, <2>2, TickShape, HandledStep
  <2> QED
    BY <1>1, <1>2, <2>1, <2>3, TickShape DEF BuildOnParent
<1>3. CASE TickPhase
  <2>1. mu = Phase /\ mu' = Free /\ mu # Fence /\ mu # Nil
    BY <1>3, PhaseApart, NilApart DEF TickPhase
  <2>2. stop["main"] # "returned" /\ build = Nil
    BY <2>1 DEF Inv, StopHolds, Exclusive
  <2>3. UNCHANGED <<closed, owner, validated, pref, held, stop, live, used>>
    BY <1>3 DEF TickPhase
  <2>4. CASE UNCHANGED <<eng, worker, build>>
    BY <1>1, <2>1, <2>2, <2>3, <2>4 DEF EngineStep, JobKept, BuildOnParent, Inv, TypeOK
  <2>5. CASE /\ eng' = [eng EXCEPT !.phase = "accepted"]
             /\ build' = [parent |-> eng.prev, ledger |-> Nil, pc |-> "build",
                          valid |-> validated]
             /\ UNCHANGED worker
    <3>1. eng' \in Engines /\ eng'.prev = eng.prev
      BY <1>1, <2>5 DEF Engines
    <3>2. build' \in Builds
      BY <1>1, <2>5 DEF Builds, TypeOK
    <3>3. build'.parent = eng.prev /\ build'.ledger = Nil
      BY <2>5
    <3> QED
      BY <1>1, <2>1, <2>2, <2>3, <2>5, <3>1, <3>2, <3>3
         DEF EngineStep, JobKept, BuildOnParent, TypeOK
  <2>6. CASE /\ eng' = StartRound([eng EXCEPT !.prev = closed], FALSE)
             /\ worker' = Restarted(worker)
             /\ UNCHANGED build
    <3>1. [eng EXCEPT !.prev = closed] \in Engines
      BY <1>1 DEF Engines
    <3>2. [eng EXCEPT !.prev = closed].prev = closed
      BY <1>1 DEF Engines
    <3>3. eng' \in Engines /\ eng'.prev = closed
      BY <2>6, <3>1, <3>2, StartRoundShape
    <3>4. JobKept
      BY <1>1, <2>6, RestartKept
    <3> QED
      BY <1>1, <2>1, <2>2, <2>3, <2>6, <3>3, <3>4 DEF EngineStep, BuildOnParent, TypeOK
  <2> QED
    BY <1>3, <2>4, <2>5, <2>6 DEF TickPhase
<1>4. CASE SyncSwitch
  <2>1. /\ mu # Nil /\ mu.at = "sync" /\ closed' = eng.prev /\ mu' = After(mu.by)
        /\ UNCHANGED <<build, owner, validated, pref, held, stop, live, used>>
    BY <1>4 DEF SyncSwitch
  <2>2. stop["main"] # "returned" /\ build = Nil
    BY <2>1 DEF Inv, StopHolds, Exclusive
  <2>3. mu # Fence
    BY <2>1, SMTT(30) DEF Fence
  <2>4. [eng EXCEPT !.wrong = Nil] \in Engines /\ [eng EXCEPT !.wrong = Nil].prev = eng.prev
    BY <1>1 DEF Engines
  <2>5. eng' \in Engines /\ eng'.prev = eng.prev
    BY <1>4, <2>4, StartRoundShape DEF SyncSwitch
  <2>6. JobKept
    BY <1>1, <1>4, RestartKept DEF SyncSwitch
  <2> QED
    BY <1>1, <2>1, <2>2, <2>3, <2>5, <2>6, AfterShape DEF EngineStep, BuildOnParent, TypeOK
<1>5. CASE SyncRefused
  <2>1. /\ mu # Nil /\ mu.at = "sync" /\ mu' = After(mu.by)
        /\ UNCHANGED <<worker, build, closed, owner, validated, pref, held, stop, live>>
    BY <1>5 DEF SyncRefused
  <2>2. stop["main"] # "returned" /\ build = Nil
    BY <2>1 DEF Inv, StopHolds, Exclusive
  <2>3. mu # Fence
    BY <2>1, SMTT(30) DEF Fence
  <2>4. used' \in [views : Nat, faults : Nat]
    BY <1>1, <1>5, SMTT(30) DEF SyncRefused, Fault, TypeOK
  <2>5. eng' \in Engines /\ eng'.prev \in held
    <3>1. mu.undo \in held \cup {Nil}
      BY <2>1, <2>3, SMTT(30) DEF Inv, Exclusive, Phase
    <3>2. CASE mu.undo = Nil
      BY <1>1, <1>5, <3>2 DEF SyncRefused
    <3>3. CASE mu.undo # Nil
      <4>1. eng' = [eng EXCEPT !.prev = mu.undo] /\ mu.undo \in held /\ mu.undo \in Ledgers
        BY <1>1, <1>5, <3>1, <3>3 DEF SyncRefused, TypeOK
      <4> QED
        BY <1>1, <4>1 DEF Engines
    <3> QED
      BY <3>2, <3>3
  <2> QED
    BY <1>1, <2>1, <2>2, <2>3, <2>4, <2>5, AfterShape DEF EngineStep, BuildOnParent, TypeOK, JobKept
<1>6. CASE CommitFailed
  <2>1. mu = Nil /\ build' = Nil /\ stop["main"] # "returned"
    BY <1>6 DEF CommitFailed, Inv, StopHolds
  <2>2. EngineStep
    BY <1>6, <2>1, FailedShape, HandledStep
  <2> QED
    BY <1>1, <1>6, <2>1, <2>2, FailedShape DEF BuildOnParent
<1>7. CASE CommitAccepted
  <2>1. mu = Nil /\ build' = Nil /\ stop["main"] # "returned"
    BY <1>7 DEF CommitAccepted, Inv, StopHolds
  <2>2. EngineStep
    BY <1>7, <2>1, AcceptedShape, HandledStep
  <2> QED
    BY <1>1, <1>7, <2>1, <2>2, AcceptedShape DEF BuildOnParent
<1>8. CASE \E l \in Ledgers : TrySwitch(l)
  <2>1. PICK l \in Ledgers : TrySwitch(l)
    BY <1>8
  <2>2. /\ mu = Nil /\ build = Nil /\ stop["main"] = "idle" /\ l \in held
        /\ UNCHANGED <<build, closed, owner, validated, pref, held, stop, live, used>>
    BY <2>1 DEF TrySwitch
  <2>3. mu # Fence
    BY <2>2, PhaseApart, NilApart
  <2>4. CASE worker.stopped
    <3>1. eng' = [eng EXCEPT !.prev = l] /\ mu' = Sync("router", eng.prev) /\ UNCHANGED worker
      BY <2>1, <2>4 DEF TrySwitch
    <3>2. eng' \in Engines /\ eng'.prev = l
      BY <1>1, <3>1 DEF Engines
    <3>3. mu' \in Holds /\ mu'.at = "sync" /\ mu'.by # "job" /\ mu'.undo = eng.prev
      BY <1>1, <3>1, SyncShape
    <3> QED
      BY <1>1, <2>2, <2>3, <3>1, <3>2, <3>3 DEF EngineStep, BuildOnParent, TypeOK, JobKept
  <2>5. CASE ~worker.stopped
    <3>1. worker' = SubmitLocked(worker, eng, l) /\ UNCHANGED <<eng, mu>>
      BY <2>1, <2>5 DEF TrySwitch
    <3>2. JobKept
      BY <1>1, <2>5, <3>1, SubmitKept
    <3> QED
      BY <1>1, <2>2, <2>3, <3>1, <3>2 DEF EngineStep, BuildOnParent, TypeOK
  <2> QED
    BY <2>4, <2>5
<1> QED
  BY <1>2, <1>3, <1>4, <1>5, <1>6, <1>7, <1>8

\* JobKept keeps the queue, the captured ledger and what a Stop relies on.
LEMMA KeptPreserves ==
    ASSUME Inv, JobKept, UNCHANGED <<owner, validated, stop>>
    PROVE  /\ worker' \in Workers /\ NothingStranded'
           /\ worker'.job # Nil /\ worker'.job.valid # Nil =>
                  worker'.job.valid \in Anc[validated]
           /\ worker'.job # Nil /\ worker'.job.retired => worker'.job.pc = "callback"
           /\ \A c \in Callers :
                 /\ stop[c] \in {"join", "wait", "returned"} => worker'.stopped
                 /\ stop[c] \in {"wait", "returned"} =>
                        worker'.job = Nil \/ worker'.job.retired
<1>1. worker \in Workers /\ owner \in {"job", Nil}
  BY DEF Inv, TypeOK
<1>2. CASE UNCHANGED worker
  BY <1>1, <1>2 DEF Inv, NothingStranded, FenceHolds, StopHolds, At
<1>3. CASE /\ worker.job = Nil /\ BegunJob(worker') /\ ~worker.stopped
           /\ ~worker'.stopped /\ worker'.pending = worker.pending
  <2>1. owner # "job" /\ worker.pending = Nil
    BY <1>1, <1>3 DEF Inv, NothingStranded, At
  <2>2. NothingStranded'
    BY <1>3, <2>1 DEF NothingStranded, At, BegunJob
  <2>3. \A c \in Callers : stop[c] \notin {"join", "wait", "returned"}
    BY <1>3 DEF Inv, StopHolds
  <2> QED
    BY <1>3, <2>2, <2>3 DEF BegunJob
<1>4. CASE /\ SameJob(worker, worker')
           /\ worker'.pending # Nil =>
                \/ worker.pending # Nil
                \/ worker.job # Nil /\ worker'.job.cancelled /\ ~worker.stopped
  <2>1. NothingStranded'
    BY <1>1, <1>4 DEF Inv, NothingStranded, At, SameJob
  <2> QED
    BY <1>4, <2>1 DEF Inv, SameJob, FenceHolds, StopHolds
<1> QED
  BY <1>2, <1>3, <1>4 DEF JobKept

LEMMA EnginePreserves ==
    ASSUME Inv,
           \/ TickCheck \/ TickPhase \/ SyncSwitch \/ SyncRefused
           \/ CommitFailed \/ CommitAccepted
           \/ \E l \in Ledgers : TrySwitch(l)
    PROVE  Inv'
<1>1. /\ EngineStep
      /\ mu' # Free => build' = Nil
      /\ build' \in Builds \cup {Nil} /\ BuildOnParent'
      /\ closed' \in held
  BY EngineMoves
<1>2. mu' # Fence
  BY <1>1, PhaseApart, NilApart, SMTT(30) DEF EngineStep, Free, Fence
<1>3. /\ worker' \in Workers /\ NothingStranded'
      /\ worker'.job # Nil /\ worker'.job.valid # Nil =>
             worker'.job.valid \in Anc[validated]
      /\ worker'.job # Nil /\ worker'.job.retired => worker'.job.pc = "callback"
      /\ \A c \in Callers :
            /\ stop[c] \in {"join", "wait", "returned"} => worker'.stopped
            /\ stop[c] \in {"wait", "returned"} =>
                   worker'.job = Nil \/ worker'.job.retired
  BY <1>1, KeptPreserves DEF EngineStep
<1>4. TypeOK'
  BY <1>1, <1>3, PhaseApart DEF EngineStep, Inv, TypeOK, Free
<1>5. Exclusive'
  BY <1>1, <1>2 DEF EngineStep, Exclusive, Free
<1>6. FenceHolds'
  BY <1>1, <1>2, <1>3 DEF EngineStep, FenceHolds
<1>7. StopHolds'
  BY <1>1, <1>3 DEF EngineStep, StopHolds
<1> QED
  BY <1>1, <1>3, <1>4, <1>5, <1>6, <1>7 DEF Inv

\* A job that is over gives up what it owned.
LEMMA FinishPreserves ==
    ASSUME Inv, worker.job # Nil, worker' = Finished(worker), owner' = Nil,
           mu' = mu \/ mu' = Free, mu # Fence \/ mu' = Free,
           used' \in [views : Nat, faults : Nat],
           UNCHANGED <<eng, build, closed, validated, pref, held, stop, live>>
    PROVE  Inv'
<1>1. worker \in Workers
  BY DEF Inv, TypeOK
<1>2. /\ worker' \in Workers /\ worker'.stopped = worker.stopped /\ worker'.pending = Nil
      /\ worker'.job = Nil \/ (~worker.stopped /\ BegunJob(worker'))
  BY <1>1, FinishedShape
<1>3. TypeOK'
  BY <1>2 DEF Inv, TypeOK, Free
<1>4. NothingStranded'
  BY <1>2, NilApart DEF NothingStranded, At, BegunJob
<1>5. mu' # Fence
  BY PhaseApart, NilApart DEF Free
<1>6. Exclusive' /\ FenceHolds' /\ BuildOnParent'
  BY <1>2, <1>5 DEF Inv, Exclusive, FenceHolds, BuildOnParent, BegunJob, Free
<1>7. StopHolds'
  BY <1>2 DEF Inv, StopHolds, BegunJob, Free
<1> QED
  BY <1>3, <1>4, <1>6, <1>7 DEF Inv

\* The worker's only job is at step s, with v captured, and has its request.
JobAt(w, s, v, r) ==
    /\ w \in Workers /\ w.job # Nil /\ w.stopped = worker.stopped
    /\ w.pending # Nil => worker.pending # Nil
    /\ w.job.pc = s /\ w.job.valid = v /\ w.job.retired = r
    /\ w.job.req.id = worker.job.req.id
    /\ worker.job.cancelled => w.job.cancelled

LEMMA JobShape ==
    ASSUME TypeOK, worker.job # Nil, NEW s \in Steps, NEW v \in Ledgers \cup {Nil}
    PROVE  /\ JobAt([worker EXCEPT !.job.pc = s], s, worker.job.valid, worker.job.retired)
           /\ JobAt([worker EXCEPT !.job.pc = s, !.job.valid = v], s, v, worker.job.retired)
           /\ JobAt([worker EXCEPT !.job.pc = s, !.job.retired = TRUE], s,
                    worker.job.valid, TRUE)
<1>1. worker \in Workers /\ worker.job \in Jobs
  BY DEF TypeOK, Workers
<1>2. ASSUME NEW job \in Jobs, job.pc = s, job.req = worker.job.req,
             job.cancelled = worker.job.cancelled
      PROVE  JobAt([worker EXCEPT !.job = job], s, job.valid, job.retired)
  BY <1>1, <1>2, NilApart DEF JobAt, Workers
<1>3. JobAt([worker EXCEPT !.job.pc = s], s, worker.job.valid, worker.job.retired)
  <2> DEFINE job == [worker.job EXCEPT !.pc = s]
  <2>1. /\ job \in Jobs /\ job.pc = s /\ job.req = worker.job.req
        /\ job.cancelled = worker.job.cancelled /\ job.valid = worker.job.valid
        /\ job.retired = worker.job.retired
    BY <1>1 DEF Jobs
  <2>2. [worker EXCEPT !.job.pc = s] = [worker EXCEPT !.job = job]
    BY <1>1 DEF Workers, Jobs
  <2> HIDE DEF job
  <2> QED
    BY <1>2, <2>1, <2>2
<1>4. JobAt([worker EXCEPT !.job.pc = s, !.job.valid = v], s, v, worker.job.retired)
  <2> DEFINE job == [worker.job EXCEPT !.pc = s, !.valid = v]
  <2>1. /\ job \in Jobs /\ job.pc = s /\ job.req = worker.job.req
        /\ job.cancelled = worker.job.cancelled /\ job.valid = v
        /\ job.retired = worker.job.retired
    BY <1>1 DEF Jobs
  <2>2. [worker EXCEPT !.job.pc = s, !.job.valid = v] = [worker EXCEPT !.job = job]
    BY <1>1 DEF Workers, Jobs
  <2> HIDE DEF job
  <2> QED
    BY <1>2, <2>1, <2>2
<1>5. JobAt([worker EXCEPT !.job.pc = s, !.job.retired = TRUE], s, worker.job.valid, TRUE)
  <2> DEFINE job == [worker.job EXCEPT !.pc = s, !.retired = TRUE]
  <2>1. /\ job \in Jobs /\ job.pc = s /\ job.req = worker.job.req
        /\ job.cancelled = worker.job.cancelled /\ job.valid = worker.job.valid
        /\ job.retired = TRUE
    BY <1>1 DEF Jobs
  <2>2. [worker EXCEPT !.job.pc = s, !.job.retired = TRUE] = [worker EXCEPT !.job = job]
    BY <1>1 DEF Workers, Jobs
  <2> HIDE DEF job
  <2> QED
    BY <1>2, <2>1, <2>2
<1> QED
  BY <1>3, <1>4, <1>5

\* PreparePreferredLedger took the transition for the job, or the preparation
\* is ready for the commit.
LEMMA PreparePreserves ==
    ASSUME Inv, JobPrepare \/ JobReady
    PROVE  Inv'
<1>1. TypeOK /\ worker.job # Nil /\ validated \in Ledgers /\ worker.job \in Jobs
  BY DEF Inv, TypeOK, Workers, JobPrepare, JobReady, At
<1>2. worker.job.retired = FALSE
  BY <1>1 DEF Inv, StopHolds, JobPrepare, JobReady, At, Jobs
<1>3. validated \in Anc[validated]
  BY <1>1, AncStep
<1>4. UNCHANGED <<eng, mu, build, closed, validated, pref, held, stop, live, used>>
  BY DEF JobPrepare, JobReady
<1>5. /\ owner' = "job"
      /\ \E s \in {"wait", "commit"}, v \in Ledgers \cup {Nil} :
             JobAt(worker', s, v, FALSE) /\ (v # Nil => v \in Anc[validated])
  <2>1. CASE JobPrepare
    <3>1. worker' = [worker EXCEPT !.job.pc = "wait", !.job.valid = validated]
      BY <2>1 DEF JobPrepare
    <3>2. JobAt(worker', "wait", validated, FALSE)
      BY <1>1, <1>2, <3>1, JobShape DEF Steps
    <3> QED
      BY <1>1, <1>3, <2>1, <3>2 DEF JobPrepare
  <2>2. CASE JobReady
    <3>1. worker' = [worker EXCEPT !.job.pc = "commit"]
      BY <2>2 DEF JobReady, Goto
    <3>2. JobAt(worker', "commit", worker.job.valid, FALSE)
      BY <1>1, <1>2, <3>1, JobShape DEF Steps
    <3>3. owner = "job" /\ owner' = owner
      BY <2>2 DEF Inv, NothingStranded, JobReady
    <3>4. worker.job.valid \in Ledgers \cup {Nil}
      BY <1>1 DEF Jobs
    <3>5. worker.job.valid # Nil => worker.job.valid \in Anc[validated]
      BY <1>1 DEF Inv, FenceHolds
    <3> QED
      BY <3>2, <3>3, <3>4, <3>5
  <2> QED
    BY <2>1, <2>2
<1>6. TypeOK'
  BY <1>4, <1>5 DEF Inv, TypeOK, JobAt
<1>7. NothingStranded'
  BY <1>5 DEF Inv, NothingStranded, JobAt, At
<1>8. mu # Fence
  BY DEF Inv, Exclusive, At, JobPrepare, JobReady
<1>9. Exclusive' /\ BuildOnParent' /\ FenceHolds'
  BY <1>4, <1>5, <1>8 DEF Inv, Exclusive, BuildOnParent, FenceHolds, JobAt
<1>10. StopHolds'
  BY <1>1, <1>2, <1>4, <1>5 DEF Inv, StopHolds, JobAt
<1> QED
  BY <1>6, <1>7, <1>9, <1>10 DEF Inv

LEMMA FaultTyped ==
    ASSUME used \in [views : Nat, faults : Nat], Fault
    PROVE  used' \in [views : Nat, faults : Nat]
BY SMTT(30) DEF Fault

\* Every way out of a preparation ends the job: it failed, is cancelled or stale.
LEMMA EndPreserves ==
    ASSUME Inv, JobPrepareFails \/ JobAbandon \/ JobStale
    PROVE  Inv'
<1>1. owner \in {"job", Nil} /\ used \in [views : Nat, faults : Nat]
  BY DEF Inv, TypeOK
<1>2. Fault => used' \in [views : Nat, faults : Nat]
  BY <1>1, FaultTyped
<1>3. CASE JobPrepareFails
  <2>1. worker.job # Nil /\ mu # Fence /\ owner = Nil
    BY <1>1, <1>3 DEF JobPrepareFails, At, Inv, Exclusive, NothingStranded
  <2> QED
    BY <1>1, <1>2, <1>3, <2>1, FinishPreserves DEF JobPrepareFails
<1>4. CASE JobAbandon
  <2>1. worker.job # Nil /\ mu # Fence
    BY <1>4 DEF JobAbandon, At, Inv, Exclusive
  <2> QED
    BY <1>1, <1>2, <1>4, <2>1, FinishPreserves DEF JobAbandon
<1>5. CASE JobStale
  BY <1>1, <1>5, FinishPreserves DEF JobStale, At
<1> QED
  BY <1>3, <1>4, <1>5

\* The fence is taken for a target that extends the validated ledger.
LEMMA FencePreserves ==
    ASSUME Inv, JobFence
    PROVE  Inv'
<1>1. /\ At("commit") /\ mu = Free /\ build = Nil /\ mu' = Fence
      /\ worker.job.req.id \in held /\ CanSwitch(worker.job.req.id)
      /\ ~worker.stopped
      /\ UNCHANGED <<eng, worker, build, closed, owner, validated, pref, held,
                     stop, live, used>>
  BY DEF JobFence, Current, SwitchEligible
<1>2. TypeOK'
  BY <1>1, PhaseApart DEF Inv, TypeOK
<1>3. NothingStranded' /\ BuildOnParent' /\ Exclusive'
  BY <1>1 DEF Inv, NothingStranded, At, BuildOnParent, Exclusive
<1>4. FenceHolds'
  BY <1>1 DEF Inv, FenceHolds, CanSwitch
<1>5. stop["main"] # "returned"
  BY <1>1 DEF Inv, StopHolds, Callers
<1>6. StopHolds'
  BY <1>1, <1>5 DEF Inv, StopHolds
<1> QED
  BY <1>2, <1>3, <1>4, <1>6 DEF Inv

\* What a publication leaves: the target closed and adopted, the job past it.
LEMMA PublishShape ==
    ASSUME Inv, JobPublish
    PROVE  /\ At("commit") /\ mu = Fence /\ worker.job.valid = validated
           /\ worker.job.req.id \in held /\ CanSwitch(worker.job.req.id)
           /\ JobAt(worker', "retire", Nil, FALSE)
           /\ eng' \in Engines /\ eng'.prev = worker.job.req.id
           /\ closed' = worker.job.req.id /\ owner' = Nil /\ mu' = Free
           /\ UNCHANGED <<build, validated, pref, held, stop, live, used>>
<1> DEFINE id == worker.job.req.id
           done == [worker EXCEPT !.job.pc = "retire", !.job.valid = Nil]
<1>1. /\ mu = Fence /\ worker.job.valid = validated /\ closed' = id /\ owner' = Nil
      /\ mu' = Free
      /\ UNCHANGED <<build, validated, pref, held, stop, live, used>>
  BY DEF JobPublish
<1>2. At("commit") /\ id \in held /\ CanSwitch(id)
  BY <1>1 DEF Inv, Exclusive, FenceHolds
<1>3. TypeOK /\ eng \in Engines /\ worker \in Workers /\ worker.job # Nil
  BY <1>2 DEF Inv, TypeOK, At
<1>4. worker.job.retired = FALSE
  BY <1>2, <1>3 DEF Inv, StopHolds, At, Workers, Jobs
<1>5. JobAt(done, "retire", Nil, FALSE)
  BY <1>3, <1>4, JobShape DEF Steps
<1>6. id \in Ledgers
  BY <1>2, <1>3 DEF TypeOK
<1>7. CASE worker' = done /\ UNCHANGED eng /\ eng.prev = id
  <2> HIDE DEF done
  <2> QED
    BY <1>1, <1>2, <1>3, <1>5, <1>7
<1>8. CASE /\ eng' = StartRound([eng EXCEPT !.prev = id, !.wrong = Nil], TRUE)
           /\ worker' = Restarted(done)
  <2>1. /\ [eng EXCEPT !.prev = id, !.wrong = Nil] \in Engines
        /\ [eng EXCEPT !.prev = id, !.wrong = Nil].prev = id
    <3> HIDE DEF id
    <3> QED
      BY <1>3, <1>6 DEF Engines
  <2>2. eng' \in Engines /\ eng'.prev = id
    <3> HIDE DEF id
    <3> QED
      BY <1>8, <2>1, StartRoundShape
  <2> HIDE DEF done
  <2>3. done \in Workers
    BY <1>5 DEF JobAt
  <2>4. SameJob(done, worker') /\ (worker'.pending # Nil => done.pending # Nil)
    BY <1>8, <2>3, RestartedShape
  <2>5. JobAt(worker', "retire", Nil, FALSE)
    BY <1>5, <2>4 DEF JobAt, SameJob
  <2> QED
    BY <1>1, <1>2, <2>2, <2>5
<1> QED
  BY <1>7, <1>8 DEF JobPublish

\* Publishing ends the job's hold on the transition; retiring it and running its
\* callbacks touch nothing else.
LEMMA PublishPreserves ==
    ASSUME Inv, JobPublish
    PROVE  Inv'
<1>1. /\ mu = Fence /\ worker.job.req.id \in held
      /\ JobAt(worker', "retire", Nil, FALSE)
      /\ eng' \in Engines /\ eng'.prev = worker.job.req.id
      /\ closed' = worker.job.req.id /\ owner' = Nil /\ mu' = Free
      /\ UNCHANGED <<build, validated, pref, held, stop, live, used>>
  BY PublishShape
<1>2. build = Nil /\ worker.job # Nil
  BY <1>1, PhaseApart, NilApart DEF Inv, Exclusive, Free, At
<1>3. TypeOK'
  BY <1>1 DEF Inv, TypeOK, JobAt, Free
<1>4. NothingStranded'
  BY <1>1, NilApart DEF Inv, NothingStranded, JobAt, At
<1>5. mu' # Fence
  BY <1>1, PhaseApart, NilApart DEF Free
<1>6. Exclusive' /\ BuildOnParent' /\ FenceHolds'
  BY <1>1, <1>2, <1>5 DEF Exclusive, BuildOnParent, FenceHolds, JobAt
<1>7. \A c \in Callers : stop[c] \notin {"wait", "returned"}
  BY <1>1, <1>2 DEF Inv, StopHolds, Exclusive, At
<1>8. StopHolds'
  BY <1>1, <1>7 DEF Inv, StopHolds, JobAt, Callers
<1> QED
  BY <1>3, <1>4, <1>6, <1>8 DEF Inv

LEMMA RetirePreserves ==
    ASSUME Inv, JobRetire \/ JobCallback
    PROVE  Inv'
<1>1. TypeOK /\ worker.job # Nil /\ mu # Fence /\ owner = Nil
  BY DEF Inv, TypeOK, Exclusive, NothingStranded, JobRetire, JobCallback, At
<1>2. CASE JobRetire
  <2>1. UNCHANGED <<eng, mu, build, closed, owner, validated, pref, held, stop,
                    live, used>>
    BY <1>2 DEF JobRetire
  <2>2. JobAt(worker', "callback", worker.job.valid, TRUE)
    BY <1>1, <1>2, JobShape DEF JobRetire, Steps
  <2>3. TypeOK' /\ NothingStranded'
    BY <1>1, <2>1, <2>2, NilApart DEF Inv, TypeOK, NothingStranded, JobAt, At
  <2>4. Exclusive' /\ BuildOnParent' /\ FenceHolds' /\ StopHolds'
    BY <1>1, <2>1, <2>2
       DEF Inv, Exclusive, BuildOnParent, FenceHolds, StopHolds, JobAt
  <2> QED
    BY <2>3, <2>4 DEF Inv
<1>3. CASE JobCallback /\ worker' = Finished(worker) /\ UNCHANGED stop
  BY <1>1, <1>3, FinishPreserves DEF JobCallback, TypeOK
<1>4. CASE /\ JobCallback /\ stop["callback"] = "idle" /\ UNCHANGED worker
           /\ stop' = [stop EXCEPT !["callback"] = "lock"]
  <2>1. UNCHANGED <<eng, worker, mu, build, closed, owner, validated, pref, held,
                    live, used>>
    BY <1>4 DEF JobCallback
  <2>2. \A c \in Callers : stop'[c] = stop[c] \/ stop'[c] = "lock"
    BY <1>1, <1>4 DEF TypeOK
  <2>3. stop'["main"] = stop["main"]
    BY <1>1, <1>4 DEF TypeOK, Callers
  <2>4. TypeOK' /\ NothingStranded'
    BY <1>1, <1>4, <2>1 DEF Inv, TypeOK, NothingStranded, At
  <2>5. Exclusive' /\ BuildOnParent' /\ FenceHolds' /\ StopHolds'
    BY <2>1, <2>2, <2>3 DEF Inv, Exclusive, BuildOnParent, FenceHolds, StopHolds, At, CanSwitch
  <2> QED
    BY <2>4, <2>5 DEF Inv
<1> QED
  BY <1>2, <1>3, <1>4 DEF JobCallback

\* The accepted ledger is published on the parent it was built on.
LEMMA BuildPreserves ==
    ASSUME Inv, BuildFails \/ \E l \in Ledgers : BuildPublish(l)
    PROVE  Inv'
<1>1. /\ build # Nil /\ build \in Builds /\ build.pc = "build" /\ build.ledger = Nil
      /\ mu = Free /\ mu # Fence
  BY NilApart, PhaseApart
     DEF Inv, TypeOK, BuildFails, BuildPublish, BuildOnParent, Exclusive, Free
<1>2. used \in [views : Nat, faults : Nat]
  BY DEF Inv, TypeOK
<1>3. stop["main"] # "returned"
  BY <1>1 DEF Inv, StopHolds
<1>4. /\ UNCHANGED <<eng, worker, mu, owner, validated, pref, stop, live>>
      /\ used' \in [views : Nat, faults : Nat]
      /\ held \subseteq held' /\ held' \subseteq Ledgers /\ closed' \in held'
      /\ build' \in Builds /\ build'.pc = "commit"
      /\ build'.ledger # Nil => closed' = build'.ledger
  <2>1. CASE BuildFails
    <3>1. build' = [build EXCEPT !.pc = "commit"]
      BY <2>1 DEF BuildFails
    <3>2. build' \in Builds /\ build'.pc = "commit" /\ build'.ledger = Nil
      BY <1>1, <3>1 DEF Builds
    <3>3. used' \in [views : Nat, faults : Nat]
      BY <1>2, <2>1, FaultTyped DEF BuildFails
    <3> QED
      BY <2>1, <3>2, <3>3 DEF BuildFails, Inv, TypeOK
  <2>2. CASE \E l \in Ledgers : BuildPublish(l)
    <3>1. PICK l \in Ledgers : BuildPublish(l)
      BY <2>2
    <3>2. /\ build' \in Builds /\ build'.pc = "commit"
          /\ build'.ledger # Nil => build'.ledger = l
      BY <1>1, <3>1 DEF BuildPublish, Builds
    <3>3. used' \in [views : Nat, faults : Nat]
      BY <1>2, <3>1, FaultTyped DEF BuildPublish
    <3> QED
      BY <3>1, <3>2, <3>3 DEF BuildPublish, Inv, TypeOK
  <2> QED
    BY <2>1, <2>2
<1>5. TypeOK' /\ NothingStranded'
  BY <1>4 DEF Inv, TypeOK, NothingStranded, At
<1>6. Exclusive' /\ BuildOnParent' /\ FenceHolds' /\ StopHolds'
  BY <1>1, <1>3, <1>4
     DEF Inv, Exclusive, BuildOnParent, FenceHolds, StopHolds, Free
<1> QED
  BY <1>5, <1>6 DEF Inv

\* The validated ledger moves up its chain: it cannot come back to a ledger a job
\* captured, so what the fence has checked of that ledger stays true.
LEMMA ValidatePreserves ==
    ASSUME Inv, NEW l \in Ledgers, Validate(l)
    PROVE  Inv'
<1>1. /\ l \in held /\ l # validated /\ validated \in Anc[l] /\ validated' = l
      /\ UNCHANGED <<eng, worker, mu, build, closed, owner, pref, held, stop,
                     live, used>>
  BY DEF Validate
<1>2. TypeOK' /\ NothingStranded' /\ Exclusive' /\ BuildOnParent' /\ StopHolds'
  BY <1>1, SMTT(30) DEF Inv, TypeOK, NothingStranded, Exclusive, BuildOnParent, StopHolds, At
<1>3. Anc[validated] \subseteq Anc[l]
  BY <1>1, AncTransitive
<1>4. ASSUME mu = Fence, worker.job.valid = l
      PROVE  FALSE
  <2>1. worker.job # Nil /\ worker.job.valid # Nil
    BY <1>4, NilApart DEF Inv, Exclusive, At
  <2>2. l \in Anc[validated]
    BY <1>4, <2>1 DEF Inv, FenceHolds
  <2> QED
    BY <1>1, <2>2, AncAntisymmetric
<1>5. FenceHolds'
  BY <1>1, <1>3, <1>4 DEF Inv, FenceHolds
<1> QED
  BY <1>2, <1>5 DEF Inv

\* The network, the clock, the operating mode and the heartbeat's exit.
LEMMA WorldPreserves ==
    ASSUME Inv,
           \/ ViewChanges \/ OperatingMode \/ GraceExpires \/ AcquireFailed
           \/ HeartbeatExit \/ UNCHANGED vars
           \/ \E l \in Ledgers : Acquire(l)
    PROVE  Inv'
<1>1. /\ UNCHANGED <<worker, mu, build, closed, owner, validated, stop>>
      /\ eng' \in Engines /\ eng'.prev = eng.prev
      /\ held \subseteq held' /\ held' \subseteq Ledgers /\ pref' \in Ledgers
      /\ live' \in [ctx : BOOLEAN, hb : BOOLEAN] /\ (live'.hb => live.hb)
      /\ used' \in [views : Nat, faults : Nat]
  <2>1. TypeOK
    BY DEF Inv
  <2>2. CASE ViewChanges
    BY <2>1, <2>2, SMTT(30) DEF ViewChanges, TypeOK
  <2>3. CASE OperatingMode
    <3>1. eng' = [eng EXCEPT !.full = ~eng.full]
      BY <2>3 DEF OperatingMode
    <3>2. eng' \in Engines /\ eng'.prev = eng.prev
      BY <2>1, <3>1 DEF TypeOK, Engines
    <3>3. used' \in [views : Nat, faults : Nat]
      BY <2>1, <2>3, FaultTyped DEF OperatingMode, TypeOK
    <3> QED
      BY <2>1, <2>3, <3>2, <3>3 DEF OperatingMode, TypeOK
  <2>4. CASE GraceExpires
    BY <2>1, <2>4 DEF GraceExpires, TypeOK, Engines
  <2>5. CASE AcquireFailed
    BY <2>1, <2>5 DEF AcquireFailed, TypeOK, Engines
  <2>6. CASE HeartbeatExit
    BY <2>1, <2>6 DEF HeartbeatExit, TypeOK
  <2>7. CASE UNCHANGED vars
    BY <2>1, <2>7 DEF vars, TypeOK
  <2>8. CASE \E l \in Ledgers : Acquire(l)
    BY <2>1, <2>8 DEF Acquire, TypeOK
  <2> QED
    BY <2>2, <2>3, <2>4, <2>5, <2>6, <2>7, <2>8
<1>2. TypeOK' /\ NothingStranded'
  BY <1>1 DEF Inv, TypeOK, NothingStranded, At
<1>3. Exclusive' /\ BuildOnParent' /\ FenceHolds' /\ StopHolds'
  BY <1>1 DEF Inv, Exclusive, BuildOnParent, FenceHolds, StopHolds, At, CanSwitch
<1> QED
  BY <1>2, <1>3 DEF Inv

\* A Stop marks the worker, then waits for its job, the heartbeat and the build.
LEMMA StopPreserves ==
    ASSUME Inv, NEW c \in Callers, Stopping(c)
    PROVE  Inv'
<1>1. TypeOK /\ worker \in Workers /\ stop \in [Callers -> {"idle", "lock", "flag", "join", "wait", "returned"}]
  BY DEF Inv, TypeOK
<1>2. CASE StopCancel(c)
  <2>1. UNCHANGED <<eng, worker, mu, build, closed, owner, validated, pref, held, used>>
    BY <1>2 DEF StopCancel
  <2>2. stop' \in [Callers -> {"idle", "lock", "flag", "join", "wait", "returned"}]
    BY <1>1, <1>2 DEF StopCancel
  <2>3. \A d \in Callers : stop'[d] = stop[d] \/ stop'[d] = "flag"
    BY <1>1, <1>2 DEF StopCancel
  <2>4. live' \in [ctx : BOOLEAN, hb : BOOLEAN] /\ live'.hb = live.hb
    BY <1>1, <1>2 DEF StopCancel, TypeOK
  <2>5. TypeOK' /\ NothingStranded' /\ Exclusive' /\ BuildOnParent' /\ FenceHolds'
    BY <2>1, <2>2, <2>4, SMTT(30)
       DEF Inv, TypeOK, NothingStranded, Exclusive, BuildOnParent, FenceHolds, At, CanSwitch
  <2>6. StopHolds'
    BY <2>1, <2>3, <2>4 DEF Inv, StopHolds, Callers
  <2> QED
    BY <2>5, <2>6 DEF Inv
<1>3. CASE StopFlag(c)
  <2>1. UNCHANGED <<eng, mu, build, closed, owner, validated, pref, held, live, used>>
    BY <1>3 DEF StopFlag
  <2>2. stop' \in [Callers -> {"idle", "lock", "flag", "join", "wait", "returned"}]
    BY <1>1, <1>3 DEF StopFlag
  <2>3. \A d \in Callers : stop'[d] = stop[d] \/ stop'[d] = "join"
    BY <1>1, <1>3 DEF StopFlag
  <2>4. /\ worker' \in Workers /\ worker'.stopped /\ worker'.pending = Nil
        /\ worker'.job = Nil <=> worker.job = Nil
        /\ worker.job # Nil =>
              /\ worker'.job.pc = worker.job.pc /\ worker'.job.valid = worker.job.valid
              /\ worker'.job.retired = worker.job.retired
              /\ worker'.job.req = worker.job.req
    <3> DEFINE job == IF worker.job = Nil THEN Nil
                      ELSE [worker.job EXCEPT !.cancelled = TRUE]
    <3>1. worker' = [worker EXCEPT !.stopped = TRUE, !.pending = Nil, !.job = job]
      BY <1>3 DEF StopFlag
    <3>2. CASE worker.job = Nil
      BY <1>1, <3>1, <3>2 DEF Workers
    <3>3. CASE worker.job # Nil
      <4>1. worker.job \in Jobs
        BY <1>1, <3>3 DEF Workers
      <4>2. /\ job \in Jobs /\ job.pc = worker.job.pc /\ job.valid = worker.job.valid
            /\ job.retired = worker.job.retired /\ job.req = worker.job.req
        BY <3>3, <4>1 DEF Jobs
      <4>3. job # Nil
        BY <4>2, NilApart
      <4> HIDE DEF job
      <4> QED
        BY <1>1, <3>1, <3>3, <4>2, <4>3 DEF Workers
    <3> QED
      BY <3>2, <3>3
  <2>5. TypeOK' /\ NothingStranded'
    BY <2>1, <2>2, <2>4 DEF Inv, TypeOK, NothingStranded, At
  <2>6. Exclusive' /\ BuildOnParent' /\ FenceHolds'
    BY <2>1, <2>4 DEF Inv, Exclusive, BuildOnParent, FenceHolds, At, CanSwitch
  <2>7. StopHolds'
    BY <2>1, <2>3, <2>4 DEF Inv, StopHolds, Callers
  <2> QED
    BY <2>5, <2>6, <2>7 DEF Inv
<1>4. CASE StopJoin(c) \/ StopReturn(c)
  <2>1. UNCHANGED <<eng, worker, mu, build, closed, owner, validated, pref, held,
                    live, used>>
    BY <1>4 DEF StopJoin, StopReturn
  <2>2. stop' \in [Callers -> {"idle", "lock", "flag", "join", "wait", "returned"}]
    BY <1>1, <1>4 DEF StopJoin, StopReturn
  <2>3. \A d \in Callers \ {c} : stop'[d] = stop[d]
    BY <1>1, <1>4 DEF StopJoin, StopReturn
  <2>4. worker.stopped /\ (worker.job = Nil \/ worker.job.retired)
    BY <1>4 DEF StopJoin, StopReturn, Inv, StopHolds
  <2>5. stop'[c] = "wait" \/ (stop'[c] = "returned" /\ ~live.hb /\ mu = Free /\ build = Nil)
    BY <1>1, <1>4 DEF StopJoin, StopReturn
  <2>6. TypeOK' /\ NothingStranded' /\ Exclusive' /\ BuildOnParent' /\ FenceHolds'
    BY <2>1, <2>2, SMTT(30)
       DEF Inv, TypeOK, NothingStranded, Exclusive, BuildOnParent, FenceHolds, At, CanSwitch
  <2>7. StopHolds'
    BY <2>1, <2>3, <2>4, <2>5 DEF Inv, StopHolds, Callers
  <2> QED
    BY <2>6, <2>7 DEF Inv
<1> QED
  BY <1>2, <1>3, <1>4 DEF Stopping

LEMMA InvInit == Init => Inv
<1> SUFFICES ASSUME Init PROVE Inv
  OBVIOUS
<1>1. Root \in Ledgers /\ Root \in Held /\ Held \subseteq Ledgers
  BY HeldAssumption
<1>2. TypeOK
  BY <1>1 DEF Init, TypeOK, Engines, Workers, Modes, Free, Callers
<1>3. NothingStranded /\ Exclusive /\ BuildOnParent /\ FenceHolds /\ StopHolds
  BY NilApart, PhaseApart
     DEF Init, NothingStranded, Exclusive, BuildOnParent, FenceHolds, StopHolds,
         Free, At, Callers
<1> QED
  BY <1>2, <1>3 DEF Inv

LEMMA InvStep == Inv /\ [Next]_vars => Inv'
BY EnginePreserves, PreparePreserves, EndPreserves, FencePreserves, PublishPreserves,
   RetirePreserves, BuildPreserves, ValidatePreserves, WorldPreserves, StopPreserves
   DEF Next, Switch, Accept, Job

\* Every component stays in its range.
THEOREM TypeCorrect == Spec => []TypeOK
<1>1. Inv => TypeOK
  BY DEF Inv
<1> QED
  BY <1>1, InvInit, InvStep, PTL DEF Spec

\* Whatever goes stale or fails and whenever Stop comes, the service's transition
\* is owned exactly while a job is between PreparePreferredLedger and its release
\* or publication, and a replacement waits only behind a job told to stop.
THEOREM StrandedCorrect == Spec => []NothingStranded
<1>1. Inv => NothingStranded
  BY DEF Inv
<1> QED
  BY <1>1, InvInit, InvStep, PTL DEF Spec

\* After the shutdown's Stop has returned no handler, build or job of the engine
\* moves its parent or the closed ledger.
THEOREM QuietCorrect == Spec => QuietAfterStop
<1>1. ASSUME Inv, [Next]_vars, stop["main"] = "returned"
      PROVE  UNCHANGED <<eng.prev, closed>>
  <2>1. build = Nil /\ mu = Free /\ mu # Fence
    BY <1>1, PhaseApart, NilApart DEF Inv, StopHolds, Free
  <2>2. CASE \/ TickCheck \/ TickPhase \/ SyncSwitch \/ SyncRefused
             \/ CommitFailed \/ CommitAccepted
             \/ \E l \in Ledgers : TrySwitch(l)
    BY <1>1, <2>2, EngineMoves DEF EngineStep
  <2>3. CASE JobPublish \/ BuildFails \/ \E l \in Ledgers : BuildPublish(l)
    BY <2>1, <2>3 DEF JobPublish, BuildFails, BuildPublish
  <2>4. CASE \/ JobPrepare \/ JobPrepareFails \/ JobReady \/ JobAbandon \/ JobFence
             \/ JobStale \/ JobRetire \/ JobCallback
    BY <2>4 DEF JobPrepare, JobPrepareFails, JobReady, JobAbandon, JobFence,
                JobStale, JobRetire, JobCallback
  <2>5. CASE OperatingMode \/ GraceExpires \/ AcquireFailed
    BY <1>1, <2>5 DEF OperatingMode, GraceExpires, AcquireFailed, Inv, TypeOK, Engines
  <2>6. CASE \/ ViewChanges \/ HeartbeatExit \/ UNCHANGED vars
             \/ \E l \in Ledgers : Validate(l) \/ Acquire(l)
             \/ \E c \in Callers : Stopping(c)
    BY <2>6 DEF ViewChanges, HeartbeatExit, vars, Validate, Acquire, Stopping,
                StopCancel, StopFlag, StopJoin, StopReturn
  <2> QED
    BY <1>1, <2>2, <2>3, <2>4, <2>5, <2>6 DEF Next, Switch, Accept, Job
<1>2. Inv /\ [Next]_vars =>
        [stop["main"] = "returned" => UNCHANGED <<eng.prev, closed>>]_vars
  BY <1>1
<1> QED
  BY <1>2, InvInit, InvStep, PTL DEF Spec, QuietAfterStop

-----------------------------------------------------------------------------
(* The refinement of LedgerFrontier.                                       *)

LEMMA FrontierAnc == Frontier!Anc = Anc
BY DEF Frontier!Anc, Anc

LEMMA FrontierSeq == \A l : Frontier!Seq(l) = Seq(l)
BY FrontierAnc DEF Frontier!Seq, Seq, Frontier!Cardinality, Cardinality

\* The abstract state: the parent a switch in place would fall back to.
Moving ==
    IF mu = Free \/ mu.at # "sync" THEN "still"
    ELSE IF mu.undo = Nil THEN eng.prev ELSE mu.undo

\* The moves of LedgerFrontier, in terms of this module.
LEMMA FrontierMoves ==
    ASSUME NEW l \in Ledgers
    PROVE  /\ /\ Moving = "still" /\ Moving' = "still" /\ UNCHANGED validated
              /\ eng'.prev = l /\ closed' = l /\ validated \in Anc[l]
              => Frontier!Next
           /\ /\ Moving = "still" /\ Moving' = "still" /\ UNCHANGED <<eng.prev, validated>>
              /\ eng.prev = closed /\ closed' = l
              /\ Parent[l] = closed /\ ~QuorumConflict(l)
              => Frontier!Next
           /\ /\ Moving = "still" /\ Moving' = "still" /\ UNCHANGED <<closed, validated>>
              /\ eng'.prev = l
              /\ l = closed \/ Seq(l) >= Seq(validated)
              => Frontier!Next
           /\ /\ Moving = "still" /\ UNCHANGED <<closed, validated>>
              /\ eng'.prev = l /\ Moving' \in {l, eng.prev} /\ validated \in Anc[l]
              => Frontier!Next
           /\ /\ Moving' = Moving /\ UNCHANGED <<eng.prev, closed>>
              /\ validated' = l /\ validated \in Anc[l]
              => Frontier!Next
<1>1. (\/ Frontier!Adopt(l) \/ Frontier!Close(l) \/ Frontier!Follow(l)
       \/ Frontier!Begin(l) \/ Frontier!Validate(l)) => Frontier!Next
  BY DEF Frontier!Next
<1>2. /\ Moving = "still" /\ Moving' = "still" /\ UNCHANGED validated
      /\ eng'.prev = l /\ closed' = l /\ validated \in Anc[l]
      => Frontier!Adopt(l)
  BY FrontierAnc DEF Moving, Frontier!Adopt, Frontier!Still, Frontier!Extends
<1>3. /\ Moving = "still" /\ Moving' = "still" /\ UNCHANGED <<eng.prev, validated>>
      /\ eng.prev = closed /\ closed' = l
      /\ Parent[l] = closed /\ ~QuorumConflict(l)
      => Frontier!Close(l)
  BY FrontierAnc, FrontierSeq
     DEF Moving, Frontier!Close, Frontier!Still, Frontier!Extends, Frontier!Conflict,
         QuorumConflict
<1>4. /\ Moving = "still" /\ Moving' = "still" /\ UNCHANGED <<closed, validated>>
      /\ eng'.prev = l
      /\ l = closed \/ Seq(l) >= Seq(validated)
      => Frontier!Follow(l)
  BY FrontierSeq DEF Moving, Frontier!Follow, Frontier!Still
<1>5. /\ Moving = "still" /\ UNCHANGED <<closed, validated>>
      /\ eng'.prev = l /\ Moving' \in {l, eng.prev} /\ validated \in Anc[l]
      => Frontier!Begin(l)
  BY FrontierAnc DEF Moving, Frontier!Begin, Frontier!Still, Frontier!Extends
<1>6. /\ Moving' = Moving /\ UNCHANGED <<eng.prev, closed>>
      /\ validated' = l /\ validated \in Anc[l]
      => Frontier!Validate(l)
  BY FrontierAnc DEF Moving, Frontier!Validate, Frontier!Extends
<1> QED
  BY <1>1, <1>2, <1>3, <1>4, <1>5, <1>6

LEMMA FrontierEnds ==
    ASSUME Moving # "still", Moving' = "still", UNCHANGED validated,
           \/ closed' = eng.prev /\ UNCHANGED eng.prev /\ Publishable(eng.prev)
           \/ eng'.prev = Moving /\ UNCHANGED closed
    PROVE  Frontier!Next
<1>1. CASE closed' = eng.prev /\ UNCHANGED eng.prev /\ Publishable(eng.prev)
  <2>1. Frontier!Settle
    BY <1>1, FrontierSeq DEF Moving, Frontier!Settle, Frontier!Still, Frontier!Ahead, Publishable
  <2> QED
    BY <2>1 DEF Frontier!Next
<1>2. CASE eng'.prev = Moving /\ UNCHANGED closed
  <2>1. Frontier!GiveUp
    BY <1>2 DEF Moving, Frontier!GiveUp, Frontier!Still
  <2> QED
    BY <2>1 DEF Frontier!Next
<1> QED
  BY <1>1, <1>2

LEMMA FrontierStutter ==
    ASSUME UNCHANGED <<eng.prev, closed, validated>>, Moving' = Moving
    PROVE  UNCHANGED Frontier!vars
BY DEF Frontier!vars, Moving

\* A switch in place is under way only under Sync.
LEMMA MovingShape ==
    /\ mu = Free \/ mu = Phase \/ mu = Fence => Moving = "still"
    /\ mu' = Free \/ mu' = Phase \/ mu' = Fence => Moving' = "still"
    /\ \A by \in {"hb", "router", "accept"} : mu' = Sync(by, Nil) => Moving' = eng'.prev
<1>1. Phase.at = "phase" /\ Fence.at = "publish"
  BY DEF Phase, Fence
<1>2. \A by \in {"hb", "router", "accept"} :
         Sync(by, Nil) # Nil /\ Sync(by, Nil).at = "sync" /\ Sync(by, Nil).undo = Nil
  BY SyncShape, NilApart, SMTT(30)
<1> QED
  BY <1>1, <1>2 DEF Moving, Free

\* What a handler makes of the parent is a move of LedgerFrontier.
LEMMA HandledRefines ==
    ASSUME Inv, NEW p \in Ledgers, NEW by \in {"hb", "router", "accept"}, Handled(p, by),
           eng' \in Engines, mu = Free, UNCHANGED <<closed, validated>>,
           p = eng.prev \/ p = closed \/ Seq(p) >= Seq(validated)
    PROVE  [Frontier!Next]_(Frontier!vars)
<1>1. Moving = "still" /\ eng'.prev \in Ledgers
  BY MovingShape DEF Engines
<1>2. CASE eng'.prev = p /\ mu' = After(by)
  <2>1. Moving' = "still"
    BY <1>2, MovingShape, AfterShape
  <2>2. CASE p = eng.prev
    BY <1>1, <1>2, <2>1, <2>2, FrontierStutter
  <2>3. CASE p = closed \/ Seq(p) >= Seq(validated)
    BY <1>1, <1>2, <2>1, <2>3, FrontierMoves
  <2> QED
    BY <2>2, <2>3
<1>3. CASE CanSwitch(eng'.prev) /\ mu' = Sync(by, Nil)
  <2>1. Moving' = eng'.prev
    BY <1>3, MovingShape
  <2> QED
    BY <1>1, <1>3, <2>1, FrontierMoves DEF CanSwitch
<1> QED
  BY <1>2, <1>3 DEF Handled

\* Every step of engine, worker, service and network is a move of LedgerFrontier
\* or leaves its state alone.
LEMMA FrontierStep ==
    ASSUME Inv, [Next]_vars
    PROVE  [Frontier!Next]_(Frontier!vars)
<1> USE DEF Free
<1>1. /\ TypeOK /\ eng \in Engines /\ eng.prev \in Ledgers /\ closed \in Ledgers
      /\ validated \in Ledgers
  BY DEF Inv, TypeOK
<1>2. \A l, k \in Ledgers : Seq(l) >= Seq(k) \/ Seq(l) < Seq(k)
  BY SeqTyped, SMTT(30)
<1>3. CASE TickCheck
  BY <1>1, <1>3, TickShape, HandledRefines DEF TickCheck
<1>4. CASE CommitFailed
  BY <1>1, <1>4, FailedShape, HandledRefines DEF CommitFailed
<1>5. CASE CommitAccepted
  <2>1. build.ledger \in Ledgers /\ build.ledger = closed /\ mu = Nil
    BY <1>5 DEF Inv, TypeOK, BuildOnParent, CommitAccepted, Builds
  <2> DEFINE net == NetworkLedger(build.ledger)
  <2>2. net \in Ledgers
    BY <1>1, <2>1, NetworkTyped
  <2>3. net = closed \/ Seq(net) >= Seq(validated)
    BY <1>1, <1>2, <2>1 DEF NetworkLedger, TypeOK
  <2> HIDE DEF net
  <2> QED
    BY <1>1, <1>5, <2>1, <2>2, <2>3, AcceptedShape, HandledRefines DEF net
<1>6. CASE TickPhase
  <2>1. /\ Moving = "still" /\ Moving' = "still" /\ UNCHANGED <<closed, validated>>
    BY <1>6, MovingShape DEF TickPhase
  <2>2. eng'.prev = eng.prev \/ eng'.prev = closed
    <3>1. [eng EXCEPT !.phase = "accepted"].prev = eng.prev
      BY <1>1 DEF Engines
    <3>2. /\ [eng EXCEPT !.prev = closed] \in Engines
          /\ [eng EXCEPT !.prev = closed].prev = closed
      BY <1>1 DEF Engines
    <3>3. StartRound([eng EXCEPT !.prev = closed], FALSE).prev = closed
      BY <3>2, StartRoundShape
    <3> QED
      BY <1>6, <3>1, <3>3 DEF TickPhase
  <2> QED
    BY <1>1, <2>1, <2>2, FrontierStutter, FrontierMoves
<1>7. CASE SyncSwitch
  <2>1. /\ mu # Nil /\ mu.at = "sync" /\ mu' = After(mu.by) /\ Publishable(eng.prev)
        /\ closed' = eng.prev /\ UNCHANGED validated
    BY <1>7 DEF SyncSwitch
  <2>2. Moving # "still" /\ Moving' = "still"
    BY <1>1, <2>1, AfterShape, MovingShape, NilAssumption DEF Moving, TypeOK, Holds
  <2>3. eng'.prev = eng.prev
    <3>1. [eng EXCEPT !.wrong = Nil] \in Engines /\ [eng EXCEPT !.wrong = Nil].prev = eng.prev
      BY <1>1 DEF Engines
    <3> QED
      BY <1>7, <3>1, StartRoundShape DEF SyncSwitch
  <2> QED
    BY <2>1, <2>2, <2>3, FrontierEnds
<1>8. CASE SyncRefused
  <2>1. /\ mu # Nil /\ mu.at = "sync" /\ mu' = After(mu.by)
        /\ UNCHANGED <<closed, validated>>
        /\ eng' = IF mu.undo = Nil THEN eng ELSE [eng EXCEPT !.prev = mu.undo]
    BY <1>8 DEF SyncRefused
  <2>2. Moving # "still" /\ Moving' = "still"
    BY <1>1, <2>1, AfterShape, MovingShape, NilAssumption DEF Moving, TypeOK, Holds
  <2>3. eng'.prev = Moving
    BY <1>1, <2>1 DEF Moving, Engines
  <2> QED
    BY <2>1, <2>2, <2>3, FrontierEnds
<1>9. CASE \E l \in Ledgers : TrySwitch(l)
  <2>1. PICK l \in Ledgers : TrySwitch(l)
    BY <1>9
  <2>2. /\ mu = Nil /\ validated \in Anc[l] /\ UNCHANGED <<closed, validated>>
        /\ Moving = "still"
    BY <2>1, MovingShape DEF TrySwitch, SwitchEligible, CanSwitch
  <2>3. CASE worker.stopped
    <3>1. eng' = [eng EXCEPT !.prev = l] /\ mu' = Sync("router", eng.prev)
      BY <2>1, <2>3 DEF TrySwitch
    <3>2. eng'.prev = l
      BY <1>1, <3>1 DEF Engines
    <3>3. Moving' = eng.prev
      BY <1>1, <3>1, SyncShape, NilApart, SMTT(30) DEF Moving
    <3> QED
      BY <2>2, <3>2, <3>3, FrontierMoves
  <2>4. CASE ~worker.stopped
    BY <2>1, <2>2, <2>4, FrontierStutter, MovingShape DEF TrySwitch
  <2> QED
    BY <2>3, <2>4
<1>10. CASE \E l \in Ledgers : BuildPublish(l)
  <2>1. PICK l \in Ledgers : BuildPublish(l)
    BY <1>10
  <2>2. build # Nil /\ build.parent = eng.prev
    BY <2>1 DEF BuildPublish, Inv, BuildOnParent
  <2>3. mu = Nil /\ mu' = Nil
    BY <2>1, <2>2 DEF BuildPublish, Inv, Exclusive
  <2>4. Moving = "still" /\ Moving' = "still"
    BY <2>3, MovingShape
  <2> QED
    BY <2>1, <2>2, <2>4, FrontierMoves DEF BuildPublish
<1>11. CASE JobPublish
  <2>1. worker.job.req.id \in Ledgers
    BY <1>1, <1>11, PublishShape DEF TypeOK
  <2>2. Moving = "still" /\ Moving' = "still"
    BY <1>11, PublishShape, MovingShape
  <2> QED
    BY <1>11, <2>1, <2>2, PublishShape, FrontierMoves DEF CanSwitch
<1>12. CASE JobFence
  <2>1. Moving = "still" /\ Moving' = "still"
    BY <1>12, MovingShape DEF JobFence
  <2> QED
    BY <1>12, <2>1, FrontierStutter DEF JobFence
<1>13. CASE JobStale
  <2>1. Moving = "still" /\ Moving' = "still"
    BY <1>13, MovingShape DEF JobStale
  <2> QED
    BY <1>13, <2>1, FrontierStutter DEF JobStale
<1>14. CASE \E l \in Ledgers : Validate(l)
  <2>1. PICK l \in Ledgers : Validate(l)
    BY <1>14
  <2>2. Moving' = Moving
    BY <2>1 DEF Validate, Moving
  <2> QED
    BY <2>1, <2>2, FrontierMoves DEF Validate
<1>15. CASE OperatingMode \/ GraceExpires \/ AcquireFailed
  <2>1. UNCHANGED <<mu, closed, validated>> /\ eng'.prev = eng.prev
    BY <1>1, <1>15 DEF OperatingMode, GraceExpires, AcquireFailed, Engines
  <2> QED
    BY <2>1, FrontierStutter DEF Moving
<1>16. CASE \/ JobPrepare \/ JobPrepareFails \/ JobReady \/ JobAbandon \/ JobRetire
            \/ JobCallback \/ BuildFails \/ ViewChanges \/ HeartbeatExit
            \/ UNCHANGED vars \/ \E l \in Ledgers : Acquire(l)
            \/ \E c \in Callers : Stopping(c)
  <2>1. UNCHANGED <<mu, closed, validated, eng>>
    BY <1>16 DEF JobPrepare, JobPrepareFails, JobReady, JobAbandon, JobRetire,
                 JobCallback, BuildFails, ViewChanges, HeartbeatExit, vars, Acquire,
                 Stopping, StopCancel, StopFlag, StopJoin, StopReturn
  <2> QED
    BY <2>1, FrontierStutter DEF Moving
<1> QED
  BY <1>3, <1>4, <1>5, <1>6, <1>7, <1>8, <1>9, <1>10, <1>11, <1>12, <1>13, <1>14,
     <1>15, <1>16 DEF Next, Switch, Accept, Job

\* Engine, recovery worker and ledger service implement LedgerFrontier: parent and
\* closed ledger move together to a ledger that extends the validated one, or one
\* after the other in the ways it lists, however stale the request a recovery was
\* prepared for (commitPreparedRecovery, acceptLedger, switchToPreferredLedger).
THEOREM FrontierCorrect == Spec => FrontierSpec
<1>1. Init => Frontier!Init
  BY SMTT(30) DEF Init, Frontier!Init, Frontier!Still, Free
<1>2. Inv /\ [Next]_vars => [Frontier!Next]_(Frontier!vars)
  BY FrontierStep
<1> QED
  BY <1>1, <1>2, InvInit, InvStep, PTL DEF Spec, FrontierSpec, Frontier!Spec

=============================================================================
