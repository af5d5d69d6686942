---------------------- MODULE ValidationTrackerProofs ----------------------
(* Machine-checked proofs about the validation tracker, for any set of        *)
(* validators, validations, configurations and goroutines.                    *)
EXTENDS ValidationTracker, FiniteSetTheorems, TLAPS

\* Leaves without arithmetic are for Zenon, which is the default.
USE Zenon

(* Types.  TypeOK splits into the data and the program counters of the threads. *)

FinalityTyped ==
    /\ fired \subseteq Keys /\ pendingFinality \subseteq Keys
    /\ pendingGeneration \subseteq Keys /\ delivered \subseteq Keys
    /\ retainedQuorum \in Keys \cup {NoKey}

DataOK ==
    /\ now \in Nat /\ minSeq \in Nat /\ keep \in Nat \X Nat
    /\ validations \subseteq Messages /\ bySequence \subseteq Messages
    /\ lastAccess \in [Ledgers -> Nat] /\ touched \in [Seqs -> Nat]
    /\ byNode \in [Nodes -> Messages \cup {NoVal}]
    /\ seqEnforcers \in [Nodes -> [seq : Nat, when : Nat]]
    /\ accused \subseteq Nodes
    /\ config \in [trusted : SUBSET Nodes, quorum : Nat, negUNL : SUBSET Nodes]
    /\ quorumUnavailable \in BOOLEAN /\ callbackSet \in BOOLEAN
    /\ fired \subseteq Keys /\ pendingFinality \subseteq Keys
    /\ pendingGeneration \subseteq Keys /\ delivered \subseteq Keys
    /\ retainedQuorum \in Keys \cup {NoKey}
    /\ dispatching \in BOOLEAN /\ deferring \subseteq Threads
    /\ trieTips \in [Nodes -> Ledgers \cup {NoTip}]
    /\ acquiring \subseteq Nodes \X Keys /\ available \subseteq Ledgers
    /\ lease \in Lease

\* The fields of a message.
LEMMA MessageTyped ==
    ASSUME NEW m \in Messages
    PROVE  m.node \in Nodes /\ m.ledger \in Ledgers /\ m.seq \in Nat
<1>1. m \in [node : Nodes, ledger : Ledgers, seq : Nat \ {0},
             sign : Nat, full : BOOLEAN, cookie : Nat]
  BY MessagesAssumption
<1> QED
  BY <1>1

\* The key of a message is a key.
LEMMA MessageKey ==
    ASSUME NEW m \in Messages
    PROVE  KeyOf(m) \in Keys
BY MessageTyped DEF Keys, KeyOf

\* Stored evidence names well-formed keys.
LEMMA EvidenceTyped ==
    ASSUME TypeOK
    PROVE  EvidenceKeys(validations) \subseteq Keys
BY MessagesAssumption, SMTT(30) DEF TypeOK, EvidenceKeys, Keys, KeyOf

\* Sequences of keys are numbers.
LEMMA KeySeq ==
    \A k \in Keys \cup {NoKey} : k.seq \in Int
<1>1. NoKey.seq \in Int
  BY SMTT(30) DEF NoKey
<1>2. \A k \in Keys : k.seq \in Int
  BY SMTT(30) DEF Keys
<1> QED
  BY <1>1, <1>2

\* retainQuorumLocked only moves up, and ends at or above every key it was given.
LEMMA RetainUp ==
    ASSUME retainedQuorum \in Keys \cup {NoKey}, NEW F \in SUBSET Keys, RetainQuorum(F)
    PROVE  /\ retainedQuorum' \in Keys \cup {NoKey}
           /\ retainedQuorum'.seq >= retainedQuorum.seq
           /\ retainedQuorum' # retainedQuorum => retainedQuorum'.seq > retainedQuorum.seq
           /\ \A k \in F : k.seq <= retainedQuorum'.seq
<1>1. CASE F = {} /\ UNCHANGED retainedQuorum
  BY <1>1, KeySeq, SMTT(30)
<1>2. CASE \E k \in F :
            /\ \A j \in F : j.seq < k.seq \/ (j.seq = k.seq /\ k.ledger <= j.ledger)
            /\ retainedQuorum' = IF k.seq > retainedQuorum.seq THEN k ELSE retainedQuorum
  BY <1>2, SMTT(30) DEF Keys, NoKey
<1> QED
  BY <1>1, <1>2 DEF RetainQuorum

\* A recheck of well-formed keys keeps the finality state well-formed.
LEMMA CheckFullTyped ==
    ASSUME TypeOK, NEW K \in SUBSET Keys, NEW vals, NEW cfg, NEW unavailable, NEW callback,
           CheckFullValidation(K, vals, cfg, unavailable, callback)
    PROVE  FinalityTyped'
<1> DEFINE Full == {k \in K : HasQuorum(vals, cfg, k)}
<1>1. Full \in SUBSET Keys
  OBVIOUS
<1>2. retainedQuorum' \in Keys \cup {NoKey}
  <2>1. CASE UNCHANGED retainedQuorum
    BY <2>1 DEF TypeOK
  <2>2. CASE RetainQuorum(Full)
    BY <1>1, <2>2, RetainUp DEF TypeOK
  <2> QED
    BY <2>1, <2>2 DEF CheckFullValidation
<1> QED
  BY <1>2 DEF TypeOK, FinalityTyped, CheckFullValidation

\* The double-sign index stays well-formed (trackBySequenceLocked).
LEMMA TrackTyped ==
    ASSUME TypeOK, NEW m \in Messages, NEW at \in Nat, TrackBySequence(m, at)
    PROVE  bySequence' \subseteq Messages /\ touched' \in [Seqs -> Nat]
<1>1. Tracked(m) \in Messages
  BY DEF TypeOK, Tracked
<1> QED
  BY <1>1 DEF TypeOK, TrackBySequence

\* A rebuilt trie is well-formed (rebuildTrieLocked).
LEMMA RebuildTyped ==
    ASSUME NEW cfg \in [trusted : SUBSET Nodes, quorum : Nat, negUNL : SUBSET Nodes],
           NEW current \in [Nodes -> Messages \cup {NoVal}], RebuildTrie(cfg, current)
    PROVE  trieTips' \in [Nodes -> Ledgers \cup {NoTip}] /\ acquiring' \subseteq Nodes \X Keys
BY MessagesAssumption, SMTT(30) DEF RebuildTrie, Keys, KeyOf

\* Every critical section keeps the data well-formed.
LEMMA DataStep ==
    ASSUME TypeOK, [Next]_vars
    PROVE  DataOK'
<1>1. ASSUME NEW t \in Threads, CheckAcquired(t)
      PROVE  DataOK'
  BY <1>1 DEF TypeOK, DataOK, CheckAcquired, admissionVars, limitVars, gateVars, finalityVars,
     steeringVars
<1>2. ASSUME NEW t \in Threads, ApplyAcquired(t)
      PROVE  DataOK'
  <2>1. \A n \in Nodes : byNode[n] # NoVal => byNode[n].ledger \in Ledgers
    BY MessagesAssumption DEF TypeOK
  <2> QED
    BY <1>2, <2>1 DEF TypeOK, DataOK, ApplyAcquired, Steers, admissionVars, limitVars,
       gateVars, finalityVars
<1>3. ASSUME NEW t \in Threads, NEW m \in Messages, NEW engine \in BOOLEAN, AddBegin(t, m, engine)
      PROVE  DataOK'
  BY <1>3 DEF TypeOK, DataOK, AddBegin, admissionVars, limitVars, gateVars, finalityVars,
     steeringVars
<1>4. ASSUME NEW t \in Threads, AdmitRejected(t)
      PROVE  DataOK'
  <2>1. /\ TrackBySequence(pc[t].val, pc[t].at) /\ pc[t].val \in Messages /\ pc[t].at \in Nat
        /\ pc[t].val.node \in Nodes /\ pc[t].val.seq \in Nat
    BY <1>4, MessagesAssumption, SMTT(30) DEF TypeOK, Carries, ThreadState, AdmitRejected
  <2>2. bySequence' \subseteq Messages /\ touched' \in [Seqs -> Nat]
    BY <2>1, TrackTyped
  <2> QED
    BY <1>4, <2>1, <2>2 DEF TypeOK, DataOK, AdmitRejected, limitVars, gateVars, finalityVars,
       steeringVars
<1>5. ASSUME NEW t \in Threads, AdmitBelowFloor(t)
      PROVE  DataOK'
  <2>1. /\ TrackBySequence(pc[t].val, pc[t].at) /\ pc[t].val \in Messages /\ pc[t].at \in Nat
        /\ pc[t].val.node \in Nodes /\ pc[t].val.seq \in Nat
    BY <1>5, MessagesAssumption, SMTT(30) DEF TypeOK, Carries, ThreadState, AdmitBelowFloor
  <2>2. bySequence' \subseteq Messages /\ touched' \in [Seqs -> Nat]
    BY <2>1, TrackTyped
  <2> QED
    BY <1>5, <2>1, <2>2 DEF TypeOK, DataOK, AdmitBelowFloor, limitVars, gateVars, finalityVars,
       steeringVars
<1>6. ASSUME NEW t \in Threads, AdmitStored(t)
      PROVE  DataOK'
  <2> DEFINE m == pc[t].val
  <2>1. /\ TrackBySequence(m, pc[t].at) /\ m \in Messages /\ pc[t].at \in Nat
        /\ m.node \in Nodes /\ m.seq \in Nat /\ m.ledger \in Ledgers
    <3>1. TrackBySequence(m, pc[t].at) /\ m \in Messages
      BY <1>6 DEF TypeOK, Carries, AdmitStored
    <3>2. pc[t].at \in Nat
      BY DEF TypeOK, ThreadState
    <3>3. m.node \in Nodes /\ m.seq \in Nat /\ m.ledger \in Ledgers
      BY <3>1, MessageTyped
    <3> QED
      BY <3>1, <3>2, <3>3
  <2>2. bySequence' \subseteq Messages /\ touched' \in [Seqs -> Nat]
    BY <2>1, TrackTyped
  <2>3. KeyOf(m) \in Keys
    BY <2>1 DEF Keys, KeyOf
  <2>4. /\ validations' \subseteq Messages
        /\ lastAccess' \in [Ledgers -> Nat]
        /\ seqEnforcers' \in [Nodes -> [seq : Nat, when : Nat]]
        /\ byNode' \in [Nodes -> Messages \cup {NoVal}]
    BY <1>6, <2>1 DEF TypeOK, AdmitStored
  <2>5. trieTips' \in [Nodes -> Ledgers \cup {NoTip}] /\ acquiring' \subseteq Nodes \X Keys
    <3>1. CASE UNCHANGED steeringVars
      BY <3>1 DEF TypeOK, steeringVars
    <3>2. CASE UpdateTrie(t, m)
      <4>1. CASE m.node \notin config.trusted
        BY <3>2, <4>1 DEF TypeOK, UpdateTrie, steeringVars
      <4>2. CASE m.node \in config.trusted /\ pc[t].resolved /\ pc[t].same
        <5>1. \E S : trieTips' = [n \in Nodes |-> IF n \in S THEN m.ledger ELSE trieTips[n]]
          BY <3>2, <4>2 DEF UpdateTrie
        <5>2. acquiring' \subseteq acquiring
          BY <3>2, <4>2 DEF UpdateTrie
        <5> QED
          BY <2>1, <5>1, <5>2 DEF TypeOK
      <4>3. CASE m.node \in config.trusted /\ ~(pc[t].resolved /\ pc[t].same)
        <5>1. acquiring' \subseteq acquiring \cup {<<m.node, KeyOf(m)>>} /\ UNCHANGED trieTips
          BY <3>2, <4>3 DEF UpdateTrie
        <5>2. <<m.node, KeyOf(m)>> \in Nodes \X Keys
          BY <2>1, <2>3
        <5> QED
          BY <5>1, <5>2 DEF TypeOK
      <4> QED
        BY <4>1, <4>2, <4>3
    <3> QED
      BY <1>6, <3>1, <3>2 DEF AdmitStored
  <2>6. FinalityTyped'
    <3>1. CASE UNCHANGED finalityVars
      BY <3>1 DEF TypeOK, FinalityTyped, finalityVars
    <3>2. CASE CheckFullValidation({KeyOf(m)}, validations', config, quorumUnavailable,
                                   callbackSet)
      BY <2>3, <3>2, CheckFullTyped
    <3> QED
      BY <1>6, <3>1, <3>2 DEF AdmitStored
  <2> QED
    BY <1>6, <2>2, <2>4, <2>5, <2>6
       DEF TypeOK, DataOK, FinalityTyped, AdmitStored, limitVars, gateVars
<1>7. ASSUME NEW t \in Threads, NEW c \in Configs, RefreshConfig(t, c)
      PROVE  DataOK'
  <2>1. FinalityTyped'
    BY <1>7, CheckFullTyped, EvidenceTyped DEF RefreshConfig, UpdateConfig, RecheckFinality
  <2>2. c \in [trusted : SUBSET Nodes, quorum : Nat, negUNL : SUBSET Nodes]
    BY ConfigsAssumption
  <2>3. trieTips' \in [Nodes -> Ledgers \cup {NoTip}] /\ acquiring' \subseteq Nodes \X Keys
    BY <1>7, <2>2, RebuildTyped DEF TypeOK, RefreshConfig, UpdateConfig
  <2> QED
    BY <1>7, <2>1, <2>2, <2>3 DEF TypeOK, DataOK, FinalityTyped, RefreshConfig, UpdateConfig,
       admissionVars, limitVars, gateVars
<1>8. ASSUME NEW t \in Threads, NEW c \in Configs, RefreshConfigDeferred(t, c)
      PROVE  DataOK'
  <2>1. FinalityTyped'
    BY <1>8, CheckFullTyped, EvidenceTyped DEF RefreshConfigDeferred, UpdateConfig, RecheckFinality
  <2>2. c \in [trusted : SUBSET Nodes, quorum : Nat, negUNL : SUBSET Nodes]
    BY ConfigsAssumption
  <2>3. trieTips' \in [Nodes -> Ledgers \cup {NoTip}] /\ acquiring' \subseteq Nodes \X Keys
    BY <1>8, <2>2, RebuildTyped DEF TypeOK, RefreshConfigDeferred, UpdateConfig
  <2> QED
    BY <1>8, <2>1, <2>2, <2>3 DEF TypeOK, DataOK, FinalityTyped, RefreshConfigDeferred, UpdateConfig,
       admissionVars, limitVars, gateVars
<1>9. ASSUME NEW t \in Threads, NEW c \in Configs, SetNegativeUNL(t, c.negUNL)
      PROVE  DataOK'
  <2>1. FinalityTyped'
    BY <1>9, CheckFullTyped, EvidenceTyped DEF SetNegativeUNL, RecheckFinality
  <2>2. config' \in [trusted : SUBSET Nodes, quorum : Nat, negUNL : SUBSET Nodes]
    BY <1>9, ConfigsAssumption DEF TypeOK, SetNegativeUNL
  <2> QED
    BY <1>9, <2>1, <2>2 DEF TypeOK, DataOK, FinalityTyped, SetNegativeUNL, admissionVars,
       limitVars, gateVars, steeringVars
<1>10. ASSUME NEW t \in Threads, SetFullyValidatedCallback(t)
      PROVE  DataOK'
  <2>1. FinalityTyped'
    BY <1>10, CheckFullTyped, EvidenceTyped DEF SetFullyValidatedCallback, UpdateConfig, RecheckFinality
  <2> QED
    BY <1>10, <2>1 DEF TypeOK, DataOK, FinalityTyped, SetFullyValidatedCallback, admissionVars, limitVars, gateVars,
       steeringVars
<1>11. ASSUME CloseGate
      PROVE  DataOK'
  BY <1>11 DEF TypeOK, DataOK, CloseGate, admissionVars, limitVars, gateVars, finalityVars,
     steeringVars
<1>12. ASSUME NEW t \in Threads, OpenGate(t)
      PROVE  DataOK'
  BY <1>12 DEF TypeOK, DataOK, OpenGate, admissionVars, limitVars, gateVars, finalityVars,
     steeringVars
<1>13. ASSUME NEW t \in Threads, RecheckAfterOpen(t)
      PROVE  DataOK'
  <2>1. FinalityTyped'
    BY <1>13, CheckFullTyped, EvidenceTyped DEF RecheckAfterOpen, UpdateConfig, RecheckFinality
  <2> QED
    BY <1>13, <2>1 DEF TypeOK, DataOK, FinalityTyped, RecheckAfterOpen, admissionVars, limitVars, gateVars,
       steeringVars
<1>14. ASSUME NEW s \in SeqFloors, SetMinSeq(s)
      PROVE  DataOK'
  BY <1>14, WindowsAssumption DEF TypeOK, DataOK, SetMinSeq, admissionVars, limitVars, gateVars, finalityVars,
     steeringVars
<1>15. ASSUME NEW p \in Pins, SetSeqToKeep(p)
      PROVE  DataOK'
  BY <1>15, WindowsAssumption DEF TypeOK, DataOK, SetSeqToKeep, admissionVars, limitVars, gateVars, finalityVars,
     steeringVars
<1>16. ASSUME NEW l \in Ledgers, ReadValidations(l)
      PROVE  DataOK'
  BY <1>16 DEF TypeOK, DataOK, ReadValidations, Touched, limitVars, gateVars, finalityVars, steeringVars
<1>17. ASSUME FlushStale
      PROVE  DataOK'
  BY <1>17 DEF TypeOK, DataOK, FlushStale, DropCurrent, limitVars, gateVars, finalityVars
<1>18. ASSUME Flush
      PROVE  DataOK'
  BY <1>18, RebuildTyped DEF TypeOK, DataOK, Flush, limitVars, gateVars
<1>19. ASSUME NEW l \in Candidates, RecheckFullyValidated([ledger |-> l, seq |-> LedgerSeq[l]])
      PROVE  DataOK'
  <2> DEFINE k == [ledger |-> l, seq |-> LedgerSeq[l]]
  <2>1. k \in Keys
    BY MessagesAssumption DEF Keys
  <2>2. FinalityTyped'
    <3>1. CASE CancelFinality({k}) /\ UNCHANGED retainedQuorum
      BY <3>1 DEF TypeOK, FinalityTyped, CancelFinality
    <3>2. CASE UNCHANGED finalityVars
      BY <3>2 DEF TypeOK, FinalityTyped, finalityVars
    <3>3. CASE /\ fired' \subseteq fired \cup {k} /\ RetainQuorum({k})
               /\ UNCHANGED <<pendingFinality, pendingGeneration, delivered>>
      BY <2>1, <3>3, RetainUp DEF TypeOK, FinalityTyped
    <3> QED
      BY <1>19, <3>1, <3>2, <3>3 DEF RecheckFullyValidated
  <2> QED
    BY <1>19, <2>2 DEF TypeOK, DataOK, FinalityTyped, RecheckFullyValidated, Touched,
       limitVars, gateVars, steeringVars
<1>20. ASSUME NEW l \in Candidates, BeginPublication(l)
      PROVE  DataOK'
  BY <1>20, MessagesAssumption DEF TypeOK, DataOK, BeginPublication, Lease, admissionVars,
     limitVars, gateVars, finalityVars, steeringVars
<1>21. ASSUME ReleasePublication
      PROVE  DataOK'
  BY <1>21 DEF TypeOK, DataOK, ReleasePublication, Lease, NoLease, admissionVars, limitVars,
     gateVars, finalityVars, steeringVars
<1>22. ASSUME NEW t \in Threads, EndDeferral(t)
      PROVE  DataOK'
  BY <1>22 DEF TypeOK, DataOK, EndDeferral, admissionVars, limitVars, gateVars, finalityVars,
     steeringVars
<1>23. ASSUME NEW t \in Threads, DrainClaim(t)
      PROVE  DataOK'
  BY <1>23 DEF TypeOK, DataOK, DrainClaim, admissionVars, limitVars, gateVars, finalityVars,
     steeringVars
<1>24. ASSUME NEW t \in Threads, DrainStop(t)
      PROVE  DataOK'
  BY <1>24 DEF TypeOK, DataOK, DrainStop, admissionVars, limitVars, gateVars, finalityVars,
     steeringVars
<1>25. ASSUME NEW t \in Threads, DrainPop(t)
      PROVE  DataOK'
  BY <1>25, SMTT(30) DEF TypeOK, DataOK, DrainPop, admissionVars, limitVars, gateVars, finalityVars,
     steeringVars
<1>26. ASSUME NEW t \in Threads, NEW c \in Configs, CallbackRefresh(t, c)
      PROVE  DataOK'
  <2>1. FinalityTyped'
    BY <1>26, CheckFullTyped, EvidenceTyped DEF CallbackRefresh, UpdateConfig, RecheckFinality
  <2>2. c \in [trusted : SUBSET Nodes, quorum : Nat, negUNL : SUBSET Nodes]
    BY ConfigsAssumption
  <2>3. trieTips' \in [Nodes -> Ledgers \cup {NoTip}] /\ acquiring' \subseteq Nodes \X Keys
    BY <1>26, <2>2, RebuildTyped DEF TypeOK, CallbackRefresh, UpdateConfig
  <2> QED
    BY <1>26, <2>1, <2>2, <2>3 DEF TypeOK, DataOK, FinalityTyped, CallbackRefresh, UpdateConfig,
       admissionVars, limitVars, gateVars
<1>27. ASSUME NEW t \in Threads, CallbackExpire(t)
      PROVE  DataOK'
  BY <1>27 DEF TypeOK, DataOK, CallbackExpire, ExpireOld, DropCurrent, CancelFinality, limitVars,
     gateVars, finalityVars, steeringVars
<1>28. ASSUME Tick
      PROVE  DataOK'
  BY <1>28, SMTT(30) DEF TypeOK, DataOK, Tick, admissionVars, limitVars, gateVars, finalityVars,
     steeringVars
<1>29. ASSUME NEW l \in Ledgers, Acquire(l)
      PROVE  DataOK'
  BY <1>29 DEF TypeOK, DataOK, Acquire, admissionVars, limitVars, gateVars, finalityVars,
     steeringVars
<1>30. CASE UNCHANGED vars
  BY <1>30 DEF TypeOK, DataOK, vars, admissionVars, limitVars, gateVars, finalityVars,
     steeringVars
<1> QED
  BY <1>1, <1>2, <1>3, <1>4, <1>5, <1>6, <1>7, <1>8, <1>9, <1>10, <1>11,
     <1>12, <1>13, <1>14, <1>15, <1>16, <1>17, <1>18, <1>19, <1>20, <1>21,
     <1>22, <1>23, <1>24, <1>25, <1>26, <1>27, <1>28, <1>29, <1>30 DEF Next,
     ThreadStep, Call, Atomic, Admit

PcOK == pc \in [Threads -> ThreadState] /\ \A t \in Threads : Carries(pc[t])

\* Every thread is well-formed.
LEMMA ThreadOK ==
    ASSUME TypeOK
    PROVE  \A t \in Threads : pc[t] \in ThreadState /\ Carries(pc[t])
BY DEF TypeOK

\* A step of one thread to a well-formed state keeps all threads well-formed.
LEMMA GotoOK ==
    ASSUME TypeOK, NEW t \in Threads, NEW r \in ThreadState, Carries(r), Goto(t, r)
    PROVE  PcOK'
BY DEF TypeOK, PcOK, Goto

\* So does a step that also invalidates the other threads' trie snapshots.
LEMMA RebuiltOK ==
    ASSUME TypeOK, NEW t \in Threads, NEW r \in ThreadState, Carries(r), RebuiltTo(t, r)
    PROVE  PcOK'
<1>1. \A u \in Threads : /\ [pc[u] EXCEPT !.same = FALSE] \in ThreadState
                         /\ Carries([pc[u] EXCEPT !.same = FALSE])
  BY ThreadOK DEF ThreadState, Carries
<1> QED
  BY <1>1 DEF PcOK, RebuiltTo

\* Idle threads, and threads returning from the drainer, are well-formed.
LEMMA IdleOK ==
    Idle \in ThreadState /\ Carries(Idle)
BY DEF Idle, ThreadState, Carries, Steps, NoKey

\* A thread that returns goes idle or polls for acquired ledgers.
LEMMA ReturnOK ==
    ASSUME TypeOK, NEW t \in Threads
    PROVE  Return(t) \in ThreadState /\ Carries(Return(t))
BY ThreadOK DEF Return, Idle, ThreadState, Carries, Steps, NoKey

\* Resolved keys are parked keys.
LEMMA ResolvedTyped ==
    ASSUME NEW parked \in SUBSET (Nodes \X Keys)
    PROVE  ResolvedKeys(parked) \subseteq Keys
BY DEF ResolvedKeys

\* Every critical section keeps the threads well-formed.
LEMMA PcStep ==
    ASSUME TypeOK, [Next]_vars
    PROVE  PcOK'
<1>1. ASSUME NEW t \in Threads, CheckAcquired(t)
      PROVE  PcOK'
  <2> DEFINE r == [Idle EXCEPT !.step = "acquired", !.same = TRUE,
                             !.keys = ResolvedKeys(acquiring)]
  <2>1. ResolvedKeys(acquiring) \subseteq Keys
    BY ResolvedTyped DEF TypeOK
  <2>2. r \in ThreadState /\ Carries(r)
    BY <2>1 DEF TypeOK, ThreadState, Carries, Idle, Steps, NoKey
  <2> HIDE DEF r
  <2> QED
    BY <1>1, <2>2, IdleOK, GotoOK DEF CheckAcquired, r
<1>2. ASSUME NEW t \in Threads, ApplyAcquired(t)
      PROVE  PcOK'
  <2> DEFINE r1 == [pc[t] EXCEPT !.step = "admit", !.keys = {}, !.same = TRUE,
                              !.resolved = Resolvable(KeyOf(pc[t].val))]
             r2 == [Idle EXCEPT !.step = "expire", !.key = pc[t].key,
                                !.after = pc[t].after]
  <2>1. CASE pc[t].then = "admit"
    <3>1. Resolvable(KeyOf(pc[t].val)) \in BOOLEAN
      BY DEF Resolvable
    <3>2. r1 \in ThreadState /\ Carries(r1)
      BY <2>1, <3>1, ThreadOK DEF ThreadState, Carries, Steps
    <3> HIDE DEF r1
    <3> QED
      BY <1>2, <2>1, <3>2, GotoOK DEF ApplyAcquired, r1
  <2>2. CASE pc[t].then = "expire"
    <3>1. r2 \in ThreadState /\ Carries(r2)
      BY <2>2, ThreadOK DEF ThreadState, Carries, Idle, Steps
    <3> HIDE DEF r2
    <3> QED
      BY <1>2, <2>2, <3>1, GotoOK DEF ApplyAcquired, r2
  <2>3. CASE pc[t].then = "idle"
    BY <1>2, <2>3, IdleOK, GotoOK DEF ApplyAcquired
  <2> QED
    BY <2>1, <2>2, <2>3 DEF TypeOK, ThreadState
<1>3. ASSUME NEW t \in Threads, NEW m \in Messages, NEW engine \in BOOLEAN, AddBegin(t, m, engine)
      PROVE  PcOK'
  <2> DEFINE r == IF IsCurrent(now, m)
                   THEN [Idle EXCEPT !.step = "acquired", !.then = "admit", !.val = m,
                                     !.at = now, !.same = TRUE,
                                     !.keys = ResolvedKeys(acquiring)]
                   ELSE [Idle EXCEPT !.step = "end"]
  <2>1. ResolvedKeys(acquiring) \subseteq Keys
    BY ResolvedTyped DEF TypeOK
  <2>2. r \in ThreadState /\ Carries(r)
    BY <2>1 DEF TypeOK, ThreadState, Carries, Idle, Steps, NoKey
  <2> HIDE DEF r
  <2> QED
    BY <1>3, <2>2, GotoOK DEF AddBegin, r
<1>4. ASSUME NEW t \in Threads, AdmitRejected(t)
      PROVE  PcOK'
  <2> DEFINE r == Leave(t)
  <2>1. r \in ThreadState /\ Carries(r)
    BY DEF ThreadState, Carries, Idle, Steps, NoKey, Leave
  <2> HIDE DEF r
  <2> QED
    BY <1>4, <2>1, GotoOK DEF AdmitRejected, r
<1>5. ASSUME NEW t \in Threads, AdmitBelowFloor(t)
      PROVE  PcOK'
  <2> DEFINE r == Leave(t)
  <2>1. r \in ThreadState /\ Carries(r)
    BY DEF ThreadState, Carries, Idle, Steps, NoKey, Leave
  <2> HIDE DEF r
  <2> QED
    BY <1>5, <2>1, GotoOK DEF AdmitBelowFloor, r
<1>6. ASSUME NEW t \in Threads, AdmitStored(t)
      PROVE  PcOK'
  <2> DEFINE r == Leave(t)
  <2>1. r \in ThreadState /\ Carries(r)
    BY DEF ThreadState, Carries, Idle, Steps, NoKey, Leave
  <2> HIDE DEF r
  <2> QED
    BY <1>6, <2>1, GotoOK DEF AdmitStored, r
<1>7. ASSUME NEW t \in Threads, NEW c \in Configs, RefreshConfig(t, c)
      PROVE  PcOK'
  <2> DEFINE r == [Idle EXCEPT !.step = "drain", !.after = "acquire"]
  <2>1. r \in ThreadState /\ Carries(r)
    BY ThreadOK DEF ThreadState, Carries, Idle, Steps, NoKey
  <2> HIDE DEF r
  <2> QED
    BY <1>7, <2>1, RebuiltOK DEF RefreshConfig, r
<1>8. ASSUME NEW t \in Threads, NEW c \in Configs, RefreshConfigDeferred(t, c)
      PROVE  PcOK'
  <2> DEFINE r == [Idle EXCEPT !.step = "end", !.after = "acquire"]
  <2>1. r \in ThreadState /\ Carries(r)
    BY ThreadOK DEF ThreadState, Carries, Idle, Steps, NoKey
  <2> HIDE DEF r
  <2> QED
    BY <1>8, <2>1, RebuiltOK DEF RefreshConfigDeferred, r
<1>9. ASSUME NEW t \in Threads, NEW c \in Configs, SetNegativeUNL(t, c.negUNL)
      PROVE  PcOK'
  <2> DEFINE r == [Idle EXCEPT !.step = "drain"]
  <2>1. r \in ThreadState /\ Carries(r)
    BY ThreadOK DEF ThreadState, Carries, Idle, Steps, NoKey
  <2> HIDE DEF r
  <2> QED
    BY <1>9, <2>1, GotoOK DEF SetNegativeUNL, r
<1>10. ASSUME NEW t \in Threads, SetFullyValidatedCallback(t)
      PROVE  PcOK'
  <2> DEFINE r == [Idle EXCEPT !.step = "drain"]
  <2>1. r \in ThreadState /\ Carries(r)
    BY ThreadOK DEF ThreadState, Carries, Idle, Steps, NoKey
  <2> HIDE DEF r
  <2> QED
    BY <1>10, <2>1, GotoOK DEF SetFullyValidatedCallback, r
<1>11. ASSUME CloseGate
      PROVE  PcOK'
  BY <1>11 DEF TypeOK, PcOK, CloseGate
<1>12. ASSUME NEW t \in Threads, OpenGate(t)
      PROVE  PcOK'
  <2> DEFINE r == [Idle EXCEPT !.step = "recheck"]
  <2>1. r \in ThreadState /\ Carries(r)
    BY ThreadOK DEF ThreadState, Carries, Idle, Steps, NoKey
  <2> HIDE DEF r
  <2> QED
    BY <1>12, <2>1, GotoOK DEF OpenGate, r
<1>13. ASSUME NEW t \in Threads, RecheckAfterOpen(t)
      PROVE  PcOK'
  <2> DEFINE r == [Idle EXCEPT !.step = "drain"]
  <2>1. r \in ThreadState /\ Carries(r)
    BY ThreadOK DEF ThreadState, Carries, Idle, Steps, NoKey
  <2> HIDE DEF r
  <2> QED
    BY <1>13, <2>1, GotoOK DEF RecheckAfterOpen, r
<1>14. ASSUME NEW s \in SeqFloors, SetMinSeq(s)
      PROVE  PcOK'
  BY <1>14 DEF TypeOK, PcOK, SetMinSeq
<1>15. ASSUME NEW p \in Pins, SetSeqToKeep(p)
      PROVE  PcOK'
  BY <1>15 DEF TypeOK, PcOK, SetSeqToKeep
<1>16. ASSUME NEW l \in Ledgers, ReadValidations(l)
      PROVE  PcOK'
  BY <1>16 DEF TypeOK, PcOK, ReadValidations
<1>17. ASSUME FlushStale
      PROVE  PcOK'
  BY <1>17 DEF TypeOK, PcOK, FlushStale
<1>18. ASSUME Flush
      PROVE  PcOK'
  <2>1. \A u \in Threads : /\ [pc[u] EXCEPT !.same = FALSE] \in ThreadState
                           /\ Carries([pc[u] EXCEPT !.same = FALSE])
    BY ThreadOK DEF ThreadState, Carries
  <2> QED
    BY <1>18, <2>1 DEF PcOK, Flush
<1>19. ASSUME NEW l \in Candidates, RecheckFullyValidated([ledger |-> l, seq |-> LedgerSeq[l]])
      PROVE  PcOK'
  BY <1>19 DEF TypeOK, PcOK, RecheckFullyValidated
<1>20. ASSUME NEW l \in Candidates, BeginPublication(l)
      PROVE  PcOK'
  BY <1>20 DEF TypeOK, PcOK, BeginPublication
<1>21. ASSUME ReleasePublication
      PROVE  PcOK'
  BY <1>21 DEF TypeOK, PcOK, ReleasePublication
<1>22. ASSUME NEW t \in Threads, EndDeferral(t)
      PROVE  PcOK'
  <2> DEFINE r == [pc[t] EXCEPT !.step = "drain"]
  <2>1. r \in ThreadState /\ Carries(r)
    BY ThreadOK DEF ThreadState, Carries, Steps
  <2> HIDE DEF r
  <2> QED
    BY <1>22, <2>1, ReturnOK, GotoOK DEF EndDeferral, r
<1>23. ASSUME NEW t \in Threads, DrainClaim(t)
      PROVE  PcOK'
  <2> DEFINE r == [pc[t] EXCEPT !.step = "loop"]
  <2>1. r \in ThreadState /\ Carries(r)
    BY ThreadOK DEF ThreadState, Carries, Steps
  <2> HIDE DEF r
  <2> QED
    BY <1>23, <2>1, ReturnOK, GotoOK DEF DrainClaim, r
<1>24. ASSUME NEW t \in Threads, DrainStop(t)
      PROVE  PcOK'
  BY <1>24, ReturnOK, GotoOK DEF DrainStop
<1>25. ASSUME NEW t \in Threads, DrainPop(t)
      PROVE  PcOK'
  <2>1. CASE UNCHANGED pc
    BY <2>1 DEF TypeOK, PcOK
  <2>2. CASE \E k \in pendingFinality :
                Goto(t, [pc[t] EXCEPT !.step = "callback", !.key = k])
    <3>1. PICK k \in pendingFinality :
              Goto(t, [pc[t] EXCEPT !.step = "callback", !.key = k])
      BY <2>2
    <3> DEFINE r == [pc[t] EXCEPT !.step = "callback", !.key = k]
    <3>2. k \in Keys
      BY DEF TypeOK
    <3>3. r \in ThreadState /\ Carries(r)
      BY <3>2, ThreadOK DEF ThreadState, Carries, Steps
    <3> HIDE DEF r
    <3> QED
      BY <3>1, <3>3, GotoOK DEF r
  <2> QED
    BY <1>25, <2>1, <2>2 DEF DrainPop
<1>26. ASSUME NEW t \in Threads, NEW c \in Configs, CallbackRefresh(t, c)
      PROVE  PcOK'
  <2> DEFINE r == [pc[t] EXCEPT !.step = "acquired", !.then = "expire",
                            !.same = TRUE, !.keys = ResolvedKeys(acquiring')]
  <2>1. ResolvedKeys(acquiring') \subseteq Keys
    BY ResolvedTyped, DataStep DEF DataOK
  <2>2. r \in ThreadState /\ Carries(r)
    <3>1. pc[t] \in ThreadState /\ pc[t].key \in Keys
      BY <1>26 DEF TypeOK, Carries, CallbackRefresh
    <3> QED
      BY <2>1, <3>1 DEF ThreadState, Carries, Steps
  <2> HIDE DEF r
  <2> QED
    BY <1>26, <2>2, RebuiltOK DEF CallbackRefresh, r
<1>27. ASSUME NEW t \in Threads, CallbackExpire(t)
      PROVE  PcOK'
  <2> DEFINE r == [Idle EXCEPT !.step = "loop", !.after = pc[t].after]
  <2>1. r \in ThreadState /\ Carries(r)
    BY ThreadOK DEF ThreadState, Carries, Idle, Steps, NoKey
  <2> HIDE DEF r
  <2> QED
    BY <1>27, <2>1, GotoOK DEF CallbackExpire, r
<1>28. ASSUME Tick
      PROVE  PcOK'
  BY <1>28 DEF TypeOK, PcOK, Tick
<1>29. ASSUME NEW l \in Ledgers, Acquire(l)
      PROVE  PcOK'
  BY <1>29 DEF TypeOK, PcOK, Acquire
<1>30. CASE UNCHANGED vars
  BY <1>30 DEF TypeOK, PcOK, vars
<1> QED
  BY <1>1, <1>2, <1>3, <1>4, <1>5, <1>6, <1>7, <1>8, <1>9, <1>10, <1>11,
     <1>12, <1>13, <1>14, <1>15, <1>16, <1>17, <1>18, <1>19, <1>20, <1>21,
     <1>22, <1>23, <1>24, <1>25, <1>26, <1>27, <1>28, <1>29, <1>30 DEF Next,
     ThreadStep, Call, Atomic, Admit

\* The initial state is well-typed.
LEMMA TypeInit ==
    ASSUME Init
    PROVE  TypeOK
<1>1. pc \in [Threads -> ThreadState] /\ \A t \in Threads : Carries(pc[t])
  BY IdleOK DEF Init
<1> QED
  BY <1>1, ConfigsAssumption, WindowsAssumption DEF Init, TypeOK, Lease, NoLease

\* Type correctness: no interleaving of admissions, configuration changes,
\* rechecks, publications, callbacks and expiry leaves the tracker ill-typed.
THEOREM TypeCorrect == Spec => []TypeOK
<1>1. Init => TypeOK
  BY TypeInit
<1>2. TypeOK /\ [Next]_vars => TypeOK'
  <2> SUFFICES ASSUME TypeOK, [Next]_vars
               PROVE  TypeOK'
    OBVIOUS
  <2>1. DataOK' /\ PcOK'
    BY DataStep, PcStep
  <2> QED
    BY <2>1 DEF TypeOK, DataOK, PcOK
<1> QED
  BY <1>1, <1>2, PTL DEF Spec

(* The notification queue: ReportedOnce is inductive once it is known that    *)
(* nothing is marked before a callback is installed.                          *)
ReportedInv == ReportedOnce /\ (callbackSet \/ fired = {})

\* A recheck of any keys keeps the queue consistent (checkFullValidationLocked).
LEMMA CheckFullReported ==
    ASSUME ReportedInv, NEW K, NEW vals, NEW cfg, NEW unavailable \in BOOLEAN,
           NEW callback \in BOOLEAN, callbackSet => callback, callbackSet' = callback,
           CheckFullValidation(K, vals, cfg, unavailable, callback)
    PROVE  ReportedInv'
<1> DEFINE Full == {k \in K : HasQuorum(vals, cfg, k)}
           Cancelled == (K \ Full) \cup (IF unavailable THEN Full \cap pendingGeneration ELSE {})
           Promoted == IF unavailable \/ ~callback THEN {} ELSE Full \ fired
<1>1. /\ fired' = (fired \ Cancelled) \cup Promoted
      /\ pendingFinality' = (pendingFinality \ Cancelled) \cup (Promoted \ pendingGeneration)
      /\ pendingGeneration' = (pendingGeneration \ Cancelled) \cup Promoted
      /\ delivered' = delivered \ Cancelled
  BY DEF CheckFullValidation
<1>2. Promoted \cap fired = {} /\ (callback \/ Promoted = {})
  OBVIOUS
<1> HIDE DEF Full, Cancelled, Promoted
<1> QED
  BY <1>1, <1>2 DEF ReportedInv, ReportedOnce

\* Withdrawing any keys keeps the queue consistent (cancelFinalityLocked).
LEMMA CancelReported ==
    ASSUME ReportedInv, NEW K, CancelFinality(K), UNCHANGED callbackSet
    PROVE  ReportedInv'
BY DEF ReportedInv, ReportedOnce, CancelFinality

\* Every critical section keeps the queue, the markers and the reports consistent.
LEMMA ReportedStep ==
    ASSUME TypeOK, ReportedInv, [Next]_vars
    PROVE  ReportedInv'
<1>1. ASSUME NEW t \in Threads, CheckAcquired(t)
      PROVE  ReportedInv'
  BY <1>1 DEF ReportedInv, ReportedOnce, CheckAcquired, finalityVars, gateVars
<1>2. ASSUME NEW t \in Threads, ApplyAcquired(t)
      PROVE  ReportedInv'
  BY <1>2 DEF ReportedInv, ReportedOnce, ApplyAcquired, finalityVars, gateVars
<1>3. ASSUME NEW t \in Threads, NEW m \in Messages, NEW engine \in BOOLEAN, AddBegin(t, m, engine)
      PROVE  ReportedInv'
  BY <1>3 DEF ReportedInv, ReportedOnce, AddBegin, finalityVars, gateVars
<1>4. ASSUME NEW t \in Threads, AdmitRejected(t)
      PROVE  ReportedInv'
  BY <1>4 DEF ReportedInv, ReportedOnce, AdmitRejected, finalityVars, gateVars
<1>5. ASSUME NEW t \in Threads, AdmitBelowFloor(t)
      PROVE  ReportedInv'
  BY <1>5 DEF ReportedInv, ReportedOnce, AdmitBelowFloor, finalityVars, gateVars
<1>6. ASSUME NEW t \in Threads, AdmitStored(t)
      PROVE  ReportedInv'
  <2>1. UNCHANGED callbackSet /\ quorumUnavailable \in BOOLEAN /\ callbackSet \in BOOLEAN
    BY <1>6 DEF TypeOK, AdmitStored, gateVars
  <2>2. CASE UNCHANGED finalityVars
    BY <2>1, <2>2 DEF ReportedInv, ReportedOnce, finalityVars
  <2>3. CASE CheckFullValidation({KeyOf(pc[t].val)}, validations', config,
                                 quorumUnavailable, callbackSet)
    BY <2>1, <2>3, CheckFullReported
  <2> QED
    BY <1>6, <2>2, <2>3 DEF AdmitStored
<1>7. ASSUME NEW t \in Threads, NEW c \in Configs, RefreshConfig(t, c)
      PROVE  ReportedInv'
  BY <1>7, CheckFullReported, SMTT(30) DEF TypeOK, RefreshConfig, UpdateConfig, RecheckFinality, gateVars
<1>8. ASSUME NEW t \in Threads, NEW c \in Configs, RefreshConfigDeferred(t, c)
      PROVE  ReportedInv'
  BY <1>8, CheckFullReported, SMTT(30) DEF TypeOK, RefreshConfigDeferred, UpdateConfig, RecheckFinality, gateVars
<1>9. ASSUME NEW t \in Threads, NEW c \in Configs, SetNegativeUNL(t, c.negUNL)
      PROVE  ReportedInv'
  BY <1>9, CheckFullReported, SMTT(30) DEF TypeOK, SetNegativeUNL, UpdateConfig, RecheckFinality, gateVars
<1>10. ASSUME NEW t \in Threads, SetFullyValidatedCallback(t)
      PROVE  ReportedInv'
  <2>1. callbackSet' = TRUE /\ callbackSet' \in BOOLEAN
    BY <1>10 DEF SetFullyValidatedCallback
  <2>2. CheckFullValidation(EvidenceKeys(validations), validations, config,
                            quorumUnavailable, callbackSet')
    BY <1>10 DEF SetFullyValidatedCallback
  <2>3. quorumUnavailable \in BOOLEAN
    BY DEF TypeOK
  <2>4. callbackSet => callbackSet'
    BY <2>1
  <2> QED
    BY <2>1, <2>2, <2>3, <2>4, CheckFullReported
<1>11. ASSUME CloseGate
      PROVE  ReportedInv'
  BY <1>11 DEF ReportedInv, ReportedOnce, CloseGate, finalityVars, gateVars
<1>12. ASSUME NEW t \in Threads, OpenGate(t)
      PROVE  ReportedInv'
  BY <1>12 DEF ReportedInv, ReportedOnce, OpenGate, finalityVars, gateVars
<1>13. ASSUME NEW t \in Threads, RecheckAfterOpen(t)
      PROVE  ReportedInv'
  BY <1>13, CheckFullReported, SMTT(30) DEF TypeOK, RecheckAfterOpen, UpdateConfig, RecheckFinality, gateVars
<1>14. ASSUME NEW s \in SeqFloors, SetMinSeq(s)
      PROVE  ReportedInv'
  BY <1>14 DEF ReportedInv, ReportedOnce, SetMinSeq, finalityVars, gateVars
<1>15. ASSUME NEW p \in Pins, SetSeqToKeep(p)
      PROVE  ReportedInv'
  BY <1>15 DEF ReportedInv, ReportedOnce, SetSeqToKeep, finalityVars, gateVars
<1>16. ASSUME NEW l \in Ledgers, ReadValidations(l)
      PROVE  ReportedInv'
  BY <1>16 DEF ReportedInv, ReportedOnce, ReadValidations, finalityVars, gateVars
<1>17. ASSUME FlushStale
      PROVE  ReportedInv'
  BY <1>17 DEF ReportedInv, ReportedOnce, FlushStale, finalityVars, gateVars
<1>18. ASSUME Flush
      PROVE  ReportedInv'
  BY <1>18 DEF Flush, ReportedInv, ReportedOnce
<1>19. ASSUME NEW l \in Candidates, RecheckFullyValidated([ledger |-> l, seq |-> LedgerSeq[l]])
      PROVE  ReportedInv'
  BY <1>19, CancelReported DEF RecheckFullyValidated, ReportedInv, ReportedOnce,
     finalityVars, gateVars
<1>20. ASSUME NEW l \in Candidates, BeginPublication(l)
      PROVE  ReportedInv'
  BY <1>20 DEF ReportedInv, ReportedOnce, BeginPublication, finalityVars, gateVars
<1>21. ASSUME ReleasePublication
      PROVE  ReportedInv'
  BY <1>21 DEF ReportedInv, ReportedOnce, ReleasePublication, finalityVars, gateVars
<1>22. ASSUME NEW t \in Threads, EndDeferral(t)
      PROVE  ReportedInv'
  BY <1>22 DEF ReportedInv, ReportedOnce, EndDeferral, finalityVars, gateVars
<1>23. ASSUME NEW t \in Threads, DrainClaim(t)
      PROVE  ReportedInv'
  BY <1>23 DEF ReportedInv, ReportedOnce, DrainClaim, finalityVars, gateVars
<1>24. ASSUME NEW t \in Threads, DrainStop(t)
      PROVE  ReportedInv'
  BY <1>24 DEF ReportedInv, ReportedOnce, DrainStop, finalityVars, gateVars
<1>25. ASSUME NEW t \in Threads, DrainPop(t)
      PROVE  ReportedInv'
  BY <1>25 DEF ReportedInv, ReportedOnce, DrainPop, finalityVars, gateVars
<1>26. ASSUME NEW t \in Threads, NEW c \in Configs, CallbackRefresh(t, c)
      PROVE  ReportedInv'
  BY <1>26, CheckFullReported, SMTT(30) DEF TypeOK, CallbackRefresh, UpdateConfig, RecheckFinality, gateVars
<1>27. ASSUME NEW t \in Threads, CallbackExpire(t)
      PROVE  ReportedInv'
  BY <1>27, CancelReported DEF CallbackExpire, ExpireOld, ReportedInv, ReportedOnce,
     finalityVars, gateVars
<1>28. ASSUME Tick
      PROVE  ReportedInv'
  BY <1>28 DEF ReportedInv, ReportedOnce, Tick, finalityVars, gateVars
<1>29. ASSUME NEW l \in Ledgers, Acquire(l)
      PROVE  ReportedInv'
  BY <1>29 DEF ReportedInv, ReportedOnce, Acquire, finalityVars, gateVars
<1>30. CASE UNCHANGED vars
  BY <1>30 DEF ReportedInv, ReportedOnce, vars, finalityVars, gateVars
<1> QED
  BY <1>1, <1>2, <1>3, <1>4, <1>5, <1>6, <1>7, <1>8, <1>9, <1>10, <1>11,
     <1>12, <1>13, <1>14, <1>15, <1>16, <1>17, <1>18, <1>19, <1>20, <1>21,
     <1>22, <1>23, <1>24, <1>25, <1>26, <1>27, <1>28, <1>29, <1>30 DEF Next,
     ThreadStep, Call, Atomic, Admit

\* Only the thread that takes a step moves.
LEMMA GotoEffect ==
    ASSUME TypeOK, NEW t \in Threads, NEW r, Goto(t, r)
    PROVE  pc'[t] = r /\ \A u \in Threads \ {t} : pc'[u] = pc[u]
BY DEF TypeOK, Goto

(* The drainer.  DrainResponsible is inductive: the role is taken only when it *)
(* is free, and given up only when the queue is empty or a deferral is open.   *)

\* Every critical section leaves someone responsible for a queued notification.
LEMMA DrainStep ==
    ASSUME TypeOK, DrainResponsible, [Next]_vars
    PROVE  DrainResponsible'
<1>1. ASSUME NEW t \in Threads, CheckAcquired(t)
      PROVE  DrainResponsible'
  <2>1. /\ ~Draining(t) /\ pc[t].step # "drain"
        /\ pc'[t].step \in {"idle", "acquired"} /\ pc'[t].then = "idle"
        /\ \A u \in Threads \ {t} : pc'[u] = pc[u]
    <3>1. CASE ResolvedKeys(acquiring) = {}
      BY <1>1, <3>1, GotoEffect, SMTT(30) DEF CheckAcquired, Idle, Draining
    <3>2. CASE ResolvedKeys(acquiring) # {}
      <4> DEFINE r == [Idle EXCEPT !.step = "acquired", !.same = TRUE,
                                   !.keys = ResolvedKeys(acquiring)]
      <4>1. pc'[t] = r /\ \A u \in Threads \ {t} : pc'[u] = pc[u]
        BY <1>1, <3>2, GotoEffect DEF CheckAcquired
      <4>2. r.step = "acquired" /\ r.then = "idle"
        BY DEF Idle
      <4> QED
        BY <1>1, <4>1, <4>2 DEF CheckAcquired, Draining
    <3> QED
      BY <3>1, <3>2
  <2>2. \A u \in Threads : /\ Draining(u)' <=> Draining(u)
                           /\ pc'[u].step = "drain" <=> pc[u].step = "drain"
    BY <2>1 DEF Draining
  <2> QED
    BY <1>1, <2>2 DEF DrainResponsible, CheckAcquired, finalityVars
<1>2. ASSUME NEW t \in Threads, ApplyAcquired(t)
      PROVE  DrainResponsible'
  BY <1>2, SMTT(30) DEF TypeOK, DrainResponsible, Draining, ApplyAcquired, Goto, RebuiltTo,
     Return, Leave, Idle, ThreadState, finalityVars, UpdateConfig, CancelFinality,
     ExpireOld
<1>3. ASSUME NEW t \in Threads, NEW m \in Messages, NEW engine \in BOOLEAN, AddBegin(t, m, engine)
      PROVE  DrainResponsible'
  BY <1>3, SMTT(30) DEF TypeOK, DrainResponsible, Draining, AddBegin, Goto, RebuiltTo,
     Return, Leave, Idle, ThreadState, finalityVars, UpdateConfig, CancelFinality,
     ExpireOld
<1>4. ASSUME NEW t \in Threads, AdmitRejected(t)
      PROVE  DrainResponsible'
  BY <1>4, SMTT(30) DEF TypeOK, DrainResponsible, Draining, AdmitRejected, Goto, RebuiltTo,
     Return, Leave, Idle, ThreadState, finalityVars, UpdateConfig, CancelFinality,
     ExpireOld
<1>5. ASSUME NEW t \in Threads, AdmitBelowFloor(t)
      PROVE  DrainResponsible'
  BY <1>5, SMTT(30) DEF TypeOK, DrainResponsible, Draining, AdmitBelowFloor, Goto, RebuiltTo,
     Return, Leave, Idle, ThreadState, finalityVars, UpdateConfig, CancelFinality,
     ExpireOld
<1>6. ASSUME NEW t \in Threads, AdmitStored(t)
      PROVE  DrainResponsible'
  BY <1>6, SMTT(30) DEF TypeOK, DrainResponsible, Draining, AdmitStored, Goto, RebuiltTo,
     Return, Leave, Idle, ThreadState, finalityVars, UpdateConfig, CancelFinality,
     ExpireOld
<1>7. ASSUME NEW t \in Threads, NEW c \in Configs, RefreshConfig(t, c)
      PROVE  DrainResponsible'
  BY <1>7, SMTT(30) DEF TypeOK, DrainResponsible, Draining, RefreshConfig, Goto, RebuiltTo,
     Return, Leave, Idle, ThreadState, finalityVars, UpdateConfig, CancelFinality,
     ExpireOld
<1>8. ASSUME NEW t \in Threads, NEW c \in Configs, RefreshConfigDeferred(t, c)
      PROVE  DrainResponsible'
  BY <1>8, SMTT(30) DEF TypeOK, DrainResponsible, Draining, RefreshConfigDeferred, Goto, RebuiltTo,
     Return, Leave, Idle, ThreadState, finalityVars, UpdateConfig, CancelFinality,
     ExpireOld
<1>9. ASSUME NEW t \in Threads, NEW c \in Configs, SetNegativeUNL(t, c.negUNL)
      PROVE  DrainResponsible'
  BY <1>9, SMTT(30) DEF TypeOK, DrainResponsible, Draining, SetNegativeUNL, Goto, RebuiltTo,
     Return, Leave, Idle, ThreadState, finalityVars, UpdateConfig, CancelFinality,
     ExpireOld
<1>10. ASSUME NEW t \in Threads, SetFullyValidatedCallback(t)
      PROVE  DrainResponsible'
  BY <1>10, SMTT(30) DEF TypeOK, DrainResponsible, Draining, SetFullyValidatedCallback, Goto, RebuiltTo,
     Return, Leave, Idle, ThreadState, finalityVars, UpdateConfig, CancelFinality,
     ExpireOld
<1>11. ASSUME CloseGate
      PROVE  DrainResponsible'
  BY <1>11 DEF DrainResponsible, Draining, CloseGate, finalityVars
<1>12. ASSUME NEW t \in Threads, OpenGate(t)
      PROVE  DrainResponsible'
  BY <1>12, SMTT(30) DEF TypeOK, DrainResponsible, Draining, OpenGate, Goto, RebuiltTo,
     Return, Leave, Idle, ThreadState, finalityVars, UpdateConfig, CancelFinality,
     ExpireOld
<1>13. ASSUME NEW t \in Threads, RecheckAfterOpen(t)
      PROVE  DrainResponsible'
  BY <1>13, SMTT(30) DEF TypeOK, DrainResponsible, Draining, RecheckAfterOpen, Goto, RebuiltTo,
     Return, Leave, Idle, ThreadState, finalityVars, UpdateConfig, CancelFinality,
     ExpireOld
<1>14. ASSUME NEW s \in SeqFloors, SetMinSeq(s)
      PROVE  DrainResponsible'
  BY <1>14 DEF DrainResponsible, Draining, SetMinSeq, finalityVars
<1>15. ASSUME NEW p \in Pins, SetSeqToKeep(p)
      PROVE  DrainResponsible'
  BY <1>15 DEF DrainResponsible, Draining, SetSeqToKeep, finalityVars
<1>16. ASSUME NEW l \in Ledgers, ReadValidations(l)
      PROVE  DrainResponsible'
  BY <1>16 DEF DrainResponsible, Draining, ReadValidations, finalityVars
<1>17. ASSUME FlushStale
      PROVE  DrainResponsible'
  BY <1>17 DEF DrainResponsible, Draining, FlushStale, finalityVars
<1>18. ASSUME Flush
      PROVE  DrainResponsible'
  <2>1. \A u \in Threads : pc'[u].step = pc[u].step /\ pc'[u].then = pc[u].then
    BY <1>18, SMTT(30) DEF TypeOK, ThreadState, Flush
  <2>2. \A u \in Threads : Draining(u)' <=> Draining(u)
    BY <2>1 DEF Draining
  <2> QED
    BY <1>18, <2>2 DEF DrainResponsible, Flush
<1>19. ASSUME NEW l \in Candidates, RecheckFullyValidated([ledger |-> l, seq |-> LedgerSeq[l]])
      PROVE  DrainResponsible'
  <2>1. pendingFinality' \subseteq pendingFinality
    BY <1>19 DEF RecheckFullyValidated, CancelFinality, finalityVars
  <2>2. UNCHANGED <<dispatching, deferring, pc>>
    BY <1>19 DEF RecheckFullyValidated
  <2> QED
    BY <2>1, <2>2 DEF DrainResponsible, Draining
<1>20. ASSUME NEW l \in Candidates, BeginPublication(l)
      PROVE  DrainResponsible'
  BY <1>20 DEF DrainResponsible, Draining, BeginPublication, finalityVars
<1>21. ASSUME ReleasePublication
      PROVE  DrainResponsible'
  BY <1>21 DEF DrainResponsible, Draining, ReleasePublication, finalityVars
<1>22. ASSUME NEW t \in Threads, EndDeferral(t)
      PROVE  DrainResponsible'
  BY <1>22, SMTT(30) DEF TypeOK, DrainResponsible, Draining, EndDeferral, Goto, RebuiltTo,
     Return, Leave, Idle, ThreadState, finalityVars, UpdateConfig, CancelFinality,
     ExpireOld
<1>23. ASSUME NEW t \in Threads, DrainClaim(t)
      PROVE  DrainResponsible'
  <2>1. \A u \in Threads \ {t} : pc'[u] = pc[u]
    BY <1>23 DEF TypeOK, DrainClaim, Goto
  <2>2. ~Draining(t)
    BY <1>23 DEF DrainClaim, Draining
  <2>3. \A u \in Threads \ {t} : Draining(u)' <=> Draining(u)
    BY <2>1 DEF Draining
  <2>4. CASE dispatching \/ deferring # {}
    <3>1. pc'[t].step \in {"idle", "acquire"}
      BY <1>23, <2>4, SMTT(30) DEF TypeOK, ThreadState, DrainClaim, Goto, Return, Idle
    <3>2. ~Draining(t)'
      BY <3>1 DEF Draining
    <3> QED
      BY <1>23, <2>2, <2>3, <2>4, <3>2 DEF DrainResponsible, DrainClaim
  <2>5. CASE ~dispatching /\ deferring = {}
    <3>1. pc'[t].step = "loop" /\ dispatching' = TRUE
      BY <1>23, <2>5, SMTT(30) DEF TypeOK, ThreadState, DrainClaim, Goto
    <3>2. Draining(t)'
      BY <3>1 DEF Draining
    <3>3. \A u \in Threads : ~Draining(u)
      BY <2>5 DEF DrainResponsible
    <3> QED
      BY <2>3, <3>1, <3>2, <3>3 DEF DrainResponsible
  <2> QED
    BY <2>4, <2>5
<1>24. ASSUME NEW t \in Threads, DrainStop(t)
      PROVE  DrainResponsible'
  BY <1>24, SMTT(30) DEF TypeOK, DrainResponsible, Draining, DrainStop, Goto, RebuiltTo,
     Return, Leave, Idle, ThreadState, finalityVars, UpdateConfig, CancelFinality,
     ExpireOld
<1>25. ASSUME NEW t \in Threads, DrainPop(t)
      PROVE  DrainResponsible'
  <2>1. /\ \A u \in Threads \ {t} : pc'[u] = pc[u]
        /\ pc'[t].step \in {"loop", "callback"}
    <3>1. CASE UNCHANGED pc
      BY <1>25, <3>1 DEF DrainPop
    <3>2. CASE \E k \in pendingFinality :
                  Goto(t, [pc[t] EXCEPT !.step = "callback", !.key = k])
      <4>1. PICK k \in pendingFinality :
                Goto(t, [pc[t] EXCEPT !.step = "callback", !.key = k])
        BY <3>2
      <4> DEFINE r == [pc[t] EXCEPT !.step = "callback", !.key = k]
      <4>2. r.step = "callback"
        BY SMTT(30) DEF TypeOK, ThreadState
      <4>3. pc'[t] = r /\ \A u \in Threads \ {t} : pc'[u] = pc[u]
        BY <4>1, GotoEffect
      <4> QED
        BY <4>2, <4>3
    <3> QED
      BY <1>25, <3>1, <3>2 DEF DrainPop
  <2>2. Draining(t) /\ Draining(t)'
    BY <1>25, <2>1 DEF DrainPop, Draining
  <2>3. \A u \in Threads : Draining(u)' <=> Draining(u)
    BY <2>1, <2>2 DEF Draining
  <2>4. dispatching /\ dispatching'
    BY <1>25, <2>2 DEF DrainResponsible, DrainPop
  <2> QED
    BY <2>2, <2>3, <2>4 DEF DrainResponsible
<1>26. ASSUME NEW t \in Threads, NEW c \in Configs, CallbackRefresh(t, c)
      PROVE  DrainResponsible'
  BY <1>26, SMTT(30) DEF TypeOK, DrainResponsible, Draining, CallbackRefresh, Goto, RebuiltTo,
     Return, Leave, Idle, ThreadState, finalityVars, UpdateConfig, CancelFinality,
     ExpireOld
<1>27. ASSUME NEW t \in Threads, CallbackExpire(t)
      PROVE  DrainResponsible'
  BY <1>27, SMTT(30) DEF TypeOK, DrainResponsible, Draining, CallbackExpire, Goto, RebuiltTo,
     Return, Leave, Idle, ThreadState, finalityVars, UpdateConfig, CancelFinality,
     ExpireOld
<1>28. ASSUME Tick
      PROVE  DrainResponsible'
  BY <1>28 DEF DrainResponsible, Draining, Tick, finalityVars
<1>29. ASSUME NEW l \in Ledgers, Acquire(l)
      PROVE  DrainResponsible'
  BY <1>29 DEF DrainResponsible, Draining, Acquire, finalityVars
<1>30. CASE UNCHANGED vars
  BY <1>30 DEF DrainResponsible, Draining, vars, finalityVars
<1> QED
  BY <1>1, <1>2, <1>3, <1>4, <1>5, <1>6, <1>7, <1>8, <1>9, <1>10, <1>11,
     <1>12, <1>13, <1>14, <1>15, <1>16, <1>17, <1>18, <1>19, <1>20, <1>21,
     <1>22, <1>23, <1>24, <1>25, <1>26, <1>27, <1>28, <1>29, <1>30 DEF Next,
     ThreadStep, Call, Atomic, Admit

(* The retained proof *)

\* A recheck that marks a key also lifts the proof to it.
LEMMA CheckFullFloor ==
    ASSUME TypeOK, RetainedFloor, NEW K \in SUBSET Keys, NEW vals, NEW cfg,
           NEW unavailable, NEW callback,
           CheckFullValidation(K, vals, cfg, unavailable, callback)
    PROVE  RetainedFloor'
<1> DEFINE Full == {k \in K : HasQuorum(vals, cfg, k)}
<1>1. CASE unavailable
  <2>1. fired' \subseteq fired /\ UNCHANGED retainedQuorum
    BY <1>1 DEF CheckFullValidation
  <2> QED
    BY <2>1 DEF RetainedFloor
<1>2. CASE ~unavailable
  <2>1. fired' \subseteq fired \cup Full /\ RetainQuorum(Full)
    BY <1>2 DEF CheckFullValidation
  <2>2. Full \in SUBSET Keys
    OBVIOUS
  <2>3. /\ retainedQuorum'.seq >= retainedQuorum.seq
        /\ retainedQuorum' \in Keys \cup {NoKey}
        /\ \A k \in Full : k.seq <= retainedQuorum'.seq
    BY <2>1, <2>2, RetainUp DEF TypeOK
  <2>4. fired \subseteq Keys /\ retainedQuorum \in Keys \cup {NoKey}
    BY DEF TypeOK
  <2> HIDE DEF Full
  <2>5. retainedQuorum.seq \in Int /\ retainedQuorum'.seq \in Int
    BY <2>3, <2>4, KeySeq
  <2>6. ASSUME NEW k \in fired'
        PROVE  k.seq <= retainedQuorum'.seq
    <3>1. CASE k \in Full
      BY <2>3, <3>1
    <3>2. CASE k \in fired
      <4>1. k.seq \in Int
        BY <2>4, <3>2, KeySeq
      <4>2. k.seq <= retainedQuorum.seq
        BY <3>2 DEF RetainedFloor
      <4> QED
        BY <2>3, <2>5, <4>1, <4>2, SMTT(30)
    <3> QED
      BY <2>1, <3>1, <3>2
  <2> QED
    BY <2>6 DEF RetainedFloor
<1> QED
  BY <1>1, <1>2

\* Every critical section keeps all marked ledgers at or below the proof.
LEMMA FloorStep ==
    ASSUME TypeOK, RetainedFloor, [Next]_vars
    PROVE  RetainedFloor'
<1>1. ASSUME NEW t \in Threads, CheckAcquired(t)
      PROVE  RetainedFloor'
  BY <1>1 DEF RetainedFloor, CheckAcquired, finalityVars
<1>2. ASSUME NEW t \in Threads, ApplyAcquired(t)
      PROVE  RetainedFloor'
  BY <1>2 DEF RetainedFloor, ApplyAcquired, finalityVars
<1>3. ASSUME NEW t \in Threads, NEW m \in Messages, NEW engine \in BOOLEAN, AddBegin(t, m, engine)
      PROVE  RetainedFloor'
  BY <1>3 DEF RetainedFloor, AddBegin, finalityVars
<1>4. ASSUME NEW t \in Threads, AdmitRejected(t)
      PROVE  RetainedFloor'
  BY <1>4 DEF RetainedFloor, AdmitRejected, finalityVars
<1>5. ASSUME NEW t \in Threads, AdmitBelowFloor(t)
      PROVE  RetainedFloor'
  BY <1>5 DEF RetainedFloor, AdmitBelowFloor, finalityVars
<1>6. ASSUME NEW t \in Threads, AdmitStored(t)
      PROVE  RetainedFloor'
  <2>1. {KeyOf(pc[t].val)} \subseteq Keys
    <3>1. pc[t].val \in Messages
      BY <1>6 DEF TypeOK, Carries, AdmitStored
    <3> QED
      BY <3>1, MessageKey
  <2>2. CASE UNCHANGED finalityVars
    BY <2>2 DEF RetainedFloor, finalityVars
  <2>3. CASE CheckFullValidation({KeyOf(pc[t].val)}, validations', config,
                                 quorumUnavailable, callbackSet)
    BY <2>1, <2>3, CheckFullFloor
  <2> QED
    BY <1>6, <2>2, <2>3 DEF AdmitStored, finalityVars
<1>7. ASSUME NEW t \in Threads, NEW c \in Configs, RefreshConfig(t, c)
      PROVE  RetainedFloor'
  BY <1>7, CheckFullFloor, EvidenceTyped DEF TypeOK, RefreshConfig, UpdateConfig, RecheckFinality
<1>8. ASSUME NEW t \in Threads, NEW c \in Configs, RefreshConfigDeferred(t, c)
      PROVE  RetainedFloor'
  BY <1>8, CheckFullFloor, EvidenceTyped DEF TypeOK, RefreshConfigDeferred, UpdateConfig, RecheckFinality
<1>9. ASSUME NEW t \in Threads, NEW c \in Configs, SetNegativeUNL(t, c.negUNL)
      PROVE  RetainedFloor'
  BY <1>9, CheckFullFloor, EvidenceTyped DEF TypeOK, SetNegativeUNL, UpdateConfig, RecheckFinality
<1>10. ASSUME NEW t \in Threads, SetFullyValidatedCallback(t)
      PROVE  RetainedFloor'
  BY <1>10, CheckFullFloor, EvidenceTyped DEF TypeOK, SetFullyValidatedCallback, UpdateConfig, RecheckFinality
<1>11. ASSUME CloseGate
      PROVE  RetainedFloor'
  BY <1>11 DEF RetainedFloor, CloseGate, finalityVars
<1>12. ASSUME NEW t \in Threads, OpenGate(t)
      PROVE  RetainedFloor'
  BY <1>12 DEF RetainedFloor, OpenGate, finalityVars
<1>13. ASSUME NEW t \in Threads, RecheckAfterOpen(t)
      PROVE  RetainedFloor'
  BY <1>13, CheckFullFloor, EvidenceTyped DEF TypeOK, RecheckAfterOpen, UpdateConfig, RecheckFinality
<1>14. ASSUME NEW s \in SeqFloors, SetMinSeq(s)
      PROVE  RetainedFloor'
  BY <1>14 DEF RetainedFloor, SetMinSeq, finalityVars
<1>15. ASSUME NEW p \in Pins, SetSeqToKeep(p)
      PROVE  RetainedFloor'
  BY <1>15 DEF RetainedFloor, SetSeqToKeep, finalityVars
<1>16. ASSUME NEW l \in Ledgers, ReadValidations(l)
      PROVE  RetainedFloor'
  BY <1>16 DEF RetainedFloor, ReadValidations, finalityVars
<1>17. ASSUME FlushStale
      PROVE  RetainedFloor'
  BY <1>17 DEF RetainedFloor, FlushStale, finalityVars
<1>18. ASSUME Flush
      PROVE  RetainedFloor'
  BY <1>18 DEF RetainedFloor, Flush, finalityVars
<1>19. ASSUME NEW l \in Candidates, RecheckFullyValidated([ledger |-> l, seq |-> LedgerSeq[l]])
      PROVE  RetainedFloor'
  <2> DEFINE k == [ledger |-> l, seq |-> LedgerSeq[l]]
  <2>1. {k} \subseteq Keys
    BY MessagesAssumption, SMTT(30) DEF Keys
  <2>2. CASE CancelFinality({k}) /\ UNCHANGED retainedQuorum
    BY <2>2 DEF RetainedFloor, CancelFinality
  <2>3. CASE UNCHANGED finalityVars
    BY <2>3 DEF RetainedFloor, finalityVars
  <2>4. CASE fired' \subseteq fired \cup {k} /\ RetainQuorum({k})
    <3>1. fired \subseteq Keys /\ retainedQuorum \in Keys \cup {NoKey}
      BY DEF TypeOK
    <3>2. /\ retainedQuorum'.seq >= retainedQuorum.seq
          /\ retainedQuorum' \in Keys \cup {NoKey}
          /\ k.seq <= retainedQuorum'.seq
      BY <2>1, <2>4, <3>1, RetainUp
    <3>3. retainedQuorum.seq \in Int /\ retainedQuorum'.seq \in Int
      BY <3>1, <3>2, KeySeq
    <3>4. ASSUME NEW j \in fired
          PROVE  j.seq <= retainedQuorum'.seq
      <4>1. j.seq \in Int /\ j.seq <= retainedQuorum.seq
        BY <3>1, KeySeq DEF RetainedFloor
      <4> QED
        BY <3>2, <3>3, <4>1, SMTT(30)
    <3> HIDE DEF k
    <3> QED
      BY <2>4, <3>2, <3>4 DEF RetainedFloor
  <2> QED
    BY <1>19, <2>2, <2>3, <2>4 DEF RecheckFullyValidated
<1>20. ASSUME NEW l \in Candidates, BeginPublication(l)
      PROVE  RetainedFloor'
  BY <1>20 DEF RetainedFloor, BeginPublication, finalityVars
<1>21. ASSUME ReleasePublication
      PROVE  RetainedFloor'
  BY <1>21 DEF RetainedFloor, ReleasePublication, finalityVars
<1>22. ASSUME NEW t \in Threads, EndDeferral(t)
      PROVE  RetainedFloor'
  BY <1>22 DEF RetainedFloor, EndDeferral, finalityVars
<1>23. ASSUME NEW t \in Threads, DrainClaim(t)
      PROVE  RetainedFloor'
  BY <1>23 DEF RetainedFloor, DrainClaim, finalityVars
<1>24. ASSUME NEW t \in Threads, DrainStop(t)
      PROVE  RetainedFloor'
  BY <1>24 DEF RetainedFloor, DrainStop, finalityVars
<1>25. ASSUME NEW t \in Threads, DrainPop(t)
      PROVE  RetainedFloor'
  BY <1>25 DEF RetainedFloor, DrainPop
<1>26. ASSUME NEW t \in Threads, NEW c \in Configs, CallbackRefresh(t, c)
      PROVE  RetainedFloor'
  BY <1>26, CheckFullFloor, EvidenceTyped DEF TypeOK, CallbackRefresh, UpdateConfig, RecheckFinality
<1>27. ASSUME NEW t \in Threads, CallbackExpire(t)
      PROVE  RetainedFloor'
  BY <1>27 DEF CallbackExpire, ExpireOld, CancelFinality, RetainedFloor,
     finalityVars
<1>28. ASSUME Tick
      PROVE  RetainedFloor'
  BY <1>28 DEF RetainedFloor, Tick, finalityVars
<1>29. ASSUME NEW l \in Ledgers, Acquire(l)
      PROVE  RetainedFloor'
  BY <1>29 DEF RetainedFloor, Acquire, finalityVars
<1>30. CASE UNCHANGED vars
  BY <1>30 DEF RetainedFloor, vars, finalityVars
<1> QED
  BY <1>1, <1>2, <1>3, <1>4, <1>5, <1>6, <1>7, <1>8, <1>9, <1>10, <1>11,
     <1>12, <1>13, <1>14, <1>15, <1>16, <1>17, <1>18, <1>19, <1>20, <1>21,
     <1>22, <1>23, <1>24, <1>25, <1>26, <1>27, <1>28, <1>29, <1>30 DEF Next,
     ThreadStep, Call, Atomic, Admit

(* Steering: completeness and soundness are inductive together. *)

Steering == SteeringComplete /\ SteeringSound

\* A rebuilt trie parks exactly the trusted current validations.
LEMMA RebuildSteers ==
    ASSUME byNode' \in [Nodes -> Messages \cup {NoVal}],
           config' \in [trusted : SUBSET Nodes, quorum : Nat, negUNL : SUBSET Nodes],
           RebuildTrie(config', byNode')
    PROVE  Steering'
<1>1. SteeringComplete'
  BY DEF RebuildTrie, SteeringComplete
<1>2. SteeringSound'
  <2>1. \A n \in Nodes : trieTips'[n] = NoTip
    BY DEF RebuildTrie
  <2>2. ASSUME NEW a \in acquiring'
        PROVE  Steers(a[1], a[2])'
    <3>1. PICK n \in {x \in config'.trusted : byNode'[x] # NoVal} : a = <<n, KeyOf(byNode'[n])>>
      BY DEF RebuildTrie
    <3> QED
      BY <3>1 DEF Steers
  <2> QED
    BY <2>1, <2>2 DEF SteeringSound
<1> QED
  BY <1>1, <1>2 DEF Steering

\* Dropping validators drops all of their steering state and nobody else's.
LEMMA DropSteers ==
    ASSUME TypeOK, Steering, NEW Gone \in SUBSET Nodes, DropCurrent(Gone), UNCHANGED config
    PROVE  Steering'
<1>1. SteeringComplete'
  BY DEF TypeOK, Steering, DropCurrent, SteeringComplete
<1>2. SteeringSound'
  <2>1. ASSUME NEW n \in Nodes, trieTips'[n] # NoTip
        PROVE  n \in config'.trusted /\ byNode'[n] # NoVal
    BY <2>1 DEF Steering, DropCurrent, SteeringSound
  <2>2. ASSUME NEW a \in acquiring'
        PROVE  Steers(a[1], a[2])'
    <3>1. a \in acquiring /\ Steers(a[1], a[2])
      BY DEF Steering, DropCurrent, SteeringSound
    <3>2. a[1] \in Nodes /\ a = <<a[1], a[2]>>
      BY <3>1, SMTT(30) DEF TypeOK
    <3>3. a[1] \notin Gone
      BY <3>1, <3>2 DEF DropCurrent, Steers
    <3> QED
      BY <3>1, <3>2, <3>3 DEF DropCurrent, Steers
  <2> QED
    BY <2>1, <2>2 DEF SteeringSound
<1> QED
  BY <1>1, <1>2 DEF Steering

\* Every critical section keeps the steering state equal to the trusted current
\* validations.
LEMMA SteeringStep ==
    ASSUME TypeOK, TypeOK', Steering, [Next]_vars
    PROVE  Steering'
<1>1. ASSUME NEW t \in Threads, CheckAcquired(t)
      PROVE  Steering'
  BY <1>1 DEF Steering, SteeringComplete, SteeringSound, Steers, CheckAcquired, admissionVars, steeringVars
<1>2. ASSUME NEW t \in Threads, ApplyAcquired(t)
      PROVE  Steering'
  <2> DEFINE K == IF pc[t].same THEN pc[t].keys ELSE {}
             Moved == {n \in Nodes : \E k \in K : <<n, k>> \in acquiring /\ Steers(n, k)}
  <2>1. /\ trieTips' = [n \in Nodes |-> IF n \in Moved THEN byNode[n].ledger ELSE trieTips[n]]
        /\ acquiring' = {a \in acquiring : a[2] \notin K}
        /\ UNCHANGED <<config, byNode>>
    BY <1>2 DEF ApplyAcquired, admissionVars
  <2>2. \A n \in Moved : n \in config.trusted /\ byNode[n] # NoVal
    BY DEF Steers
  <2>3. \A n \in config.trusted : byNode[n] # NoVal /\ n \notin Moved =>
            \/ trieTips[n] = byNode[n].ledger
            \/ <<n, KeyOf(byNode[n])>> \in acquiring /\ KeyOf(byNode[n]) \notin K
    BY DEF TypeOK, Steering, SteeringComplete, Steers
  <2> HIDE DEF K, Moved
  <2>4. SteeringComplete'
    BY <2>1, <2>3 DEF TypeOK, SteeringComplete
  <2>5. SteeringSound'
    BY <2>1, <2>2 DEF TypeOK, Steering, SteeringSound, Steers
  <2> QED
    BY <2>4, <2>5 DEF Steering
<1>3. ASSUME NEW t \in Threads, NEW m \in Messages, NEW engine \in BOOLEAN, AddBegin(t, m, engine)
      PROVE  Steering'
  BY <1>3 DEF Steering, SteeringComplete, SteeringSound, Steers, AddBegin, admissionVars, steeringVars
<1>4. ASSUME NEW t \in Threads, AdmitRejected(t)
      PROVE  Steering'
  BY <1>4 DEF Steering, SteeringComplete, SteeringSound, Steers, AdmitRejected, admissionVars, steeringVars
<1>5. ASSUME NEW t \in Threads, AdmitBelowFloor(t)
      PROVE  Steering'
  BY <1>5 DEF Steering, SteeringComplete, SteeringSound, Steers, AdmitBelowFloor, admissionVars, steeringVars
<1>6. ASSUME NEW t \in Threads, AdmitStored(t)
      PROVE  Steering'
  <2> DEFINE m == pc[t].val
             k == KeyOf(m)
             rest == IF byNode[m.node] = NoVal THEN acquiring
                     ELSE acquiring \ {<<m.node, KeyOf(byNode[m.node])>>}
             Moved == {m.node} \cup
                        {n \in Nodes \ {m.node} : <<n, k>> \in rest /\ Steers(n, k)}
  <2>1. m \in Messages /\ m.node \in Nodes /\ m # NoVal
    BY <1>6, MessagesAssumption DEF TypeOK, Carries, AdmitStored
  <2>2. UNCHANGED config
    BY <1>6 DEF AdmitStored
  <2>3. CASE UNCHANGED <<byNode, steeringVars>>
    BY <2>2, <2>3 DEF Steering, SteeringComplete, SteeringSound, Steers, steeringVars
  <2>4. CASE byNode' = [byNode EXCEPT ![m.node] = m] /\ UpdateTrie(t, m)
    <3>1. byNode'[m.node] = m /\ \A n \in Nodes \ {m.node} : byNode'[n] = byNode[n]
      BY <2>1, <2>4 DEF TypeOK
    <3>2. \A a \in rest : a[1] # m.node /\ a \in acquiring
      <4>1. \A a \in acquiring : a = <<a[1], a[2]>> /\ Steers(a[1], a[2])
        <5>1. acquiring \subseteq Nodes \X Keys
          BY DEF TypeOK
        <5>2. \A a \in acquiring : Steers(a[1], a[2])
          BY DEF Steering, SteeringSound
        <5> QED
          BY <5>1, <5>2, SMTT(30)
      <4> QED
        BY <4>1 DEF Steers
    <3>3. \A n \in Nodes \ {m.node} : \A j : <<n, j>> \in acquiring => <<n, j>> \in rest
      OBVIOUS
    <3>7. config.trusted \subseteq Nodes
      BY DEF TypeOK
    <3>8. \A a \in acquiring : a[1] \in Nodes
      BY DEF TypeOK
    <3> HIDE DEF rest
    <3>4. CASE m.node \notin config.trusted
      <4>1. UNCHANGED steeringVars
        BY <2>4, <3>4 DEF UpdateTrie
      <4> QED
        <5>1. SteeringComplete'
          BY <2>2, <3>1, <3>4, <3>7, <4>1 DEF Steering, SteeringComplete, steeringVars
        <5>2. SteeringSound'
          BY <2>2, <3>1, <3>4, <3>8, <4>1 DEF Steering, SteeringSound, Steers, steeringVars
        <5> QED
          BY <5>1, <5>2 DEF Steering
    <3>5. CASE m.node \in config.trusted /\ pc[t].resolved /\ pc[t].same
      <4>1. /\ trieTips' = [n \in Nodes |-> IF n \in Moved THEN m.ledger ELSE trieTips[n]]
            /\ acquiring' = {a \in rest : a[2] # k}
        BY <2>4, <3>5 DEF UpdateTrie, rest
      <4>2. \A n \in Moved \ {m.node} : /\ n \in config.trusted /\ byNode[n] # NoVal
                                        /\ byNode[n].ledger = m.ledger
        BY DEF Steers, KeyOf
      <4>3. SteeringComplete'
        <5>1. ASSUME NEW n \in config.trusted, byNode'[n] # NoVal
              PROVE  \/ trieTips'[n] = byNode'[n].ledger
                     \/ <<n, KeyOf(byNode'[n])>> \in acquiring'
          <6>1. CASE n \in Moved
            BY <2>1, <3>1, <3>7, <4>1, <4>2, <6>1
          <6>2. CASE n \notin Moved
            <7>1. n \in Nodes \ {m.node} /\ byNode'[n] = byNode[n]
              BY <3>1, <3>7, <6>2
            <7>2. trieTips'[n] = trieTips[n]
              BY <4>1, <6>2, <7>1
            <7>3. CASE trieTips[n] = byNode[n].ledger
              BY <7>1, <7>2, <7>3
            <7>4. CASE <<n, KeyOf(byNode[n])>> \in acquiring
              <8>1. <<n, KeyOf(byNode[n])>> \in rest
                BY <3>3, <7>1, <7>4
              <8>2. KeyOf(byNode[n]) # k
                BY <5>1, <6>2, <7>1, <8>1 DEF Steers
              <8> QED
                BY <4>1, <7>1, <8>1, <8>2
            <7> QED
              BY <5>1, <7>1, <7>3, <7>4 DEF Steering, SteeringComplete
          <6> QED
            BY <6>1, <6>2
        <5> QED
          BY <2>2, <5>1 DEF SteeringComplete
      <4>4. SteeringSound'
        <5>1. ASSUME NEW n \in Nodes, trieTips'[n] # NoTip
              PROVE  n \in config.trusted /\ byNode'[n] # NoVal
          BY <2>1, <3>1, <3>5, <4>1, <4>2, <5>1 DEF Steering, SteeringSound
        <5>2. ASSUME NEW a \in acquiring'
              PROVE  Steers(a[1], a[2])'
          <6>1. a \in acquiring /\ a[1] \in Nodes \ {m.node}
            BY <3>2, <3>8, <4>1
          <6>2. byNode'[a[1]] = byNode[a[1]] /\ Steers(a[1], a[2])
            BY <3>1, <6>1 DEF Steering, SteeringSound
          <6> QED
            BY <2>2, <6>2 DEF Steers
        <5> QED
          BY <2>2, <5>1, <5>2 DEF SteeringSound
      <4> QED
        BY <4>3, <4>4 DEF Steering
    <3>6. CASE m.node \in config.trusted /\ ~(pc[t].resolved /\ pc[t].same)
      <4>1. acquiring' = rest \cup {<<m.node, k>>} /\ UNCHANGED trieTips
        BY <2>4, <3>6 DEF UpdateTrie, rest
      <4>2. SteeringComplete'
        <5>1. ASSUME NEW n \in config.trusted, byNode'[n] # NoVal
              PROVE  \/ trieTips'[n] = byNode'[n].ledger
                     \/ <<n, KeyOf(byNode'[n])>> \in acquiring'
          <6>1. CASE n = m.node
            BY <3>1, <4>1, <6>1
          <6>2. CASE n # m.node
            BY <3>1, <3>3, <3>7, <4>1, <5>1, <6>2 DEF Steering, SteeringComplete
          <6> QED
            BY <6>1, <6>2
        <5> QED
          BY <2>2, <5>1 DEF SteeringComplete
      <4>3. SteeringSound'
        <5>1. ASSUME NEW n \in Nodes, trieTips'[n] # NoTip
              PROVE  n \in config.trusted /\ byNode'[n] # NoVal
          BY <2>1, <3>1, <3>6, <4>1, <5>1 DEF Steering, SteeringSound
        <5>2. ASSUME NEW a \in acquiring'
              PROVE  Steers(a[1], a[2])'
          <6>1. CASE a \in rest
            <7>1. byNode'[a[1]] = byNode[a[1]] /\ Steers(a[1], a[2])
              BY <3>1, <3>2, <3>8, <6>1 DEF Steering, SteeringSound
            <7> QED
              BY <2>2, <7>1 DEF Steers
          <6>2. CASE a = <<m.node, k>>
            BY <2>1, <2>2, <3>1, <3>6, <6>2 DEF Steers
          <6> QED
            BY <4>1, <6>1, <6>2
        <5> QED
          BY <2>2, <5>1, <5>2 DEF SteeringSound
      <4> QED
        BY <4>2, <4>3 DEF Steering
    <3> QED
      BY <3>4, <3>5, <3>6
  <2> QED
    BY <1>6, <2>3, <2>4 DEF AdmitStored
<1>7. ASSUME NEW t \in Threads, NEW c \in Configs, RefreshConfig(t, c)
      PROVE  Steering'
  BY <1>7, RebuildSteers DEF TypeOK, RefreshConfig, UpdateConfig, admissionVars
<1>8. ASSUME NEW t \in Threads, NEW c \in Configs, RefreshConfigDeferred(t, c)
      PROVE  Steering'
  BY <1>8, RebuildSteers DEF TypeOK, RefreshConfigDeferred, UpdateConfig, admissionVars
<1>9. ASSUME NEW t \in Threads, NEW c \in Configs, SetNegativeUNL(t, c.negUNL)
      PROVE  Steering'
  BY <1>9 DEF TypeOK, Steering, SteeringComplete, SteeringSound, Steers, SetNegativeUNL, admissionVars,
     steeringVars
<1>10. ASSUME NEW t \in Threads, SetFullyValidatedCallback(t)
      PROVE  Steering'
  BY <1>10 DEF Steering, SteeringComplete, SteeringSound, Steers, SetFullyValidatedCallback, admissionVars, steeringVars
<1>11. ASSUME CloseGate
      PROVE  Steering'
  BY <1>11 DEF Steering, SteeringComplete, SteeringSound, Steers, CloseGate, admissionVars, steeringVars
<1>12. ASSUME NEW t \in Threads, OpenGate(t)
      PROVE  Steering'
  BY <1>12 DEF Steering, SteeringComplete, SteeringSound, Steers, OpenGate, admissionVars, steeringVars
<1>13. ASSUME NEW t \in Threads, RecheckAfterOpen(t)
      PROVE  Steering'
  BY <1>13 DEF Steering, SteeringComplete, SteeringSound, Steers, RecheckAfterOpen, admissionVars, steeringVars
<1>14. ASSUME NEW s \in SeqFloors, SetMinSeq(s)
      PROVE  Steering'
  BY <1>14 DEF Steering, SteeringComplete, SteeringSound, Steers, SetMinSeq, admissionVars, steeringVars
<1>15. ASSUME NEW p \in Pins, SetSeqToKeep(p)
      PROVE  Steering'
  BY <1>15 DEF Steering, SteeringComplete, SteeringSound, Steers, SetSeqToKeep, admissionVars, steeringVars
<1>16. ASSUME NEW l \in Ledgers, ReadValidations(l)
      PROVE  Steering'
  BY <1>16 DEF Steering, SteeringComplete, SteeringSound, Steers, ReadValidations, admissionVars, steeringVars
<1>17. ASSUME FlushStale
      PROVE  Steering'
  BY <1>17, DropSteers DEF FlushStale
<1>18. ASSUME Flush
      PROVE  Steering'
  BY <1>18, RebuildSteers DEF TypeOK, Flush
<1>19. ASSUME NEW l \in Candidates, RecheckFullyValidated([ledger |-> l, seq |-> LedgerSeq[l]])
      PROVE  Steering'
  BY <1>19 DEF Steering, SteeringComplete, SteeringSound, Steers, RecheckFullyValidated, admissionVars, steeringVars
<1>20. ASSUME NEW l \in Candidates, BeginPublication(l)
      PROVE  Steering'
  BY <1>20 DEF Steering, SteeringComplete, SteeringSound, Steers, BeginPublication, admissionVars, steeringVars
<1>21. ASSUME ReleasePublication
      PROVE  Steering'
  BY <1>21 DEF Steering, SteeringComplete, SteeringSound, Steers, ReleasePublication, admissionVars, steeringVars
<1>22. ASSUME NEW t \in Threads, EndDeferral(t)
      PROVE  Steering'
  BY <1>22 DEF Steering, SteeringComplete, SteeringSound, Steers, EndDeferral, admissionVars, steeringVars
<1>23. ASSUME NEW t \in Threads, DrainClaim(t)
      PROVE  Steering'
  BY <1>23 DEF Steering, SteeringComplete, SteeringSound, Steers, DrainClaim, admissionVars, steeringVars
<1>24. ASSUME NEW t \in Threads, DrainStop(t)
      PROVE  Steering'
  BY <1>24 DEF Steering, SteeringComplete, SteeringSound, Steers, DrainStop, admissionVars, steeringVars
<1>25. ASSUME NEW t \in Threads, DrainPop(t)
      PROVE  Steering'
  BY <1>25 DEF Steering, SteeringComplete, SteeringSound, Steers, DrainPop, admissionVars, steeringVars
<1>26. ASSUME NEW t \in Threads, NEW c \in Configs, CallbackRefresh(t, c)
      PROVE  Steering'
  BY <1>26, RebuildSteers DEF TypeOK, CallbackRefresh, UpdateConfig, admissionVars
<1>27. ASSUME NEW t \in Threads, CallbackExpire(t)
      PROVE  Steering'
  <2>1. CASE UNCHANGED <<byNode, steeringVars, config>>
    BY <2>1 DEF Steering, SteeringComplete, SteeringSound, Steers, steeringVars
  <2>2. CASE UNCHANGED config /\ \E Gone \in SUBSET Nodes : DropCurrent(Gone)
    BY <2>2, DropSteers
  <2> QED
    BY <1>27, <2>1, <2>2 DEF CallbackExpire, ExpireOld
<1>28. ASSUME Tick
      PROVE  Steering'
  BY <1>28 DEF Steering, SteeringComplete, SteeringSound, Steers, Tick, admissionVars, steeringVars
<1>29. ASSUME NEW l \in Ledgers, Acquire(l)
      PROVE  Steering'
  BY <1>29 DEF Steering, SteeringComplete, SteeringSound, Steers, Acquire, admissionVars, steeringVars
<1>30. CASE UNCHANGED vars
  BY <1>30 DEF Steering, SteeringComplete, SteeringSound, Steers, vars, admissionVars,
     steeringVars
<1> QED
  BY <1>1, <1>2, <1>3, <1>4, <1>5, <1>6, <1>7, <1>8, <1>9, <1>10, <1>11,
     <1>12, <1>13, <1>14, <1>15, <1>16, <1>17, <1>18, <1>19, <1>20, <1>21,
     <1>22, <1>23, <1>24, <1>25, <1>26, <1>27, <1>28, <1>29, <1>30 DEF Next,
     ThreadStep, Call, Atomic, Admit

(* The theorems *)

\* No notification is lost: see DrainResponsible.
THEOREM DrainCorrect == Spec => []DrainResponsible
<1>1. Init => DrainResponsible
  <2> SUFFICES ASSUME Init
               PROVE  DrainResponsible
    OBVIOUS
  <2>1. pendingFinality = {} /\ dispatching = FALSE
    BY DEF Init
  <2>2. \A t \in Threads : ~Draining(t)
    BY DEF Init, Draining, Idle
  <2> QED
    BY <2>1, <2>2 DEF DrainResponsible
<1>2. TypeOK /\ DrainResponsible /\ [Next]_vars => DrainResponsible'
  BY DrainStep
<1> QED
  BY <1>1, <1>2, TypeCorrect, PTL DEF Spec

\* No ledger is reported twice without its finality having been withdrawn: see
\* ReportedOnce.
THEOREM ReportedCorrect == Spec => []ReportedOnce
<1>1. Init => ReportedInv
  BY DEF Init, ReportedInv, ReportedOnce
<1>2. TypeOK /\ ReportedInv /\ [Next]_vars => ReportedInv'
  BY ReportedStep
<1>3. ReportedInv => ReportedOnce
  BY DEF ReportedInv
<1> QED
  BY <1>1, <1>2, <1>3, TypeCorrect, PTL DEF Spec

\* The retained proof bounds every ledger marked final: see RetainedFloor.
THEOREM FloorCorrect == Spec => []RetainedFloor
<1>1. Init => RetainedFloor
  BY DEF Init, RetainedFloor
<1>2. TypeOK /\ RetainedFloor /\ [Next]_vars => RetainedFloor'
  BY FloorStep
<1> QED
  BY <1>1, <1>2, TypeCorrect, PTL DEF Spec

\* Preferred-ledger steering sees exactly the trusted current validations: see
\* SteeringComplete and SteeringSound.
THEOREM SteeringCorrect == Spec => [](SteeringComplete /\ SteeringSound)
<1>1. Init => Steering
  <2>1. Init => \A n \in Nodes : byNode[n] = NoVal /\ trieTips[n] = NoTip
    BY DEF Init
  <2>2. Init => acquiring = {} /\ config.trusted \subseteq Nodes
    BY ConfigsAssumption DEF Init
  <2> QED
    BY <2>1, <2>2 DEF Steering, SteeringComplete, SteeringSound
<1>2. TypeOK /\ TypeOK' /\ Steering /\ [Next]_vars => Steering'
  BY SteeringStep
<1>3. Steering <=> SteeringComplete /\ SteeringSound
  BY DEF Steering
<1> QED
  BY <1>1, <1>2, <1>3, TypeCorrect, PTL DEF Spec

(* Stamps.  A call keeps the validation it carries and the time at which it     *)
(* found it current; the clock does not run away from a call in progress.       *)

Stamped(r) == r.val # NoVal =>
    r.val \in Messages /\ IsCurrent(r.at, r.val) /\ r.at <= now /\ now - r.at <= MaxStall

InFlight == \A t \in Threads : Stamped(pc[t])

\* Thread u keeps its validation and its time, or drops both.
Keeps(u) == pc'[u].val = NoVal \/ (pc'[u].val = pc[u].val /\ pc'[u].at = pc[u].at)

StampsKept == now' = now /\ \A u \in Threads : Keeps(u)

\* The numbers of a message.
LEMMA MessageTimes ==
    ASSUME NEW m \in Messages
    PROVE  m.sign \in Nat /\ m.seq \in Nat /\ m.node \in Nodes
<1>1. m \in [node : Nodes, ledger : Ledgers, seq : Nat \ {0},
             sign : Nat, full : BOOLEAN, cookie : Nat]
  BY MessagesAssumption
<1> QED
  BY <1>1

\* A thread that moves to a state with its own stamp or none keeps all stamps.
LEMMA GotoKeeps ==
    ASSUME TypeOK, NEW t \in Threads, NEW r, Goto(t, r),
           r.val = NoVal \/ (r.val = pc[t].val /\ r.at = pc[t].at)
    PROVE  \A u \in Threads : Keeps(u)
BY GotoEffect DEF Keeps

\* So does one that also invalidates the other threads' trie snapshots.
LEMMA RebuiltKeeps ==
    ASSUME TypeOK, NEW t \in Threads, NEW r, RebuiltTo(t, r),
           r.val = NoVal \/ (r.val = pc[t].val /\ r.at = pc[t].at)
    PROVE  \A u \in Threads : Keeps(u)
<1>1. \A u \in Threads : /\ [pc[u] EXCEPT !.same = FALSE].val = pc[u].val
                         /\ [pc[u] EXCEPT !.same = FALSE].at = pc[u].at
  BY ThreadOK DEF ThreadState
<1> QED
  BY <1>1 DEF RebuiltTo, Keeps

\* Only AddBegin stamps a call, and only Tick moves the clock.
LEMMA StampShape ==
    ASSUME TypeOK, [Next]_vars
    PROVE  \/ StampsKept
           \/ Tick
           \/ \E t \in Threads, m \in Messages, engine \in BOOLEAN : AddBegin(t, m, engine)
<1> USE DEF StampsKept
<1>1. ASSUME NEW t \in Threads, CheckAcquired(t)
      PROVE  StampsKept
  <2> DEFINE r == [Idle EXCEPT !.step = "acquired", !.same = TRUE,
                             !.keys = ResolvedKeys(acquiring)]
  <2>1. r.val = NoVal /\ Idle.val = NoVal
    BY DEF Idle
  <2> HIDE DEF r
  <2> QED
    BY <1>1, <2>1, GotoKeeps DEF CheckAcquired, r
<1>2. ASSUME NEW t \in Threads, ApplyAcquired(t)
      PROVE  StampsKept
  <2> DEFINE r1 == [pc[t] EXCEPT !.step = "admit", !.keys = {}, !.same = TRUE,
                              !.resolved = Resolvable(KeyOf(pc[t].val))]
             r2 == [Idle EXCEPT !.step = "expire", !.key = pc[t].key,
                                !.after = pc[t].after]
  <2>1. r1.val = pc[t].val /\ r1.at = pc[t].at /\ r2.val = NoVal /\ Idle.val = NoVal
    BY ThreadOK DEF ThreadState, Idle
  <2> HIDE DEF r1, r2
  <2>2. Goto(t, r1) \/ Goto(t, r2) \/ Goto(t, Idle)
    BY <1>2 DEF ApplyAcquired, r1, r2
  <2> QED
    BY <1>2, <2>1, <2>2, GotoKeeps DEF ApplyAcquired
<1>4. ASSUME NEW t \in Threads, AdmitRejected(t)
      PROVE  StampsKept
  <2> DEFINE r == Leave(t)
  <2>1. r.val = NoVal \/ (r.val = pc[t].val /\ r.at = pc[t].at)
    BY ThreadOK DEF ThreadState, Leave, Idle
  <2> HIDE DEF r
  <2> QED
    BY <1>4, <2>1, GotoKeeps DEF AdmitRejected, r
<1>5. ASSUME NEW t \in Threads, AdmitBelowFloor(t)
      PROVE  StampsKept
  <2> DEFINE r == Leave(t)
  <2>1. r.val = NoVal \/ (r.val = pc[t].val /\ r.at = pc[t].at)
    BY ThreadOK DEF ThreadState, Leave, Idle
  <2> HIDE DEF r
  <2> QED
    BY <1>5, <2>1, GotoKeeps DEF AdmitBelowFloor, r
<1>6. ASSUME NEW t \in Threads, AdmitStored(t)
      PROVE  StampsKept
  <2> DEFINE r == Leave(t)
  <2>1. r.val = NoVal \/ (r.val = pc[t].val /\ r.at = pc[t].at)
    BY ThreadOK DEF ThreadState, Leave, Idle
  <2> HIDE DEF r
  <2> QED
    BY <1>6, <2>1, GotoKeeps DEF AdmitStored, r
<1>7. ASSUME NEW t \in Threads, NEW c \in Configs, RefreshConfig(t, c)
      PROVE  StampsKept
  <2> DEFINE r == [Idle EXCEPT !.step = "drain", !.after = "acquire"]
  <2>1. r.val = NoVal \/ (r.val = pc[t].val /\ r.at = pc[t].at)
    BY ThreadOK DEF ThreadState, Idle
  <2> HIDE DEF r
  <2> QED
    BY <1>7, <2>1, RebuiltKeeps DEF RefreshConfig, r
<1>8. ASSUME NEW t \in Threads, NEW c \in Configs, RefreshConfigDeferred(t, c)
      PROVE  StampsKept
  <2> DEFINE r == [Idle EXCEPT !.step = "end", !.after = "acquire"]
  <2>1. r.val = NoVal \/ (r.val = pc[t].val /\ r.at = pc[t].at)
    BY ThreadOK DEF ThreadState, Idle
  <2> HIDE DEF r
  <2> QED
    BY <1>8, <2>1, RebuiltKeeps DEF RefreshConfigDeferred, r
<1>9. ASSUME NEW t \in Threads, NEW c \in Configs, SetNegativeUNL(t, c.negUNL)
      PROVE  StampsKept
  <2> DEFINE r == [Idle EXCEPT !.step = "drain"]
  <2>1. r.val = NoVal \/ (r.val = pc[t].val /\ r.at = pc[t].at)
    BY ThreadOK DEF ThreadState, Idle
  <2> HIDE DEF r
  <2> QED
    BY <1>9, <2>1, GotoKeeps DEF SetNegativeUNL, r
<1>10. ASSUME NEW t \in Threads, SetFullyValidatedCallback(t)
      PROVE  StampsKept
  <2> DEFINE r == [Idle EXCEPT !.step = "drain"]
  <2>1. r.val = NoVal \/ (r.val = pc[t].val /\ r.at = pc[t].at)
    BY ThreadOK DEF ThreadState, Idle
  <2> HIDE DEF r
  <2> QED
    BY <1>10, <2>1, GotoKeeps DEF SetFullyValidatedCallback, r
<1>11. ASSUME CloseGate
      PROVE  StampsKept
  BY <1>11 DEF CloseGate, Keeps
<1>12. ASSUME NEW t \in Threads, OpenGate(t)
      PROVE  StampsKept
  <2> DEFINE r == [Idle EXCEPT !.step = "recheck"]
  <2>1. r.val = NoVal \/ (r.val = pc[t].val /\ r.at = pc[t].at)
    BY ThreadOK DEF ThreadState, Idle
  <2> HIDE DEF r
  <2> QED
    BY <1>12, <2>1, GotoKeeps DEF OpenGate, r
<1>13. ASSUME NEW t \in Threads, RecheckAfterOpen(t)
      PROVE  StampsKept
  <2> DEFINE r == [Idle EXCEPT !.step = "drain"]
  <2>1. r.val = NoVal \/ (r.val = pc[t].val /\ r.at = pc[t].at)
    BY ThreadOK DEF ThreadState, Idle
  <2> HIDE DEF r
  <2> QED
    BY <1>13, <2>1, GotoKeeps DEF RecheckAfterOpen, r
<1>14. ASSUME NEW s \in SeqFloors, SetMinSeq(s)
      PROVE  StampsKept
  BY <1>14 DEF SetMinSeq, Keeps
<1>15. ASSUME NEW p \in Pins, SetSeqToKeep(p)
      PROVE  StampsKept
  BY <1>15 DEF SetSeqToKeep, Keeps
<1>16. ASSUME NEW l \in Ledgers, ReadValidations(l)
      PROVE  StampsKept
  BY <1>16 DEF ReadValidations, Keeps
<1>17. ASSUME FlushStale
      PROVE  StampsKept
  BY <1>17 DEF FlushStale, Keeps
<1>18. ASSUME Flush
      PROVE  StampsKept
  <2>1. \A u \in Threads : /\ [pc[u] EXCEPT !.same = FALSE].val = pc[u].val
                           /\ [pc[u] EXCEPT !.same = FALSE].at = pc[u].at
    BY ThreadOK DEF ThreadState
  <2> QED
    BY <1>18, <2>1 DEF Flush, Keeps
<1>19. ASSUME NEW l \in Candidates, RecheckFullyValidated([ledger |-> l, seq |-> LedgerSeq[l]])
      PROVE  StampsKept
  BY <1>19 DEF RecheckFullyValidated, Keeps
<1>20. ASSUME NEW l \in Candidates, BeginPublication(l)
      PROVE  StampsKept
  BY <1>20 DEF BeginPublication, Keeps
<1>21. ASSUME ReleasePublication
      PROVE  StampsKept
  BY <1>21 DEF ReleasePublication, Keeps
<1>22. ASSUME NEW t \in Threads, EndDeferral(t)
      PROVE  StampsKept
  <2> DEFINE r == IF deferring' = {} THEN [pc[t] EXCEPT !.step = "drain"] ELSE Return(t)
  <2>1. r.val = NoVal \/ (r.val = pc[t].val /\ r.at = pc[t].at)
    BY ThreadOK DEF ThreadState, Idle, Return
  <2> HIDE DEF r
  <2> QED
    BY <1>22, <2>1, GotoKeeps DEF EndDeferral, r
<1>23. ASSUME NEW t \in Threads, DrainClaim(t)
      PROVE  StampsKept
  <2> DEFINE r == [pc[t] EXCEPT !.step = "loop"]
  <2>1. r.val = pc[t].val /\ r.at = pc[t].at /\ Return(t).val = NoVal
    BY ThreadOK DEF ThreadState, Idle, Return
  <2> HIDE DEF r
  <2>2. Goto(t, r) \/ Goto(t, Return(t))
    BY <1>23 DEF DrainClaim, r
  <2> QED
    BY <1>23, <2>1, <2>2, GotoKeeps DEF DrainClaim
<1>24. ASSUME NEW t \in Threads, DrainStop(t)
      PROVE  StampsKept
  <2> DEFINE r == Return(t)
  <2>1. r.val = NoVal \/ (r.val = pc[t].val /\ r.at = pc[t].at)
    BY ThreadOK DEF ThreadState, Idle, Return
  <2> HIDE DEF r
  <2> QED
    BY <1>24, <2>1, GotoKeeps DEF DrainStop, r
<1>25. ASSUME NEW t \in Threads, DrainPop(t)
      PROVE  StampsKept
  <2>1. \A k \in pendingFinality :
          LET r == [pc[t] EXCEPT !.step = "callback", !.key = k]
          IN  r.val = pc[t].val /\ r.at = pc[t].at
    BY ThreadOK DEF ThreadState
  <2>2. CASE UNCHANGED pc
    BY <1>25, <2>2 DEF DrainPop, Keeps
  <2>3. CASE \E k \in pendingFinality : Goto(t, [pc[t] EXCEPT !.step = "callback", !.key = k])
    <3> PICK k \in pendingFinality : Goto(t, [pc[t] EXCEPT !.step = "callback", !.key = k])
      BY <2>3
    <3> DEFINE r == [pc[t] EXCEPT !.step = "callback", !.key = k]
    <3>1. Goto(t, r) /\ r.val = pc[t].val /\ r.at = pc[t].at
      BY <2>1
    <3> HIDE DEF r
    <3> QED
      BY <1>25, <3>1, GotoKeeps DEF DrainPop
  <2> QED
    BY <1>25, <2>2, <2>3 DEF DrainPop
<1>26. ASSUME NEW t \in Threads, NEW c \in Configs, CallbackRefresh(t, c)
      PROVE  StampsKept
  <2> DEFINE r == [pc[t] EXCEPT !.step = "acquired", !.then = "expire",
                              !.same = TRUE, !.keys = ResolvedKeys(acquiring')]
  <2>1. r.val = NoVal \/ (r.val = pc[t].val /\ r.at = pc[t].at)
    BY ThreadOK DEF ThreadState, Idle
  <2> HIDE DEF r
  <2> QED
    BY <1>26, <2>1, RebuiltKeeps DEF CallbackRefresh, r
<1>27. ASSUME NEW t \in Threads, CallbackExpire(t)
      PROVE  StampsKept
  <2> DEFINE r == [Idle EXCEPT !.step = "loop", !.after = pc[t].after]
  <2>1. r.val = NoVal \/ (r.val = pc[t].val /\ r.at = pc[t].at)
    BY ThreadOK DEF ThreadState, Idle
  <2> HIDE DEF r
  <2> QED
    BY <1>27, <2>1, GotoKeeps DEF CallbackExpire, r
<1>29. ASSUME NEW l \in Ledgers, Acquire(l)
      PROVE  StampsKept
  BY <1>29 DEF Acquire, Keeps
<1>30. CASE UNCHANGED vars
  BY <1>30 DEF vars, Keeps
<1> QED
  BY <1>1, <1>2, <1>4, <1>5, <1>6, <1>7, <1>8, <1>9, <1>10, <1>11,
     <1>12, <1>13, <1>14, <1>15, <1>16, <1>17, <1>18, <1>19, <1>20, <1>21,
     <1>22, <1>23, <1>24, <1>25, <1>26, <1>27, <1>29, <1>30 DEF Next,
     ThreadStep, Call, Atomic, Admit

\* The numbers of the windows.
LEMMA WindowNumbers ==
    /\ Early \in Nat /\ Wall \in Nat /\ SetExpires \in Nat /\ MaxStall \in Nat
    /\ Early > 0 /\ Wall > 0
BY WindowsAssumption, SMTT(30)

\* A call that found a validation within the clock's reach started late enough.
LEMMA WindowReach ==
    ASSUME NEW at \in Nat, NEW n \in Nat, NEW sign \in Nat,
           n - at <= MaxStall, sign < n + Wall
    PROVE  at > sign - Wall - MaxStall
BY WindowNumbers, SMTT(30)

\* An enforcer that covered a validation expires a window after it.
LEMMA WindowPassed ==
    ASSUME NEW at \in Nat, NEW n \in Nat, NEW sign \in Nat, NEW when \in Nat,
           at <= n, at - when > SetExpires, when > sign - Wall - MaxStall
    PROVE  n > sign - Wall - MaxStall + SetExpires
BY WindowNumbers, SMTT(30)

\* A call in progress then carries a signature that much later.
LEMMA WindowGap ==
    ASSUME NEW at \in Nat, NEW n \in Nat, NEW older \in Nat, NEW sign \in Nat,
           n - at <= MaxStall, sign > at - Early,
           n > older - Wall - MaxStall + SetExpires
    PROVE  sign - older > SetExpires - Early - Wall - 2 * MaxStall
BY WindowNumbers, SMTT(30)

\* What the clock has passed or can reach it has passed or can reach later.
LEMMA WindowLater ==
    ASSUME NEW n \in Nat, NEW later \in Nat, NEW sign \in Nat, n <= later
    PROVE  /\ sign < n + Wall => sign < later + Wall
           /\ n > sign - Wall - MaxStall + SetExpires
                => later > sign - Wall - MaxStall + SetExpires
BY WindowNumbers, SMTT(30)

\* Calls in progress stay stamped with a validation that was current when read.
LEMMA InFlightStep ==
    ASSUME TypeOK, InFlight, [Next]_vars
    PROVE  InFlight'
<1>1. CASE StampsKept
  BY <1>1 DEF InFlight, Stamped, StampsKept, Keeps
<1>2. CASE Tick
  <2>1. pc' = pc /\ now' = now + 1 /\ now \in Nat
    BY <1>2 DEF Tick, TypeOK
  <2>2. \A u \in Threads : pc[u].val # NoVal => now - pc[u].at < MaxStall
    BY <1>2 DEF Tick
  <2>3. \A u \in Threads : pc[u].at \in Nat
    BY ThreadOK DEF ThreadState
  <2> SUFFICES ASSUME NEW u \in Threads
               PROVE  Stamped(pc[u])'
    BY DEF InFlight
  <2>4. Stamped(pc[u]) /\ pc'[u] = pc[u]
    BY <2>1 DEF InFlight
  <2>5. pc[u].val # NoVal /\ pc[u].at <= now => pc[u].at <= now' /\ now' - pc[u].at <= MaxStall
    BY <2>1, <2>2, <2>3, WindowNumbers, SMTT(30)
  <2> QED
    BY <2>4, <2>5 DEF Stamped
<1>3. ASSUME NEW t \in Threads, NEW m \in Messages, NEW engine \in BOOLEAN,
             AddBegin(t, m, engine)
      PROVE  InFlight'
  <2> DEFINE r == [Idle EXCEPT !.step = "acquired", !.then = "admit", !.val = m,
                               !.at = now, !.same = TRUE, !.keys = ResolvedKeys(acquiring)]
             q == [Idle EXCEPT !.step = "end"]
  <2>1. r.val = m /\ r.at = now /\ q.val = NoVal
    BY DEF Idle
  <2> HIDE DEF r, q
  <2>2. now' = now /\ now \in Nat /\ ((IsCurrent(now, m) /\ Goto(t, r)) \/ Goto(t, q))
    BY <1>3 DEF AddBegin, TypeOK, r, q
  <2>3. \A u \in Threads \ {t} : pc'[u] = pc[u]
    BY <2>2, GotoEffect
  <2>4. pc'[t].val = NoVal \/ (pc'[t].val = m /\ pc'[t].at = now /\ IsCurrent(now, m))
    BY <2>1, <2>2, GotoEffect
  <2>5. now' <= now' /\ now' - now' <= MaxStall
    BY <2>2, WindowNumbers, SMTT(30)
  <2>6. Stamped(pc[t])'
    BY <2>2, <2>4, <2>5, <1>3 DEF Stamped
  <2>7. ASSUME NEW u \in Threads \ {t}
        PROVE  Stamped(pc[u])'
    BY <2>2, <2>3 DEF InFlight, Stamped
  <2> QED
    BY <2>6, <2>7 DEF InFlight
<1> QED
  BY <1>1, <1>2, <1>3, StampShape

(* Evidence.  What an admitted validation leaves behind outlives the freshness  *)
(* window in the enforcer of its node, unless that enforcer expired.            *)

\* The node's enforcer still covers the validation, or had time to expire since.
Covered(v) ==
    \/ seqEnforcers[v.node].seq >= v.seq /\ seqEnforcers[v.node].when > v.sign - Wall - MaxStall
    \/ now > v.sign - Wall - MaxStall + SetExpires

EvidenceInv ==
    /\ \A e \in bySequence : e.sign < now + Wall
    /\ \A v \in validations : v.sign < now + Wall /\ Covered(v)

\* A step that records no validation: evidence only goes, the clock only advances
\* and an enforcer is reset only once its window has passed.
NothingAdmitted ==
    /\ bySequence' \subseteq bySequence /\ validations' \subseteq validations
    /\ accused' = accused /\ now' >= now
    /\ \/ validations' = {}
       \/ \A n \in Nodes : \/ seqEnforcers'[n] = seqEnforcers[n]
                           \/ now - seqEnforcers[n].when > SetExpires

\* Only the three outcomes of Admit record a validation.
LEMMA EvidenceShape ==
    ASSUME TypeOK, [Next]_vars
    PROVE  NothingAdmitted \/ \E t \in Threads : Admit(t)
<1>0. now \in Nat /\ now >= now
  BY SMTT(30) DEF TypeOK
<1> USE <1>0 DEF NothingAdmitted
<1>1. ASSUME NEW t \in Threads, CheckAcquired(t)
      PROVE  NothingAdmitted
  BY <1>1 DEF CheckAcquired, admissionVars
<1>2. ASSUME NEW t \in Threads, ApplyAcquired(t)
      PROVE  NothingAdmitted
  BY <1>2 DEF ApplyAcquired, admissionVars
<1>3. ASSUME NEW t \in Threads, NEW m \in Messages, NEW engine \in BOOLEAN, AddBegin(t, m, engine)
      PROVE  NothingAdmitted
  BY <1>3 DEF AddBegin, admissionVars
<1>7. ASSUME NEW t \in Threads, NEW c \in Configs, RefreshConfig(t, c)
      PROVE  NothingAdmitted
  BY <1>7 DEF RefreshConfig, admissionVars
<1>8. ASSUME NEW t \in Threads, NEW c \in Configs, RefreshConfigDeferred(t, c)
      PROVE  NothingAdmitted
  BY <1>8 DEF RefreshConfigDeferred, admissionVars
<1>9. ASSUME NEW t \in Threads, NEW c \in Configs, SetNegativeUNL(t, c.negUNL)
      PROVE  NothingAdmitted
  BY <1>9 DEF SetNegativeUNL, admissionVars
<1>10. ASSUME NEW t \in Threads, SetFullyValidatedCallback(t)
      PROVE  NothingAdmitted
  BY <1>10 DEF SetFullyValidatedCallback, admissionVars
<1>11. ASSUME CloseGate
      PROVE  NothingAdmitted
  BY <1>11 DEF CloseGate, admissionVars
<1>12. ASSUME NEW t \in Threads, OpenGate(t)
      PROVE  NothingAdmitted
  BY <1>12 DEF OpenGate, admissionVars
<1>13. ASSUME NEW t \in Threads, RecheckAfterOpen(t)
      PROVE  NothingAdmitted
  BY <1>13 DEF RecheckAfterOpen, admissionVars
<1>14. ASSUME NEW s \in SeqFloors, SetMinSeq(s)
      PROVE  NothingAdmitted
  BY <1>14 DEF SetMinSeq, admissionVars
<1>15. ASSUME NEW p \in Pins, SetSeqToKeep(p)
      PROVE  NothingAdmitted
  BY <1>15 DEF SetSeqToKeep, admissionVars
<1>16. ASSUME NEW l \in Ledgers, ReadValidations(l)
      PROVE  NothingAdmitted
  BY <1>16 DEF ReadValidations, admissionVars
<1>17. ASSUME FlushStale
      PROVE  NothingAdmitted
  BY <1>17 DEF TypeOK, FlushStale
<1>18. ASSUME Flush
      PROVE  NothingAdmitted
  BY <1>18 DEF TypeOK, Flush
<1>19. ASSUME NEW l \in Candidates, RecheckFullyValidated([ledger |-> l, seq |-> LedgerSeq[l]])
      PROVE  NothingAdmitted
  BY <1>19 DEF RecheckFullyValidated, admissionVars
<1>20. ASSUME NEW l \in Candidates, BeginPublication(l)
      PROVE  NothingAdmitted
  BY <1>20 DEF BeginPublication, admissionVars
<1>21. ASSUME ReleasePublication
      PROVE  NothingAdmitted
  BY <1>21 DEF ReleasePublication, admissionVars
<1>22. ASSUME NEW t \in Threads, EndDeferral(t)
      PROVE  NothingAdmitted
  BY <1>22 DEF EndDeferral, admissionVars
<1>23. ASSUME NEW t \in Threads, DrainClaim(t)
      PROVE  NothingAdmitted
  BY <1>23 DEF DrainClaim, admissionVars
<1>24. ASSUME NEW t \in Threads, DrainStop(t)
      PROVE  NothingAdmitted
  BY <1>24 DEF DrainStop, admissionVars
<1>25. ASSUME NEW t \in Threads, DrainPop(t)
      PROVE  NothingAdmitted
  BY <1>25 DEF DrainPop, admissionVars
<1>26. ASSUME NEW t \in Threads, NEW c \in Configs, CallbackRefresh(t, c)
      PROVE  NothingAdmitted
  BY <1>26 DEF CallbackRefresh, admissionVars
<1>27. ASSUME NEW t \in Threads, CallbackExpire(t)
      PROVE  NothingAdmitted
  <2>1. CASE pc[t].key.seq > Retention
    <3>1. validations' \subseteq validations
      BY <1>27, <2>1 DEF CallbackExpire, ExpireOld
    <3> QED
      BY <1>27, <3>1 DEF CallbackExpire
  <2>2. CASE ~(pc[t].key.seq > Retention)
    BY <1>27, <2>2 DEF CallbackExpire
  <2> QED
    BY <2>1, <2>2
<1>28. ASSUME Tick
      PROVE  NothingAdmitted
  BY <1>28, SMTT(30) DEF Tick, admissionVars
<1>29. ASSUME NEW l \in Ledgers, Acquire(l)
      PROVE  NothingAdmitted
  BY <1>29 DEF Acquire, admissionVars
<1>30. CASE UNCHANGED vars
  BY <1>30 DEF vars, admissionVars
<1> QED
  BY <1>1, <1>2, <1>3, <1>7, <1>8, <1>9, <1>10, <1>11,
     <1>12, <1>13, <1>14, <1>15, <1>16, <1>17, <1>18, <1>19, <1>20, <1>21,
     <1>22, <1>23, <1>24, <1>25, <1>26, <1>27, <1>28, <1>29, <1>30 DEF Next,
     ThreadStep, Call, Atomic

\* A call about to admit carries a validation that was current when it was read.
LEMMA AdmitStamp ==
    ASSUME TypeOK, InFlight, NEW t \in Threads, pc[t].step = "admit"
    PROVE  /\ pc[t].val \in Messages /\ pc[t].at \in Nat /\ now \in Nat
           /\ pc[t].at <= now /\ now - pc[t].at <= MaxStall
           /\ pc[t].val.sign > pc[t].at - Early /\ pc[t].val.sign < pc[t].at + Wall
<1>1. pc[t] \in ThreadState /\ Carries(pc[t]) /\ now \in Nat
  BY DEF TypeOK
<1>2. pc[t].val \in Messages /\ pc[t].at \in Nat
  BY <1>1 DEF Carries, ThreadState
<1>3. Stamped(pc[t]) /\ pc[t].val # NoVal
  BY <1>2, MessagesAssumption DEF InFlight
<1> QED
  BY <1>1, <1>2, <1>3 DEF Stamped, IsCurrent

\* The tracked entry is the validation itself or older evidence of the same node
\* and sequence that the validation does not follow by more than the window.
LEMMA TrackedEntry ==
    ASSUME TypeOK, NEW m \in Messages
    PROVE  \/ Tracked(m) = m
           \/ /\ Tracked(m) \in bySequence /\ Tracked(m) \in Messages
              /\ Tracked(m).node = m.node /\ Tracked(m).seq = m.seq
              /\ ~(m.sign - Tracked(m).sign > Wall)
<1> DEFINE old == {e \in bySequence : e.node = m.node /\ e.seq = m.seq
                                     /\ ~(m.sign - e.sign > Wall)}
<1>1. CASE old = {}
  BY <1>1 DEF Tracked
<1>2. CASE old # {}
  <2>1. Tracked(m) \in old
    BY <1>2 DEF Tracked
  <2> QED
    BY <2>1 DEF TypeOK
<1> QED
  BY <1>1, <1>2

\* Recording a validation keeps the evidence within the clock's reach.
LEMMA TrackCurrent ==
    ASSUME TypeOK, EvidenceInv, NEW m \in Messages, NEW at, TrackBySequence(m, at),
           m.sign < now + Wall, now' = now
    PROVE  \A e \in bySequence' : e.sign < now' + Wall
BY TrackedEntry DEF TrackBySequence, EvidenceInv

\* A node convicted by a rejected validation signed both of the two that differ,
\* within one window (trackBySequenceLocked).
LEMMA ConvictionSound ==
    ASSUME TypeOK, InFlight, EvidenceInv, NEW t \in Threads, pc[t].step = "admit",
           DoubleSigned(pc[t].val)
    PROVE  \E a, b \in Messages :
              /\ a.node = pc[t].val.node /\ b.node = pc[t].val.node /\ a.seq = b.seq /\ a # b
              /\ a.sign <= b.sign /\ b.sign - a.sign < Early + Wall + MaxStall
<1> DEFINE m == pc[t].val
           e == Tracked(m)
<1>1. /\ m \in Messages /\ pc[t].at \in Nat /\ now \in Nat
      /\ pc[t].at <= now /\ now - pc[t].at <= MaxStall
      /\ m.sign > pc[t].at - Early /\ m.sign < pc[t].at + Wall
  BY AdmitStamp
<1>2. e # m
  BY DEF DoubleSigned
<1>3. /\ e \in bySequence /\ e \in Messages /\ e.node = m.node /\ e.seq = m.seq
      /\ ~(m.sign - e.sign > Wall)
  BY <1>1, <1>2, TrackedEntry
<1>4. m.sign \in Nat /\ e.sign \in Nat /\ e.sign < now + Wall
  BY <1>1, <1>3, MessageTimes DEF EvidenceInv
<1> HIDE DEF m, e
<1>5. CASE e.sign <= m.sign
  <2>1. m.sign - e.sign < Early + Wall + MaxStall
    BY <1>3, <1>4, WindowNumbers, SMTT(30)
  <2> QED
    BY <1>1, <1>2, <1>3, <1>5, <2>1 DEF m
<1>6. CASE m.sign <= e.sign
  <2>1. e.sign - m.sign < Early + Wall + MaxStall
    BY <1>1, <1>4, WindowNumbers, SMTT(30)
  <2> QED
    BY <1>1, <1>2, <1>3, <1>6, <2>1 DEF m
<1> QED
  BY <1>4, <1>5, <1>6, SMTT(30)

\* An enforcer that advances still covers what the node had stored, or its window
\* had passed: the step of one node's floor.
LEMMA AdvanceCovers ==
    ASSUME TypeOK, InFlight, EvidenceInv, NEW t \in Threads, pc[t].step = "admit",
           Advances(pc[t].val, pc[t].at), now' = now,
           seqEnforcers' = [seqEnforcers EXCEPT
               ![pc[t].val.node] = [seq |-> pc[t].val.seq, when |-> pc[t].at]]
    PROVE  \A v \in validations : Covered(v)'
<1> DEFINE m == pc[t].val
           at == pc[t].at
<1>1. /\ m \in Messages /\ at \in Nat /\ now \in Nat
      /\ at <= now /\ now - at <= MaxStall
      /\ m.sign > at - Early /\ m.sign < at + Wall
  BY AdmitStamp
<1>2. SUFFICES ASSUME NEW v \in validations
               PROVE  Covered(v)'
  OBVIOUS
<1>3. v \in Messages /\ v.sign \in Nat /\ v.seq \in Nat /\ v.node \in Nodes
  BY MessageTimes DEF TypeOK
<1>4. /\ seqEnforcers[v.node] \in [seq : Nat, when : Nat]
      /\ m.node \in Nodes /\ m.seq \in Nat
      /\ DOMAIN seqEnforcers = Nodes
  BY <1>1, <1>3, MessageTimes DEF TypeOK
<1>5. v.sign < now + Wall /\ Covered(v)
  BY DEF EvidenceInv
<1>6. CASE v.node # m.node
  BY <1>3, <1>4, <1>5, <1>6 DEF Covered
<1>7. CASE v.node = m.node
  <2>1. seqEnforcers'[v.node].seq = m.seq /\ seqEnforcers'[v.node].when = at
    BY <1>3, <1>4, <1>7
  <2>2. at > v.sign - Wall - MaxStall
    BY <1>1, <1>3, <1>5, WindowReach
  <2>3. CASE now > v.sign - Wall - MaxStall + SetExpires
    BY <2>3, <1>7 DEF Covered
  <2>4. CASE seqEnforcers[v.node].seq >= v.seq /\ seqEnforcers[v.node].when > v.sign - Wall - MaxStall
    <3>1. CASE at - seqEnforcers[v.node].when > SetExpires
      <4>1. now > v.sign - Wall - MaxStall + SetExpires
        BY <1>1, <1>3, <1>4, <2>4, <3>1, WindowPassed
      <4> QED
        BY <4>1 DEF Covered
    <3>2. CASE m.seq > seqEnforcers[v.node].seq
      <4>1. m.seq >= v.seq
        BY <1>3, <1>4, <2>4, <3>2, SMTT(30)
      <4> QED
        BY <2>1, <2>2, <4>1 DEF Covered
    <3> QED
      BY <1>7, <3>1, <3>2 DEF Advances
  <2> QED
    BY <1>5, <2>3, <2>4 DEF Covered
<1> QED
  BY <1>6, <1>7

\* A validation that advances past stored evidence of its own sequence was signed a
\* whole expiry window later, less the windows of the two clocks involved.
LEMMA AdvanceGap ==
    ASSUME TypeOK, InFlight, EvidenceInv, NEW t \in Threads, pc[t].step = "admit",
           Advances(pc[t].val, pc[t].at),
           NEW v \in validations, v.node = pc[t].val.node, v.seq = pc[t].val.seq
    PROVE  pc[t].val.sign - v.sign > SetExpires - Early - Wall - 2 * MaxStall
<1> DEFINE m == pc[t].val
           at == pc[t].at
<1>1. /\ m \in Messages /\ at \in Nat /\ now \in Nat
      /\ at <= now /\ now - at <= MaxStall
      /\ m.sign > at - Early /\ m.sign < at + Wall
  BY AdmitStamp
<1>2. /\ v \in Messages /\ v.sign \in Nat /\ v.seq \in Nat /\ v.node \in Nodes
      /\ m.sign \in Nat
  BY <1>1, MessageTimes DEF TypeOK
<1>3. seqEnforcers[v.node] \in [seq : Nat, when : Nat]
  BY <1>2 DEF TypeOK
<1>4. Covered(v)
  BY DEF EvidenceInv
<1>5. now > v.sign - Wall - MaxStall + SetExpires
  <2>1. CASE seqEnforcers[v.node].seq >= v.seq /\ seqEnforcers[v.node].when > v.sign - Wall - MaxStall
    <3>1. ~(m.seq > seqEnforcers[v.node].seq)
      BY <1>2, <1>3, <2>1, SMTT(30)
    <3>2. at - seqEnforcers[v.node].when > SetExpires
      BY <3>1 DEF Advances
    <3> QED
      BY <1>1, <1>2, <1>3, <2>1, <3>2, WindowPassed
  <2> QED
    BY <1>4, <2>1 DEF Covered
<1> HIDE DEF m, at
<1>6. m.sign - v.sign > SetExpires - Early - Wall - 2 * MaxStall
  BY <1>1, <1>2, <1>5, WindowGap
<1> QED
  BY <1>6 DEF m

\* The evidence invariant survives every step.
LEMMA EvidenceStep ==
    ASSUME TypeOK, InFlight, EvidenceInv, [Next]_vars
    PROVE  EvidenceInv'
<1>1. CASE NothingAdmitted
  <2>1. now \in Nat /\ now' >= now /\ now' \in Nat
    BY <1>1, DataStep DEF TypeOK, NothingAdmitted, DataOK
  <2>2. \A v \in bySequence \cup validations : v \in Messages /\ v.sign \in Nat
    BY MessageTimes DEF TypeOK
  <2>3. \A e \in bySequence' : e.sign < now' + Wall
    BY <1>1, <2>1, <2>2, WindowLater DEF EvidenceInv, NothingAdmitted
  <2>4. \A v \in validations' : v.sign < now' + Wall
    BY <1>1, <2>1, <2>2, WindowLater DEF EvidenceInv, NothingAdmitted
  <2>5. ASSUME NEW v \in validations'
        PROVE  Covered(v)'
    <3>1. v \in validations /\ Covered(v) /\ v.sign \in Nat /\ v.node \in Nodes
      BY <1>1, <2>2, <2>5, MessageTimes DEF EvidenceInv, NothingAdmitted
    <3>2. seqEnforcers[v.node] \in [seq : Nat, when : Nat]
      BY <3>1 DEF TypeOK
    <3>3. CASE seqEnforcers'[v.node] = seqEnforcers[v.node]
      BY <2>1, <3>1, <3>3, WindowLater DEF Covered
    <3>4. CASE now - seqEnforcers[v.node].when > SetExpires
      <4>1. now <= now /\ seqEnforcers[v.node].when \in Nat
        BY <2>1, <3>2, SMTT(30)
      <4>2. now > v.sign - Wall - MaxStall + SetExpires
        BY <2>1, <3>1, <3>4, <4>1, WindowPassed DEF Covered
      <4> QED
        BY <2>1, <3>1, <4>2, WindowLater DEF Covered
    <3> QED
      BY <1>1, <2>5, <3>1, <3>3, <3>4 DEF NothingAdmitted
  <2> QED
    BY <2>3, <2>4, <2>5 DEF EvidenceInv
<1>2. ASSUME NEW t \in Threads, Admit(t)
      PROVE  EvidenceInv'
  <2> DEFINE m == pc[t].val
             at == pc[t].at
  <2>1. pc[t].step = "admit" /\ TrackBySequence(m, at) /\ now' = now
    BY <1>2 DEF Admit, AdmitRejected, AdmitBelowFloor, AdmitStored
  <2>2. /\ m \in Messages /\ at \in Nat /\ now \in Nat
        /\ at <= now /\ now - at <= MaxStall
        /\ m.sign > at - Early /\ m.sign < at + Wall
    BY <2>1, AdmitStamp
  <2>3. m.sign < now + Wall /\ m.sign \in Nat /\ m.seq \in Nat /\ m.node \in Nodes
    BY <2>2, MessageTimes, WindowNumbers, SMTT(30)
  <2>4. \A e \in bySequence' : e.sign < now' + Wall
    BY <2>1, <2>2, <2>3, TrackCurrent
  <2>5. CASE AdmitRejected(t)
    <3>1. validations' = validations /\ seqEnforcers' = seqEnforcers
      BY <2>5 DEF AdmitRejected
    <3> QED
      BY <2>1, <2>4, <3>1 DEF EvidenceInv, Covered
  <2>6. CASE AdmitBelowFloor(t) \/ AdmitStored(t)
    <3>1. /\ Advances(m, at)
          /\ seqEnforcers' = [seqEnforcers EXCEPT ![m.node] = [seq |-> m.seq, when |-> at]]
          /\ validations' \subseteq validations \cup {m}
      BY <2>6 DEF AdmitBelowFloor, AdmitStored
    <3>2. \A v \in validations : Covered(v)'
      BY <2>1, <3>1, AdvanceCovers
    <3>3. seqEnforcers'[m.node] = [seq |-> m.seq, when |-> at]
      BY <2>3, <3>1 DEF TypeOK
    <3>4. \A v : v = m => Covered(v)'
      <4>1. at > m.sign - Wall - MaxStall /\ m.seq >= m.seq
        BY <2>2, <2>3, WindowReach, SMTT(30)
      <4>2. seqEnforcers'[m.node].seq = m.seq /\ seqEnforcers'[m.node].when = at
        BY <3>3, SMTT(30)
      <4> HIDE DEF m, at
      <4> QED
        BY <4>1, <4>2 DEF Covered
    <3>5. \A v \in validations' : v.sign < now' + Wall
      BY <2>1, <2>3, <3>1 DEF EvidenceInv
    <3>6. \A v \in validations' : Covered(v)'
      BY <3>1, <3>2, <3>4
    <3> QED
      BY <2>4, <3>5, <3>6 DEF EvidenceInv
  <2> QED
    BY <1>2, <2>5, <2>6 DEF Admit
<1> QED
  BY <1>1, <1>2, EvidenceShape

\* No step stores a second vote of one sequence inside the window.
LEMMA OneVoteStep ==
    ASSUME TypeOK, InFlight, EvidenceInv, OneVotePerSeq, [Next]_vars
    PROVE  OneVotePerSeq'
<1>1. CASE validations' \subseteq validations
  BY <1>1 DEF OneVotePerSeq
<1>2. ASSUME NEW t \in Threads, AdmitStored(t)
      PROVE  OneVotePerSeq'
  <2> DEFINE m == pc[t].val
             gap == SetExpires - Early - Wall - 2 * MaxStall
  <2>1. pc[t].step = "admit" /\ Advances(m, pc[t].at)
    BY <1>2 DEF AdmitStored
  <2>2. \A v \in validations : v.node = m.node /\ v.seq = m.seq => m.sign - v.sign > gap
    BY <2>1, AdvanceGap
  <2>3. validations' \subseteq validations \cup {m}
    BY <1>2 DEF AdmitStored
  <2> HIDE DEF m
  <2>4. ASSUME NEW a \in validations', NEW b \in validations',
               a.node = b.node, a.seq = b.seq, a.ledger # b.ledger
        PROVE  a.sign - b.sign > gap \/ b.sign - a.sign > gap
    <3>1. CASE a \in validations /\ b \in validations
      BY <2>4, <3>1 DEF OneVotePerSeq
    <3>2. CASE a = m /\ b \in validations
      BY <2>2, <2>4, <3>2
    <3>3. CASE b = m /\ a \in validations
      BY <2>2, <2>4, <3>3
    <3>4. CASE a = m /\ b = m
      BY <2>4, <3>4
    <3> QED
      BY <2>3, <2>4, <3>1, <3>2, <3>3, <3>4
  <2> QED
    BY <2>4 DEF OneVotePerSeq
<1>3. ASSUME NEW t \in Threads, AdmitRejected(t) \/ AdmitBelowFloor(t)
      PROVE  validations' = validations
  BY <1>3 DEF AdmitRejected, AdmitBelowFloor
<1> QED
  BY <1>1, <1>2, <1>3, EvidenceShape DEF NothingAdmitted, Admit

\* No step accuses a validator that did not sign twice.
LEMMA AccusedStep ==
    ASSUME TypeOK, InFlight, EvidenceInv, AccusedSigned, [Next]_vars
    PROVE  AccusedSigned'
<1>1. CASE accused' = accused
  BY <1>1 DEF AccusedSigned
<1>2. ASSUME NEW t \in Threads, AdmitRejected(t), DoubleSigned(pc[t].val)
      PROVE  AccusedSigned'
  <2>1. accused' = accused \cup {pc[t].val.node} /\ pc[t].step = "admit"
    BY <1>2 DEF AdmitRejected
  <2> QED
    BY <1>2, <2>1, ConvictionSound, SMTT(30) DEF AccusedSigned
<1>3. ASSUME NEW t \in Threads, Admit(t), ~(AdmitRejected(t) /\ DoubleSigned(pc[t].val))
      PROVE  accused' = accused
  BY <1>3 DEF Admit, AdmitRejected, AdmitBelowFloor, AdmitStored
<1> QED
  BY <1>1, <1>2, <1>3, EvidenceShape DEF NothingAdmitted

\* Stamps and evidence, together with the types, are inductive.
LEMMA EvidenceCorrect == Spec => [](InFlight /\ EvidenceInv)
<1>1. Init => InFlight /\ EvidenceInv
  <2> SUFFICES ASSUME Init
               PROVE  InFlight /\ EvidenceInv
    OBVIOUS
  <2>1. \A t \in Threads : pc[t].val = NoVal
    BY DEF Init, Idle
  <2> QED
    BY <2>1 DEF Init, InFlight, Stamped, EvidenceInv
<1>2. TypeOK /\ InFlight /\ EvidenceInv /\ [Next]_vars => (InFlight /\ EvidenceInv)'
  BY InFlightStep, EvidenceStep
<1> QED
  BY <1>1, <1>2, TypeCorrect, PTL DEF Spec

\* A validator counts for two ledgers of one sequence only if it signed them so far
\* apart that its floor had expired: see OneVotePerSeq and seqEnforcer.advance.
THEOREM OneVoteCorrect == Spec => []OneVotePerSeq
<1>1. Init => OneVotePerSeq
  BY DEF Init, OneVotePerSeq
<1>2. TypeOK /\ InFlight /\ EvidenceInv /\ OneVotePerSeq /\ [Next]_vars => OneVotePerSeq'
  BY OneVoteStep
<1> QED
  BY <1>1, <1>2, TypeCorrect, EvidenceCorrect, PTL DEF Spec

\* Only validators that signed two different validations of one sequence within one
\* window are accused, in whichever order the validations arrive: see AccusedSigned
\* and trackBySequenceLocked.
THEOREM AccusedCorrect == Spec => []AccusedSigned
<1>1. Init => AccusedSigned
  BY DEF Init, AccusedSigned
<1>2. TypeOK /\ InFlight /\ EvidenceInv /\ AccusedSigned /\ [Next]_vars => AccusedSigned'
  BY AccusedStep
<1> QED
  BY <1>1, <1>2, TypeCorrect, EvidenceCorrect, PTL DEF Spec

\* Nothing steers but trusted current validations: the second half of
\* SteeringCorrect on its own (rebuildTrieLocked, updateTrieLocked).
THEOREM SoundCorrect == Spec => []SteeringSound
BY SteeringCorrect, PTL

(* The publication lease *)

\* More support never loses a quorum.
LEMMA SupportQuorum ==
    ASSUME NEW cfg \in [trusted : SUBSET Nodes, quorum : Nat, negUNL : SUBSET Nodes],
           NEW vals, NEW fewer, NEW k, HasQuorum(fewer, cfg, k),
           Supporters(fewer, cfg, k) \subseteq Supporters(vals, cfg, k)
    PROVE  HasQuorum(vals, cfg, k)
<1>1. IsFiniteSet(Supporters(vals, cfg, k))
  <2>1. Supporters(vals, cfg, k) \subseteq Nodes
    BY DEF Supporters
  <2> QED
    BY <2>1, ConfigsAssumption, FS_Subset
<1>2. /\ Cardinality(Supporters(fewer, cfg, k)) <= Cardinality(Supporters(vals, cfg, k))
      /\ IsFiniteSet(Supporters(fewer, cfg, k))
  BY <1>1, FS_Subset
<1>3. /\ Cardinality(Supporters(fewer, cfg, k)) \in Nat
      /\ Cardinality(Supporters(vals, cfg, k)) \in Nat
  BY <1>1, <1>2, FS_CardinalityType
<1> QED
  BY <1>2, <1>3, SMTT(30) DEF HasQuorum

\* Losing evidence never creates a quorum.
LEMMA QuorumMonotone ==
    ASSUME NEW cfg \in [trusted : SUBSET Nodes, quorum : Nat, negUNL : SUBSET Nodes],
           NEW vals, NEW fewer \in SUBSET vals, NEW k, HasQuorum(fewer, cfg, k)
    PROVE  HasQuorum(vals, cfg, k)
<1>1. Supporters(fewer, cfg, k) \subseteq Supporters(vals, cfg, k)
  BY DEF Supporters
<1> QED
  BY <1>1, SupportQuorum

\* No critical section gives a rival of the leased ledger a quorum.
LEMMA FenceStep ==
    ASSUME TypeOK, PublicationFence, [Next]_vars
    PROVE  PublicationFence'
<1>1. ASSUME NEW t \in Threads, CheckAcquired(t)
      PROVE  PublicationFence'
  BY <1>1 DEF PublicationFence, CheckAcquired, admissionVars
<1>2. ASSUME NEW t \in Threads, ApplyAcquired(t)
      PROVE  PublicationFence'
  BY <1>2 DEF PublicationFence, ApplyAcquired, admissionVars
<1>3. ASSUME NEW t \in Threads, NEW m \in Messages, NEW engine \in BOOLEAN, AddBegin(t, m, engine)
      PROVE  PublicationFence'
  BY <1>3 DEF PublicationFence, AddBegin, admissionVars
<1>4. ASSUME NEW t \in Threads, AdmitRejected(t)
      PROVE  PublicationFence'
  BY <1>4 DEF PublicationFence, AdmitRejected, UpdateConfig, NoLease
<1>5. ASSUME NEW t \in Threads, AdmitBelowFloor(t)
      PROVE  PublicationFence'
  BY <1>5 DEF PublicationFence, AdmitBelowFloor, UpdateConfig, NoLease
<1>6. ASSUME NEW t \in Threads, AdmitStored(t)
      PROVE  PublicationFence'
  BY <1>6 DEF PublicationFence, AdmitStored, UpdateConfig, NoLease
<1>7. ASSUME NEW t \in Threads, NEW c \in Configs, RefreshConfig(t, c)
      PROVE  PublicationFence'
  BY <1>7 DEF PublicationFence, RefreshConfig, UpdateConfig, NoLease
<1>8. ASSUME NEW t \in Threads, NEW c \in Configs, RefreshConfigDeferred(t, c)
      PROVE  PublicationFence'
  BY <1>8 DEF PublicationFence, RefreshConfigDeferred, UpdateConfig, NoLease
<1>9. ASSUME NEW t \in Threads, NEW c \in Configs, SetNegativeUNL(t, c.negUNL)
      PROVE  PublicationFence'
  BY <1>9 DEF PublicationFence, SetNegativeUNL, UpdateConfig, NoLease
<1>10. ASSUME NEW t \in Threads, SetFullyValidatedCallback(t)
      PROVE  PublicationFence'
  BY <1>10 DEF PublicationFence, SetFullyValidatedCallback, UpdateConfig, NoLease
<1>11. ASSUME CloseGate
      PROVE  PublicationFence'
  BY <1>11 DEF PublicationFence, CloseGate, admissionVars
<1>12. ASSUME NEW t \in Threads, OpenGate(t)
      PROVE  PublicationFence'
  BY <1>12 DEF PublicationFence, OpenGate, admissionVars
<1>13. ASSUME NEW t \in Threads, RecheckAfterOpen(t)
      PROVE  PublicationFence'
  BY <1>13 DEF PublicationFence, RecheckAfterOpen, admissionVars
<1>14. ASSUME NEW s \in SeqFloors, SetMinSeq(s)
      PROVE  PublicationFence'
  BY <1>14 DEF PublicationFence, SetMinSeq, admissionVars
<1>15. ASSUME NEW p \in Pins, SetSeqToKeep(p)
      PROVE  PublicationFence'
  BY <1>15 DEF PublicationFence, SetSeqToKeep, admissionVars
<1>16. ASSUME NEW l \in Ledgers, ReadValidations(l)
      PROVE  PublicationFence'
  BY <1>16 DEF PublicationFence, ReadValidations, admissionVars
<1>17. ASSUME FlushStale
      PROVE  PublicationFence'
  BY <1>17 DEF PublicationFence, FlushStale, admissionVars
<1>18. ASSUME Flush
      PROVE  PublicationFence'
  BY <1>18 DEF PublicationFence, Flush, UpdateConfig, NoLease
<1>19. ASSUME NEW l \in Candidates, RecheckFullyValidated([ledger |-> l, seq |-> LedgerSeq[l]])
      PROVE  PublicationFence'
  BY <1>19 DEF PublicationFence, RecheckFullyValidated, admissionVars
<1>20. ASSUME NEW l \in Candidates, BeginPublication(l)
      PROVE  PublicationFence'
  BY <1>20 DEF PublicationFence, BeginPublication, QuorumValidatedLedgers, admissionVars
<1>21. ASSUME ReleasePublication
      PROVE  PublicationFence'
  BY <1>21 DEF PublicationFence, ReleasePublication, UpdateConfig, NoLease
<1>22. ASSUME NEW t \in Threads, EndDeferral(t)
      PROVE  PublicationFence'
  BY <1>22 DEF PublicationFence, EndDeferral, admissionVars
<1>23. ASSUME NEW t \in Threads, DrainClaim(t)
      PROVE  PublicationFence'
  BY <1>23 DEF PublicationFence, DrainClaim, admissionVars
<1>24. ASSUME NEW t \in Threads, DrainStop(t)
      PROVE  PublicationFence'
  BY <1>24 DEF PublicationFence, DrainStop, admissionVars
<1>25. ASSUME NEW t \in Threads, DrainPop(t)
      PROVE  PublicationFence'
  BY <1>25 DEF PublicationFence, DrainPop, admissionVars
<1>26. ASSUME NEW t \in Threads, NEW c \in Configs, CallbackRefresh(t, c)
      PROVE  PublicationFence'
  BY <1>26 DEF PublicationFence, CallbackRefresh, UpdateConfig, NoLease
<1>27. ASSUME NEW t \in Threads, CallbackExpire(t)
      PROVE  PublicationFence'
  <2>1. UNCHANGED <<config, lease>> /\ validations' \subseteq validations
    BY <1>27 DEF CallbackExpire, ExpireOld
  <2> QED
    BY <2>1, QuorumMonotone DEF TypeOK, PublicationFence
<1>28. ASSUME Tick
      PROVE  PublicationFence'
  BY <1>28 DEF PublicationFence, Tick, admissionVars
<1>29. ASSUME NEW l \in Ledgers, Acquire(l)
      PROVE  PublicationFence'
  BY <1>29 DEF PublicationFence, Acquire, admissionVars
<1>30. CASE UNCHANGED vars
  BY <1>30 DEF PublicationFence, vars, admissionVars
<1> QED
  BY <1>1, <1>2, <1>3, <1>4, <1>5, <1>6, <1>7, <1>8, <1>9, <1>10, <1>11,
     <1>12, <1>13, <1>14, <1>15, <1>16, <1>17, <1>18, <1>19, <1>20, <1>21,
     <1>22, <1>23, <1>24, <1>25, <1>26, <1>27, <1>28, <1>29, <1>30 DEF Next,
     ThreadStep, Call, Atomic, Admit

\* A publication is never overtaken by a rival's quorum: see PublicationFence.
THEOREM FenceCorrect == Spec => []PublicationFence
<1>1. Init => PublicationFence
  <2>1. Init => lease = NoLease
    BY DEF Init
  <2>2. NoLease.open = FALSE
    BY DEF NoLease
  <2> QED
    BY <2>1, <2>2 DEF PublicationFence
<1>2. TypeOK /\ PublicationFence /\ [Next]_vars => PublicationFence'
  BY FenceStep
<1> QED
  BY <1>1, <1>2, TypeCorrect, PTL DEF Spec

(* Finality has its quorum *)

\* A recheck leaves no mark without a quorum on the ledgers it looks at, and adds
\* none to the others.
LEMMA CheckFullMarks ==
    ASSUME NEW K, NEW vals, NEW cfg, NEW unavailable, NEW callback,
           CheckFullValidation(K, vals, cfg, unavailable, callback), NEW k \in fired'
    PROVE  HasQuorum(vals, cfg, k) \/ (k \in fired /\ k \notin K)
BY DEF CheckFullValidation

\* A ledger with a quorum is among those a recheck of all evidence looks at.
LEMMA QuorumEvidence ==
    ASSUME NEW vals, NEW cfg, NEW k, HasQuorum(vals, cfg, k)
    PROVE  k \in EvidenceKeys(vals)
BY DEF HasQuorum, Supporters, EvidenceKeys

\* After a recheck under configuration c every mark has its quorum.
LEMMA RecheckBacked ==
    ASSUME TypeOK, FinalBacked, NEW callback,
           CheckFullValidation(EvidenceKeys(validations), validations, config', quorumUnavailable, callback),
           UNCHANGED validations
    PROVE  FinalBacked'
<1> SUFFICES ASSUME NEW k \in fired', Unequivocal(k)
             PROVE  HasQuorum(validations', config', k)
  BY DEF FinalBacked
<1>1. CASE HasQuorum(validations, config', k)
  BY <1>1
<1>2. CASE k \in fired /\ k \notin EvidenceKeys(validations)
  BY <1>2, QuorumEvidence DEF FinalBacked
<1> QED
  BY <1>1, <1>2, CheckFullMarks

\* A second validation of an unequivocal ledger takes no support away from it.
LEMMA ReplacedSupport ==
    ASSUME TypeOK, NEW m \in Messages, NEW k, Unequivocal(k), HasQuorum(validations, config, k),
           validations' = {v \in validations : v.ledger # m.ledger \/ v.node # m.node} \cup {m}
    PROVE  HasQuorum(validations', config, k)
<1>1. validations \subseteq Messages
  BY DEF TypeOK
<1>2. ASSUME NEW n \in Supporters(validations, config, k)
      PROVE  n \in Supporters(validations', config, k)
  <2>1. PICK v \in validations : v.node = n /\ KeyOf(v) = k /\ v.full
    BY DEF Supporters
  <2>2. CASE v.ledger # m.ledger \/ v.node # m.node
    BY <2>1, <2>2 DEF Supporters
  <2>3. CASE v.ledger = m.ledger /\ v.node = m.node
    <3>1. v \in Messages /\ v.ledger = k.ledger
      BY <1>1, <2>1, SMTT(30) DEF KeyOf
    <3>2. KeyOf(m) = k /\ m.full = v.full
      BY <2>3, <3>1 DEF Unequivocal
    <3> QED
      BY <2>1, <2>3, <3>2 DEF Supporters
  <2> QED
    BY <2>2, <2>3
<1>3. Supporters(validations, config, k) \subseteq Supporters(validations', config, k)
  BY <1>2
<1> QED
  BY <1>3, SupportQuorum DEF TypeOK

\* No critical section leaves a mark without a quorum.
LEMMA BackedStep ==
    ASSUME TypeOK, FinalBacked, [Next]_vars
    PROVE  FinalBacked'
<1>1. ASSUME NEW t \in Threads, CheckAcquired(t)
      PROVE  FinalBacked'
  BY <1>1 DEF FinalBacked, CheckAcquired, admissionVars, finalityVars
<1>2. ASSUME NEW t \in Threads, ApplyAcquired(t)
      PROVE  FinalBacked'
  BY <1>2 DEF FinalBacked, ApplyAcquired, admissionVars, finalityVars
<1>3. ASSUME NEW t \in Threads, NEW m \in Messages, NEW engine \in BOOLEAN, AddBegin(t, m, engine)
      PROVE  FinalBacked'
  BY <1>3 DEF FinalBacked, AddBegin, admissionVars, finalityVars
<1>4. ASSUME NEW t \in Threads, AdmitRejected(t)
      PROVE  FinalBacked'
  BY <1>4 DEF FinalBacked, AdmitRejected, finalityVars
<1>5. ASSUME NEW t \in Threads, AdmitBelowFloor(t)
      PROVE  FinalBacked'
  BY <1>5 DEF FinalBacked, AdmitBelowFloor, finalityVars
<1>6. ASSUME NEW t \in Threads, AdmitStored(t)
      PROVE  FinalBacked'
  <2> SUFFICES ASSUME NEW k \in fired', Unequivocal(k)
               PROVE  HasQuorum(validations', config', k)
    BY DEF FinalBacked
  <2>1. pc[t].val \in Messages /\ config' = config
    BY <1>6 DEF TypeOK, Carries, AdmitStored
  <2>2. CASE k \in fired
    BY <1>6, <2>1, <2>2, ReplacedSupport DEF FinalBacked, AdmitStored
  <2>3. CASE k \notin fired
    <3>1. CheckFullValidation({KeyOf(pc[t].val)}, validations', config, quorumUnavailable, callbackSet)
      BY <1>6, <2>3 DEF AdmitStored, finalityVars
    <3> QED
      BY <2>1, <2>3, <3>1, CheckFullMarks
  <2> QED
    BY <2>2, <2>3
<1>7. ASSUME NEW t \in Threads, NEW c \in Configs, RefreshConfig(t, c)
      PROVE  FinalBacked'
  BY <1>7, RecheckBacked DEF RefreshConfig, UpdateConfig, RecheckFinality, admissionVars, finalityVars
<1>8. ASSUME NEW t \in Threads, NEW c \in Configs, RefreshConfigDeferred(t, c)
      PROVE  FinalBacked'
  BY <1>8, RecheckBacked DEF RefreshConfigDeferred, UpdateConfig, RecheckFinality, admissionVars, finalityVars
<1>9. ASSUME NEW t \in Threads, NEW c \in Configs, SetNegativeUNL(t, c.negUNL)
      PROVE  FinalBacked'
  BY <1>9, RecheckBacked DEF SetNegativeUNL, RecheckFinality, admissionVars, finalityVars
<1>10. ASSUME NEW t \in Threads, SetFullyValidatedCallback(t)
      PROVE  FinalBacked'
  <2>1. UNCHANGED <<validations, config>>
    BY <1>10 DEF SetFullyValidatedCallback, admissionVars, finalityVars
  <2> QED
    BY <1>10, <2>1, RecheckBacked DEF SetFullyValidatedCallback
<1>11. ASSUME CloseGate
      PROVE  FinalBacked'
  BY <1>11 DEF FinalBacked, CloseGate, admissionVars, finalityVars
<1>12. ASSUME NEW t \in Threads, OpenGate(t)
      PROVE  FinalBacked'
  BY <1>12 DEF FinalBacked, OpenGate, admissionVars, finalityVars
<1>13. ASSUME NEW t \in Threads, RecheckAfterOpen(t)
      PROVE  FinalBacked'
  <2>1. UNCHANGED <<validations, config>>
    BY <1>13 DEF RecheckAfterOpen, admissionVars, finalityVars
  <2> QED
    BY <1>13, <2>1, RecheckBacked DEF RecheckAfterOpen, RecheckFinality
<1>14. ASSUME NEW s \in SeqFloors, SetMinSeq(s)
      PROVE  FinalBacked'
  BY <1>14 DEF FinalBacked, SetMinSeq, admissionVars, finalityVars
<1>15. ASSUME NEW p \in Pins, SetSeqToKeep(p)
      PROVE  FinalBacked'
  BY <1>15 DEF FinalBacked, SetSeqToKeep, admissionVars, finalityVars
<1>16. ASSUME NEW l \in Ledgers, ReadValidations(l)
      PROVE  FinalBacked'
  BY <1>16 DEF FinalBacked, ReadValidations, admissionVars, finalityVars
<1>17. ASSUME FlushStale
      PROVE  FinalBacked'
  BY <1>17 DEF FinalBacked, FlushStale, admissionVars, finalityVars
<1>18. ASSUME Flush
      PROVE  FinalBacked'
  BY <1>18 DEF FinalBacked, Flush
<1>19. ASSUME NEW l \in Candidates, RecheckFullyValidated([ledger |-> l, seq |-> LedgerSeq[l]])
      PROVE  FinalBacked'
  <2> DEFINE k == [ledger |-> l, seq |-> LedgerSeq[l]]
  <2>1. UNCHANGED <<validations, config>>
    BY <1>19 DEF RecheckFullyValidated
  <2>2. CASE fired' \subseteq fired
    BY <2>1, <2>2 DEF FinalBacked
  <2>3. CASE HasQuorum(validations, config, k) /\ fired' \subseteq fired \cup {k}
    BY <2>1, <2>3 DEF FinalBacked
  <2> QED
    BY <1>19, <2>2, <2>3 DEF RecheckFullyValidated, CancelFinality, finalityVars
<1>20. ASSUME NEW l \in Candidates, BeginPublication(l)
      PROVE  FinalBacked'
  BY <1>20 DEF FinalBacked, BeginPublication, admissionVars, finalityVars
<1>21. ASSUME ReleasePublication
      PROVE  FinalBacked'
  BY <1>21 DEF FinalBacked, ReleasePublication, admissionVars, finalityVars
<1>22. ASSUME NEW t \in Threads, EndDeferral(t)
      PROVE  FinalBacked'
  BY <1>22 DEF FinalBacked, EndDeferral, admissionVars, finalityVars
<1>23. ASSUME NEW t \in Threads, DrainClaim(t)
      PROVE  FinalBacked'
  BY <1>23 DEF FinalBacked, DrainClaim, admissionVars, finalityVars
<1>24. ASSUME NEW t \in Threads, DrainStop(t)
      PROVE  FinalBacked'
  BY <1>24 DEF FinalBacked, DrainStop, admissionVars, finalityVars
<1>25. ASSUME NEW t \in Threads, DrainPop(t)
      PROVE  FinalBacked'
  BY <1>25 DEF FinalBacked, DrainPop, admissionVars, finalityVars
<1>26. ASSUME NEW t \in Threads, NEW c \in Configs, CallbackRefresh(t, c)
      PROVE  FinalBacked'
  BY <1>26, RecheckBacked DEF CallbackRefresh, UpdateConfig, RecheckFinality, admissionVars, finalityVars
<1>27. ASSUME NEW t \in Threads, CallbackExpire(t)
      PROVE  FinalBacked'
  <2>1. CASE UNCHANGED <<validations, finalityVars>>
    BY <1>27, <2>1 DEF CallbackExpire, FinalBacked, finalityVars
  <2>2. CASE \E floor : ExpireOld(floor)
    <3>1. PICK E : /\ validations' = {v \in validations : v.ledger \notin E}
                   /\ CancelFinality({k \in fired : k.ledger \in E})
      BY <2>2 DEF ExpireOld
    <3> SUFFICES ASSUME NEW k \in fired', Unequivocal(k)
                 PROVE  HasQuorum(validations', config', k)
      BY DEF FinalBacked
    <3>2. config' = config
      BY <1>27 DEF CallbackExpire
    <3>3. k \in fired /\ k.ledger \notin E
      BY <3>1 DEF CancelFinality
    <3>4. HasQuorum(validations, config, k)
      BY <3>3 DEF FinalBacked
    <3>5. Supporters(validations, config, k) \subseteq Supporters(validations', config, k)
      <4>1. \A v : KeyOf(v) = k => v.ledger = k.ledger
        BY SMTT(30) DEF KeyOf
      <4> QED
        BY <3>1, <3>3, <4>1 DEF Supporters
    <3> QED
      BY <3>2, <3>4, <3>5, SupportQuorum DEF TypeOK
  <2> QED
    BY <1>27, <2>1, <2>2 DEF CallbackExpire
<1>28. ASSUME Tick
      PROVE  FinalBacked'
  BY <1>28 DEF FinalBacked, Tick, admissionVars, finalityVars
<1>29. ASSUME NEW l \in Ledgers, Acquire(l)
      PROVE  FinalBacked'
  BY <1>29 DEF FinalBacked, Acquire, admissionVars, finalityVars
<1>30. CASE UNCHANGED vars
  BY <1>30 DEF FinalBacked, vars, admissionVars, finalityVars
<1> QED
  BY <1>1, <1>2, <1>3, <1>4, <1>5, <1>6, <1>7, <1>8, <1>9, <1>10, <1>11,
     <1>12, <1>13, <1>14, <1>15, <1>16, <1>17, <1>18, <1>19, <1>20, <1>21,
     <1>22, <1>23, <1>24, <1>25, <1>26, <1>27, <1>28, <1>29, <1>30 DEF Next,
     ThreadStep, Call, Atomic, Admit

\* No finality without its quorum, for any set of validators, messages, threads and
\* configurations: see FinalBacked.
THEOREM BackedCorrect == Spec => []FinalBacked
<1>1. Init => FinalBacked
  BY DEF Init, FinalBacked
<1>2. TypeOK /\ FinalBacked /\ [Next]_vars => FinalBacked'
  BY BackedStep
<1> QED
  BY <1>1, <1>2, TypeCorrect, PTL DEF Spec

============================================================================
