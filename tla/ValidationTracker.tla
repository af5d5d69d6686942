------------------------- MODULE ValidationTracker -------------------------
(***************************************************************************)
(* The RCL validation tracker: which signed validations a node admits,     *)
(* when a ledger is reported fully validated, and which ledger each        *)
(* trusted validator steers towards (internal/consensus/rcl/               *)
(* validations.go and validations_trie.go).                                *)
(*                                                                         *)
(* Every critical section of the tracker's mutex is one action; what the   *)
(* code does between two critical sections of one call is kept in the      *)
(* calling thread's entry of pc, so that calls interleave as they do       *)
(* between goroutines.  The ancestry trie is represented by the tip each   *)
(* validator contributes to it (trieTips); module LedgerTrie shows that    *)
(* the trie's answers are a function of those tips.                        *)
(***************************************************************************)
EXTENDS Integers, FiniteSets

CONSTANTS
    Nodes,       \* validator node IDs
    Messages,    \* the validations that can be delivered, any number of times
    Configs,     \* trusted set, quorum and negative UNL the adaptor may install
    Threads,     \* goroutines calling into the tracker
    LedgerSeq,   \* true sequence of every ledger (ledger IDs are 1, 2, ...)
    Candidates,  \* ledgers whose publication or finality the service asks about
    HashOfSeq,   \* HashOfSeq[l][s]: ancestor of l at sequence s, 0 if unknown
    Early,       \* validationCurrentEarly: how old a sign time may be
    Wall,        \* validationCurrentWall: how far ahead a sign time may be
    SetExpires,  \* validationSetExpires: idle time that resets per-node floors
    MaxTime,     \* bound on the clock
    MaxStall,    \* longest time a call waits between its clock read and its lock
    SeqFloors,   \* floors the engine installs with setMinSeq
    Pins,        \* ranges <<low, high>> pinned with SetSeqToKeep
    Retention,   \* in-memory ledgers kept below a fully validated one
    NoVal        \* absence of a validation

Ledgers == DOMAIN LedgerSeq
Seqs == {m.seq : m \in Messages}
Keys == [ledger : Ledgers, seq : Nat]
NoKey == [ledger |-> 0, seq |-> 0]
KeyOf(m) == [ledger |-> m.ledger, seq |-> m.seq]
NoTip == 0
NoLease == [seq |-> 0, ledger |-> 0, open |-> FALSE]

ASSUME MessagesAssumption ==
    /\ Messages \subseteq [node : Nodes, ledger : Ledgers, seq : Nat \ {0},
                           sign : Nat, full : BOOLEAN, cookie : Nat]
    /\ Ledgers \subseteq Nat \ {0}
    /\ LedgerSeq \in [Ledgers -> Nat \ {0}]
    /\ Candidates \subseteq Ledgers
    /\ HashOfSeq \in [Ledgers -> [Seqs -> Ledgers \cup {0}]]
    /\ NoVal \notin Messages

ASSUME ConfigsAssumption ==
    /\ IsFiniteSet(Nodes)
    /\ Configs \subseteq [trusted : SUBSET Nodes, quorum : Nat, negUNL : SUBSET Nodes]

\* The real windows are 3, 5 and 10 minutes (validations.go:484, engine.go).
ASSUME WindowsAssumption ==
    /\ Early \in Nat \ {0} /\ Wall \in Nat \ {0} /\ SetExpires \in Nat
    /\ SetExpires >= Early + Wall
    /\ MaxTime \in Nat /\ MaxStall \in Nat /\ Retention \in Nat
    /\ SeqFloors \subseteq Nat /\ Pins \subseteq Nat \X Nat

VARIABLES
    now,               \* network-adjusted clock
    validations,       \* per-ledger evidence: one entry per (ledger, node)
    lastAccess,        \* creation or last read of each ledger's evidence
    byNode,            \* each node's current validation
    bySequence,        \* double-sign evidence: one entry per (seq, node)
    touched,           \* last access of each bySequence bucket
    seqEnforcers,      \* per-node sequence floor and when it last advanced
    accused,           \* nodes whose validation was classified as a double sign
    minSeq, keep,      \* admission floor and pinned range
    config,            \* trusted set, quorum, negative UNL
    quorumUnavailable, \* the live finality gate (TRUE closes it)
    callbackSet,       \* onFullyValidated is installed
    fired,             \* ledgers marked as reported
    pendingFinality,   \* notifications queued for the drainer
    pendingGeneration, \* keys whose queued notification is live
    retainedQuorum,    \* highest sequence ever seen with an authenticated quorum
    dispatching,       \* a drainer is active
    deferring,         \* threads inside a finality deferral (finalityDeferrals)
    delivered,         \* history: callbacks invoked since the last cancellation
    trieTips,          \* the tip each node contributes to the trie
    acquiring,         \* (node, ledger) pairs parked until the ledger resolves
    available,         \* ledgers whose ancestry resolves locally
    lease,             \* validation publication in progress
    pc                 \* progress of every thread

admissionVars == <<validations, lastAccess, byNode, bySequence, touched,
                   seqEnforcers, accused>>
finalityVars == <<fired, pendingFinality, pendingGeneration, retainedQuorum,
                  delivered>>
steeringVars == <<trieTips, acquiring>>
limitVars == <<minSeq, keep>>
gateVars == <<quorumUnavailable, callbackSet>>
vars == <<now, admissionVars, limitVars, config, gateVars, finalityVars,
          dispatching, deferring, steeringVars, available,
          lease, pc>>

Idle == [step |-> "idle", then |-> "idle", after |-> "idle", val |-> NoVal,
         at |-> 0, keys |-> {}, same |-> FALSE, resolved |-> FALSE, key |-> NoKey]

Steps == {"idle", "acquired", "admit", "end", "drain", "loop", "callback",
          "expire", "acquire", "recheck"}

-----------------------------------------------------------------------------
(* Freshness and evidence *)

\* SeenTime is the arrival time, never ahead of the clock, so only the sign-time
\* bounds can fail.
IsCurrent(at, m) == m.sign > at - Early /\ m.sign < at + Wall

\* Validators whose full validation of exactly this hash and sequence counts.
Supporters(vals, cfg, k) ==
    {n \in cfg.trusted \ cfg.negUNL :
        \E m \in vals : m.node = n /\ KeyOf(m) = k /\ m.full}

HasQuorum(vals, cfg, k) ==
    /\ Supporters(vals, cfg, k) # {}
    /\ Cardinality(Supporters(vals, cfg, k)) >= cfg.quorum

EvidenceKeys(vals) == {KeyOf(m) : m \in vals}

-----------------------------------------------------------------------------
(* Finality bookkeeping *)

\* Mutant: the sequence comparison reversed.
RetainReversed(F) ==
    \/ F = {} /\ UNCHANGED retainedQuorum
    \/ \E k \in F :
        retainedQuorum' = IF k.seq < retainedQuorum.seq THEN k ELSE retainedQuorum

\* retainQuorumLocked applied to the keys F in (sequence, hash) order: only a
\* higher sequence replaces the proof, and the smallest hash wins at one sequence.
RetainQuorum(F) ==
    \/ F = {} /\ UNCHANGED retainedQuorum
    \/ \E k \in F :
        /\ \A j \in F : j.seq < k.seq \/ (j.seq = k.seq /\ k.ledger <= j.ledger)
        /\ retainedQuorum' = IF k.seq > retainedQuorum.seq THEN k ELSE retainedQuorum

\* Mutant: a ledger already reported is queued again by every recheck.
CheckFullRepeats(K, vals, cfg, unavailable, callback) ==
    LET Full == {k \in K : HasQuorum(vals, cfg, k)}
        Cancelled == (K \ Full) \cup (IF unavailable THEN Full \cap pendingGeneration ELSE {})
        Promoted == IF unavailable \/ ~callback THEN {} ELSE Full
    IN  /\ fired' = (fired \ Cancelled) \cup Promoted
        /\ pendingFinality' = (pendingFinality \ Cancelled) \cup Promoted
        /\ pendingGeneration' = (pendingGeneration \ Cancelled) \cup Promoted
        /\ delivered' = delivered \ Cancelled
        /\ IF unavailable THEN UNCHANGED retainedQuorum ELSE RetainQuorum(Full)

\* checkFullValidationLocked for every key in K: short keys are cancelled, a full
\* one is queued once while the gate is open, a queued one is cancelled while closed.
CheckFullValidation(K, vals, cfg, unavailable, callback) ==
    LET Full == {k \in K : HasQuorum(vals, cfg, k)}
        Cancelled == (K \ Full) \cup (IF unavailable THEN Full \cap pendingGeneration ELSE {})
        Promoted == IF unavailable \/ ~callback THEN {} ELSE Full \ fired
    IN  /\ fired' = (fired \ Cancelled) \cup Promoted
        /\ pendingFinality' =
              (pendingFinality \ Cancelled) \cup (Promoted \ pendingGeneration)
        /\ pendingGeneration' = (pendingGeneration \ Cancelled) \cup Promoted
        /\ delivered' = delivered \ Cancelled
        /\ IF unavailable THEN UNCHANGED retainedQuorum ELSE RetainQuorum(Full)

\* Mutant: a recheck passes over the ledgers it has marked before.
RecheckUnmarked(cfg) ==
    CheckFullValidation(EvidenceKeys(validations) \ fired, validations, cfg,
                        quorumUnavailable, callbackSet)

RecheckFinality(cfg) ==
    CheckFullValidation(EvidenceKeys(validations), validations, cfg,
                        quorumUnavailable, callbackSet)

CancelFinality(K) ==
    /\ fired' = fired \ K
    /\ pendingFinality' = pendingFinality \ K
    /\ pendingGeneration' = pendingGeneration \ K
    /\ delivered' = delivered \ K

-----------------------------------------------------------------------------
(* Steering: the tips of the ancestry trie and the parked validations *)

\* resolveAncestry succeeds only for the requested hash at the requested sequence.
Resolvable(k) == k.ledger \in available /\ LedgerSeq[k.ledger] = k.seq

Steers(n, k) == n \in config.trusted /\ byNode[n] # NoVal /\ KeyOf(byNode[n]) = k

\* Mutants: the rebuild forgets to park, or keeps what was parked before.
RebuildForgets(cfg, current) ==
    trieTips' = [n \in Nodes |-> NoTip] /\ acquiring' = {}

\* rebuildTrieLocked: an empty trie, every trusted current validation parked.
RebuildTrie(cfg, current) ==
    /\ trieTips' = [n \in Nodes |-> NoTip]
    /\ acquiring' = {<<n, KeyOf(current[n])>> :
                       n \in {x \in cfg.trusted : current[x] # NoVal}}

\* Replacing the trie object invalidates every snapshot taken of the old one.
RebuiltTo(t, r) ==
    pc' = [u \in Threads |-> IF u = t THEN r ELSE [pc[u] EXCEPT !.same = FALSE]]

Goto(t, r) == pc' = [pc EXCEPT ![t] = r]

\* What thread t does once its call to drainFinality returns.
Return(t) == [Idle EXCEPT !.step = pc[t].after]

-----------------------------------------------------------------------------
(* checkAcquired: snapshot the resolvable parked keys, then apply them *)

ResolvedKeys(parked) == {k \in {a[2] : a \in parked} : Resolvable(k)}

\* The polls made by GetPreferred and proposersFinished (thread idle), and the
\* ones that end a configuration change (step "acquire").
CheckAcquired(t) ==
    /\ pc[t].step \in {"idle", "acquire"}
    /\ IF ResolvedKeys(acquiring) = {}
       THEN pc[t].step = "acquire" /\ Goto(t, Idle)
       ELSE Goto(t, [Idle EXCEPT !.step = "acquired", !.same = TRUE,
                                 !.keys = ResolvedKeys(acquiring)])
    /\ UNCHANGED <<now, admissionVars, limitVars, config, gateVars, finalityVars,
                   dispatching, deferring, steeringVars, available, lease>>

\* Under the lock again: only nodes whose current validation is still the parked
\* one move, and nothing happens if the trie was replaced meanwhile.
ApplyAcquired(t) ==
    /\ pc[t].step = "acquired"
    /\ LET K == IF pc[t].same THEN pc[t].keys ELSE {}
           Moved == {n \in Nodes : \E k \in K : <<n, k>> \in acquiring /\ Steers(n, k)}
       IN  /\ trieTips' = [n \in Nodes |-> IF n \in Moved THEN byNode[n].ledger
                                                           ELSE trieTips[n]]
           /\ acquiring' = {a \in acquiring : a[2] \notin K}
    /\ Goto(t, CASE pc[t].then = "admit" ->
                      [pc[t] EXCEPT !.step = "admit", !.keys = {}, !.same = TRUE,
                                    !.resolved = Resolvable(KeyOf(pc[t].val))]
                 [] pc[t].then = "expire" ->
                      [Idle EXCEPT !.step = "expire", !.key = pc[t].key,
                                   !.after = pc[t].after]
                 [] OTHER -> Idle)
    /\ UNCHANGED <<now, admissionVars, limitVars, config, gateVars, finalityVars,
                   dispatching, deferring, available, lease>>

-----------------------------------------------------------------------------
(* Admission: addStatusWithFinality *)

EngineBusy == \E u \in deferring : pc[u].step \in {"acquired", "admit"}

\* The freshness gate.  An engine call holds the engine mutex and defers finality
\* until it is released; other callers drain at once.
AddBegin(t, m, engine) ==
    /\ pc[t].step = "idle"
    /\ engine => ~EngineBusy
    /\ engine \/ IsCurrent(now, m)
    /\ deferring' = IF engine THEN deferring \cup {t} ELSE deferring
    /\ Goto(t, IF IsCurrent(now, m)
               THEN [Idle EXCEPT !.step = "acquired", !.then = "admit", !.val = m,
                                 !.at = now, !.same = TRUE,
                                 !.keys = ResolvedKeys(acquiring)]
               ELSE [Idle EXCEPT !.step = "end"])
    /\ UNCHANGED <<now, admissionVars, limitVars, config, gateVars, finalityVars,
                   dispatching, steeringVars, available, lease>>

\* Mutant: evidence of another signing window still convicts.
TrackedForever(m) ==
    LET old == {e \in bySequence : e.node = m.node /\ e.seq = m.seq}
    IN  IF old = {} THEN m ELSE CHOOSE e \in old : TRUE

\* trackBySequenceLocked: the entry the validation is classified against.
Tracked(m) ==
    LET old == {e \in bySequence : e.node = m.node /\ e.seq = m.seq
                                  /\ ~(m.sign - e.sign > Wall)}
    IN  IF old = {} THEN m ELSE CHOOSE e \in old : TRUE

TrackBySequence(m, at) ==
    /\ bySequence' = {e \in bySequence : e.node # m.node \/ e.seq # m.seq}
                        \cup {Tracked(m)}
    /\ touched' = [touched EXCEPT ![m.seq] = at]

\* Mutant: a repeated sequence advances.
AdvancesOrEqual(m, at) ==
    \/ at - seqEnforcers[m.node].when > SetExpires
    \/ m.seq >= seqEnforcers[m.node].seq

\* seqEnforcer.advance: an enforcer idle past the window restarts from zero.
Advances(m, at) ==
    \/ at - seqEnforcers[m.node].when > SetExpires
    \/ m.seq > seqEnforcers[m.node].seq

DoubleSigned(m) ==
    \/ Tracked(m).ledger # m.ledger
    \/ Tracked(m).sign # m.sign
    \/ Tracked(m).cookie # m.cookie

\* Mutant: the caller returns without draining.
LeaveQuietly(t) == [Idle EXCEPT !.step = IF t \in deferring THEN "end" ELSE "idle"]

\* The end of the locked section: the publication lease is released and the
\* caller drains, or an engine call ends its deferral later.
Leave(t) == [Idle EXCEPT !.step = IF t \in deferring THEN "end" ELSE "drain"]

\* The node's previous parked entry goes; a resolved ledger becomes the tip of the
\* node and of everyone parked on it, an unresolved one is parked.
UpdateTrie(t, m) ==
    LET k == KeyOf(m)
        rest == IF byNode[m.node] = NoVal THEN acquiring
                ELSE acquiring \ {<<m.node, KeyOf(byNode[m.node])>>}
        Moved == {m.node} \cup {n \in Nodes \ {m.node} : <<n, k>> \in rest /\ Steers(n, k)}
    IN  IF m.node \notin config.trusted THEN UNCHANGED steeringVars
        ELSE IF pc[t].resolved /\ pc[t].same
        THEN /\ trieTips' = [n \in Nodes |-> IF n \in Moved THEN m.ledger ELSE trieTips[n]]
             /\ acquiring' = {a \in rest : a[2] # k}
        ELSE acquiring' = rest \cup {<<m.node, k>>} /\ UNCHANGED trieTips

\* Non-monotonic sequence: rejected, classified against the tracked evidence.
AdmitRejected(t) ==
    LET m == pc[t].val IN
    /\ pc[t].step = "admit" /\ lease = NoLease
    /\ ~Advances(m, pc[t].at)
    /\ TrackBySequence(m, pc[t].at)
    /\ accused' = IF DoubleSigned(m) THEN accused \cup {m.node} ELSE accused
    /\ Goto(t, Leave(t))
    /\ UNCHANGED <<now, validations, lastAccess, byNode, seqEnforcers, limitVars,
                   config, gateVars, finalityVars, dispatching, deferring,
                   steeringVars, available, lease>>

\* Below the floor: the enforcer has advanced, nothing is stored.
AdmitBelowFloor(t) ==
    LET m == pc[t].val IN
    /\ pc[t].step = "admit" /\ lease = NoLease
    /\ Advances(m, pc[t].at) /\ m.seq < minSeq
    /\ TrackBySequence(m, pc[t].at)
    /\ seqEnforcers' = [seqEnforcers EXCEPT ![m.node] = [seq |-> m.seq, when |-> pc[t].at]]
    /\ Goto(t, Leave(t))
    /\ UNCHANGED <<now, validations, lastAccess, byNode, accused, limitVars,
                   config, gateVars, finalityVars, dispatching, deferring,
                   steeringVars, available, lease>>

\* Admitted: the evidence is stored; it becomes the node's current validation,
\* steers, and can complete a quorum only if its sign time is newer.
AdmitStored(t) ==
    LET m == pc[t].val
        others == {v \in validations : v.ledger # m.ledger \/ v.node # m.node}
        newer == byNode[m.node] = NoVal \/ m.sign > byNode[m.node].sign
    IN
    /\ pc[t].step = "admit" /\ lease = NoLease
    /\ Advances(m, pc[t].at) /\ m.seq >= minSeq
    /\ TrackBySequence(m, pc[t].at)
    /\ seqEnforcers' = [seqEnforcers EXCEPT ![m.node] = [seq |-> m.seq, when |-> pc[t].at]]
    /\ validations' = others \cup {m}
    /\ lastAccess' = IF \E v \in validations : v.ledger = m.ledger THEN lastAccess
                     ELSE [lastAccess EXCEPT ![m.ledger] = now]
    /\ IF newer
       THEN /\ byNode' = [byNode EXCEPT ![m.node] = m]
            /\ UpdateTrie(t, m)
            /\ CheckFullValidation({KeyOf(m)}, validations', config,
                                   quorumUnavailable, callbackSet)
       ELSE UNCHANGED <<byNode, steeringVars, finalityVars>>
    /\ Goto(t, Leave(t))
    /\ UNCHANGED <<now, accused, limitVars, config, gateVars, dispatching,
                   deferring, available, lease>>

Admit(t) == AdmitRejected(t) \/ AdmitBelowFloor(t) \/ AdmitStored(t)

-----------------------------------------------------------------------------
(* Configuration, gate and floors *)

\* updateTrustedQuorumAndNegativeUNL under one lock: trie rebuilt, every stored
\* ledger rechecked.
UpdateConfig(c) ==
    /\ lease = NoLease
    /\ config' = c
    /\ RebuildTrie(c, byNode)
    /\ RecheckFinality(c)

\* refreshValidationConfig: then drain, then poll for acquired ledgers.
RefreshConfig(t, c) ==
    /\ pc[t].step = "idle"
    /\ UpdateConfig(c)
    /\ RebuiltTo(t, [Idle EXCEPT !.step = "drain", !.after = "acquire"])
    /\ UNCHANGED <<now, admissionVars, limitVars, gateVars, dispatching, deferring,
                   available, lease>>

\* refreshValidationConfigDeferredLocked: the same inside a deferral that the
\* engine's post-unlock queue ends.
RefreshConfigDeferred(t, c) ==
    /\ pc[t].step = "idle" /\ ~EngineBusy
    /\ UpdateConfig(c)
    /\ deferring' = deferring \cup {t}
    /\ RebuiltTo(t, [Idle EXCEPT !.step = "end", !.after = "acquire"])
    /\ UNCHANGED <<now, admissionVars, limitVars, gateVars, dispatching, available,
                   lease>>

\* setNegativeUNL keeps the trie and only rechecks quorums.
SetNegativeUNL(t, negUNL) ==
    /\ pc[t].step = "idle" /\ lease = NoLease
    /\ config' = [config EXCEPT !.negUNL = negUNL]
    /\ RecheckFinality(config')
    /\ Goto(t, [Idle EXCEPT !.step = "drain"])
    /\ UNCHANGED <<now, admissionVars, limitVars, gateVars, dispatching, deferring,
                   steeringVars, available, lease>>

SetFullyValidatedCallback(t) ==
    /\ pc[t].step = "idle" /\ lease = NoLease /\ ~callbackSet
    /\ callbackSet' = TRUE
    /\ CheckFullValidation(EvidenceKeys(validations), validations, config,
                           quorumUnavailable, callbackSet')
    /\ Goto(t, [Idle EXCEPT !.step = "drain"])
    /\ UNCHANGED <<now, admissionVars, limitVars, config, quorumUnavailable,
                   dispatching, deferring, steeringVars, available, lease>>

\* The gate is a live function of the adaptor's UNL state: it closes without a
\* call into the tracker, and its reopening is followed by recheckFinality.
CloseGate ==
    /\ ~quorumUnavailable
    /\ quorumUnavailable' = TRUE
    /\ UNCHANGED <<now, admissionVars, limitVars, config, callbackSet, finalityVars,
                   dispatching, deferring, steeringVars, available, lease, pc>>

OpenGate(t) ==
    /\ pc[t].step = "idle" /\ quorumUnavailable
    /\ quorumUnavailable' = FALSE
    /\ Goto(t, [Idle EXCEPT !.step = "recheck"])
    /\ UNCHANGED <<now, admissionVars, limitVars, config, callbackSet, finalityVars,
                   dispatching, deferring, steeringVars, available, lease>>

RecheckAfterOpen(t) ==
    /\ pc[t].step = "recheck" /\ lease = NoLease
    /\ RecheckFinality(config)
    /\ Goto(t, [Idle EXCEPT !.step = "drain"])
    /\ UNCHANGED <<now, admissionVars, limitVars, config, gateVars, dispatching,
                   deferring, steeringVars, available, lease>>

SetMinSeq(s) ==
    /\ s > minSeq
    /\ minSeq' = s
    /\ UNCHANGED <<now, admissionVars, keep, config, gateVars, finalityVars,
                   dispatching, deferring, steeringVars, available, lease, pc>>

SetSeqToKeep(p) ==
    /\ keep' = IF p[2] <= p[1] THEN <<0, 0>> ELSE p
    /\ UNCHANGED <<now, admissionVars, minSeq, config, gateVars, finalityVars,
                   dispatching, deferring, steeringVars, available, lease, pc>>

-----------------------------------------------------------------------------
(* Reads that extend a set's life, expiry and shutdown *)

\* Mutant: the access time is stored as an expiry cutoff.
TouchedCutoff(K) == [l \in Ledgers |-> IF l \in K /\ \E v \in validations : v.ledger = l
                                       THEN now - SetExpires ELSE lastAccess[l]]

Touched(K) == [l \in Ledgers |-> IF l \in K /\ \E v \in validations : v.ledger = l
                                 THEN now ELSE lastAccess[l]]

\* getTrustedValidations, trustedValidationCount, proposersValidated, ...
ReadValidations(l) ==
    /\ Touched({l}) # lastAccess
    /\ lastAccess' = Touched({l})
    /\ UNCHANGED <<now, validations, byNode, bySequence, touched, seqEnforcers,
                   accused, limitVars, config, gateVars, finalityVars, dispatching,
                   deferring, steeringVars, available, lease, pc>>

\* Mutant: the parked entry outlives the validation.
DropKeepsParked(Gone) ==
    /\ byNode' = [n \in Nodes |-> IF n \in Gone THEN NoVal ELSE byNode[n]]
    /\ trieTips' = [n \in Nodes |-> IF n \in Gone THEN NoTip ELSE trieTips[n]]
    /\ UNCHANGED acquiring

\* The steering state without the current validations of the nodes in Gone.
DropCurrent(Gone) ==
    /\ byNode' = [n \in Nodes |-> IF n \in Gone THEN NoVal ELSE byNode[n]]
    /\ trieTips' = [n \in Nodes |-> IF n \in Gone THEN NoTip ELSE trieTips[n]]
    /\ acquiring' = acquiring \ {<<n, KeyOf(byNode[n])>> : n \in Gone}

\* Heartbeat sweep: silent validators stop steering, old double-sign evidence and
\* idle enforcers go.
FlushStale ==
    /\ DropCurrent({n \in Nodes : byNode[n] # NoVal /\ ~IsCurrent(now, byNode[n])})
    /\ bySequence' = {e \in bySequence : now - touched[e.seq] <= SetExpires}
    /\ seqEnforcers' = [n \in Nodes |->
            IF now - seqEnforcers[n].when > SetExpires THEN [seq |-> 0, when |-> 0]
            ELSE seqEnforcers[n]]
    /\ UNCHANGED <<now, validations, lastAccess, touched, accused, limitVars, config,
                   gateVars, finalityVars, dispatching, deferring, available, lease, pc>>

\* A ledger's set is dropped as a whole, judged by one sampled entry: below the
\* floor, not pinned and not accessed within the expiry window.
Expirable(v, floor) ==
    /\ v.seq < floor
    /\ ~(keep[1] <= v.seq /\ v.seq < keep[2])
    /\ lastAccess[v.ledger] <= now - SetExpires

\* Samples are arbitrary: a set all of whose entries qualify must go, one with a
\* qualifying entry may go.
ExpirableSets(floor) ==
    {E \in SUBSET {v.ledger : v \in {x \in validations : Expirable(x, floor)}} :
        \A v \in validations :
            (\A w \in validations : w.ledger = v.ledger => Expirable(w, floor))
                => v.ledger \in E}

ExpireOld(floor) ==
    \E E \in ExpirableSets(floor) :
        /\ validations' = {v \in validations : v.ledger \notin E}
        /\ DropCurrent({n \in Nodes : byNode[n] \in validations
                                      /\ byNode[n].ledger \in E})
        /\ CancelFinality({k \in fired : k.ledger \in E})
        /\ UNCHANGED retainedQuorum

Flush ==
    /\ lease = NoLease
    /\ validations' = {} /\ bySequence' = {}
    /\ byNode' = [n \in Nodes |-> NoVal]
    /\ seqEnforcers' = [n \in Nodes |-> [seq |-> 0, when |-> 0]]
    /\ fired' = {} /\ pendingFinality' = {} /\ pendingGeneration' = {} /\ delivered' = {}
    /\ RebuildTrie(config, byNode')
    /\ pc' = [u \in Threads |-> [pc[u] EXCEPT !.same = FALSE]]
    /\ UNCHANGED <<now, lastAccess, touched, accused, limitVars, config, gateVars,
                   retainedQuorum, dispatching, deferring, available, lease>>

-----------------------------------------------------------------------------
(* Finality: recheck by callers, publication and the drainer *)

\* RecheckFullyValidated: a caller asks whether k still has its quorum.  On
\* success the key is marked fired; nothing is queued.
RecheckFullyValidated(k) ==
    /\ lease = NoLease
    /\ lastAccess' = Touched({k.ledger})
    /\ IF ~HasQuorum(validations, config, k)
          \/ (quorumUnavailable /\ k \in pendingGeneration)
       THEN CancelFinality({k}) /\ UNCHANGED retainedQuorum
       ELSE IF quorumUnavailable THEN UNCHANGED finalityVars
       ELSE /\ fired' = IF callbackSet THEN fired \cup {k} ELSE fired \ {k}
            /\ RetainQuorum({k})
            /\ UNCHANGED <<pendingFinality, pendingGeneration, delivered>>
    /\ UNCHANGED <<now, validations, byNode, bySequence, touched, seqEnforcers,
                   accused, limitVars, config, gateVars, dispatching, deferring,
                   steeringVars, available, lease, pc>>

\* Mutant: only the retained proof is consulted.
QuorumRetainedOnly(seq) ==
    IF retainedQuorum.seq = seq THEN {retainedQuorum.ledger} ELSE {}

\* The ledgers a publication at seq may not contradict.
QuorumValidatedLedgers(seq) ==
    (IF quorumUnavailable THEN {}
     ELSE {l \in Ledgers : HasQuorum(validations, config, [ledger |-> l, seq |-> seq])})
    \cup (IF retainedQuorum.seq = seq THEN {retainedQuorum.ledger} ELSE {})

\* validationPublicationGuard: the write side of the publication lock is taken and
\* kept only if the candidate agrees with every authenticated quorum.
BeginPublication(l) ==
    LET seq == LedgerSeq[l] IN
    /\ lease = NoLease
    /\ QuorumValidatedLedgers(seq) \subseteq {l}
    /\ retainedQuorum.seq # 0 /\ seq > retainedQuorum.seq =>
          HashOfSeq[l][retainedQuorum.seq] \in {0, retainedQuorum.ledger}
    /\ lease' = [seq |-> seq, ledger |-> l, open |-> ~quorumUnavailable]
    /\ UNCHANGED <<now, admissionVars, limitVars, config, gateVars, finalityVars,
                   dispatching, deferring, steeringVars, available, pc>>

\* The service published the ledger or gave up.
ReleasePublication ==
    /\ lease # NoLease
    /\ lease' = NoLease
    /\ UNCHANGED <<now, admissionVars, limitVars, config, gateVars, finalityVars,
                   dispatching, deferring, steeringVars, available, pc>>

EndDeferral(t) ==
    /\ pc[t].step = "end"
    /\ deferring' = deferring \ {t}
    /\ Goto(t, IF deferring' = {} THEN [pc[t] EXCEPT !.step = "drain"] ELSE Return(t))
    /\ UNCHANGED <<now, admissionVars, limitVars, config, gateVars, finalityVars,
                   dispatching, steeringVars, available, lease>>

\* drainFinality claims the drainer role unless it is taken or deferred.
DrainClaim(t) ==
    /\ pc[t].step = "drain"
    /\ IF dispatching \/ deferring # {}
       THEN Goto(t, Return(t)) /\ UNCHANGED dispatching
       ELSE dispatching' = TRUE /\ Goto(t, [pc[t] EXCEPT !.step = "loop"])
    /\ UNCHANGED <<now, admissionVars, limitVars, config, gateVars, finalityVars,
                   deferring, steeringVars, available, lease>>

DrainStop(t) ==
    /\ pc[t].step = "loop"
    /\ deferring # {} \/ pendingFinality = {}
    /\ dispatching' = FALSE
    /\ Goto(t, Return(t))
    /\ UNCHANGED <<now, admissionVars, limitVars, config, gateVars, finalityVars,
                   deferring, steeringVars, available, lease>>

\* Mutant: the first of the queue must precede itself.
FirstStrict(k, K) == k \in K /\ \A j \in K : k.seq < j.seq

First(k, K) ==
    k \in K /\ \A j \in K : k.seq < j.seq \/ (k.seq = j.seq /\ k.ledger <= j.ledger)

\* Pop the first notification and revalidate it just before the callback.
DrainPop(t) ==
    /\ pc[t].step = "loop" /\ deferring = {}
    /\ \E k \in pendingFinality :
        /\ First(k, pendingFinality)
        /\ pendingFinality' = pendingFinality \ {k}
        /\ pendingGeneration' = pendingGeneration \ {k}
        /\ IF k \notin pendingGeneration
           THEN UNCHANGED <<fired, delivered, pc>>
           ELSE IF HasQuorum(validations, config, k) /\ ~quorumUnavailable /\ callbackSet
           THEN /\ delivered' = delivered \cup {k}
                /\ Goto(t, [pc[t] EXCEPT !.step = "callback", !.key = k])
                /\ UNCHANGED fired
           ELSE fired' = fired \ {k} /\ delivered' = delivered \ {k} /\ UNCHANGED pc
    /\ UNCHANGED <<now, admissionVars, limitVars, config, gateVars, retainedQuorum,
                   dispatching, deferring, steeringVars, available, lease>>

\* The callback, first half: the service may have moved the validated ledger and
\* with it the negative UNL, so the configuration is refreshed.  The drain call
\* inside it finds the drainer role taken.
CallbackRefresh(t, c) ==
    /\ pc[t].step = "callback"
    /\ UpdateConfig(c)
    /\ RebuiltTo(t, [pc[t] EXCEPT !.step = "acquired", !.then = "expire",
                                  !.same = TRUE, !.keys = ResolvedKeys(acquiring')])
    /\ UNCHANGED <<now, admissionVars, limitVars, gateVars, dispatching, deferring,
                   available, lease>>

\* The callback, second half: retention below the reported ledger.
CallbackExpire(t) ==
    /\ pc[t].step = "expire"
    /\ IF pc[t].key.seq > Retention
       THEN ExpireOld(pc[t].key.seq - Retention)
       ELSE UNCHANGED <<validations, byNode, steeringVars, finalityVars>>
    /\ Goto(t, [Idle EXCEPT !.step = "loop", !.after = pc[t].after])
    /\ UNCHANGED <<now, lastAccess, bySequence, touched, seqEnforcers, accused,
                   limitVars, config, gateVars, dispatching, deferring, available,
                   lease>>

-----------------------------------------------------------------------------
(* Environment and specification *)

Tick ==
    /\ now < MaxTime
    /\ \A t \in Threads : pc[t].val # NoVal => now - pc[t].at < MaxStall
    /\ now' = now + 1
    /\ UNCHANGED <<admissionVars, limitVars, config, gateVars, finalityVars,
                   dispatching, deferring, steeringVars, available, lease, pc>>

\* The ancestry provider can resolve one more ledger.
Acquire(l) ==
    /\ l \notin available
    /\ available' = available \cup {l}
    /\ UNCHANGED <<now, admissionVars, limitVars, config, gateVars, finalityVars,
                   dispatching, deferring, steeringVars, lease, pc>>

Init ==
    /\ now = Early
    /\ validations = {} /\ bySequence = {} /\ accused = {}
    /\ lastAccess = [l \in Ledgers |-> 0]
    /\ byNode = [n \in Nodes |-> NoVal]
    /\ touched = [s \in Seqs |-> 0]
    /\ seqEnforcers = [n \in Nodes |-> [seq |-> 0, when |-> 0]]
    /\ minSeq = 0 /\ keep = <<0, 0>>
    /\ config \in Configs
    /\ quorumUnavailable = FALSE /\ callbackSet = FALSE
    /\ fired = {} /\ pendingFinality = {} /\ pendingGeneration = {} /\ delivered = {}
    /\ retainedQuorum = NoKey
    /\ dispatching = FALSE /\ deferring = {}
    /\ trieTips = [n \in Nodes |-> NoTip] /\ acquiring = {} /\ available = {}
    /\ lease = NoLease
    /\ pc = [t \in Threads |-> Idle]

\* A thread inside a call takes its next critical section.
ThreadStep(t) ==
    \/ pc[t].step = "acquire" /\ CheckAcquired(t)
    \/ ApplyAcquired(t) \/ Admit(t) \/ RecheckAfterOpen(t)
    \/ EndDeferral(t) \/ DrainClaim(t) \/ DrainStop(t) \/ DrainPop(t)
    \/ (\E c \in Configs : CallbackRefresh(t, c)) \/ CallbackExpire(t)

\* An idle thread enters the tracker.
Call(t) ==
    \/ \E m \in Messages, engine \in BOOLEAN : AddBegin(t, m, engine)
    \/ \E c \in Configs : RefreshConfig(t, c) \/ RefreshConfigDeferred(t, c)
                            \/ SetNegativeUNL(t, c.negUNL)
    \/ SetFullyValidatedCallback(t)
    \/ OpenGate(t)
    \/ pc[t].step = "idle" /\ CheckAcquired(t)

\* Calls that are one critical section, and the world around the tracker.
Atomic ==
    \/ \E l \in Ledgers : ReadValidations(l) \/ Acquire(l)
    \/ \E l \in Candidates : BeginPublication(l)
          \/ RecheckFullyValidated([ledger |-> l, seq |-> LedgerSeq[l]])
    \/ \E s \in SeqFloors : SetMinSeq(s)
    \/ \E p \in Pins : SetSeqToKeep(p)
    \/ ReleasePublication \/ FlushStale \/ Flush \/ CloseGate \/ Tick

Next == (\E t \in Threads : ThreadStep(t) \/ Call(t)) \/ Atomic

Spec == Init /\ [][Next]_vars

\* Goroutines inside a call keep running; a reader of the publication lock is not
\* starved by writers (sync.RWMutex admits the waiting readers when a writer
\* leaves), hence SF; and a publication always releases its lease.
Fairness == (\A t \in Threads : SF_vars(ThreadStep(t))) /\ WF_vars(ReleasePublication)

FairSpec == Spec /\ Fairness

-----------------------------------------------------------------------------
(* Properties *)

Lease == [seq : Nat, ledger : Ledgers \cup {0}, open : BOOLEAN]
ThreadState ==
    [step : Steps, then : {"idle", "admit", "expire"}, after : {"idle", "acquire"},
     val : Messages \cup {NoVal}, at : Nat, keys : SUBSET Keys, same : BOOLEAN,
     resolved : BOOLEAN, key : Keys \cup {NoKey}]

\* A thread that will admit has a validation, one inside a callback has its key.
Carries(r) ==
    /\ r.step = "admit" \/ r.then = "admit" => r.val \in Messages
    /\ r.step \in {"callback", "expire"} \/ r.then = "expire" => r.key \in Keys

\* Type invariant of the tracker's state.
TypeOK ==
    /\ now \in Nat /\ minSeq \in Nat /\ keep \in Nat \X Nat
    /\ validations \subseteq Messages /\ bySequence \subseteq Messages
    /\ lastAccess \in [Ledgers -> Nat] /\ touched \in [Seqs -> Nat]
    /\ byNode \in [Nodes -> Messages \cup {NoVal}]
    /\ seqEnforcers \in [Nodes -> [seq : Nat, when : Nat]]
    /\ accused \subseteq Nodes
    /\ config \in [trusted : SUBSET Nodes, quorum : Nat, negUNL : SUBSET Nodes]
    /\ quorumUnavailable \in BOOLEAN /\ callbackSet \in BOOLEAN
    /\ fired \subseteq Keys /\ pendingFinality \subseteq Keys
    /\ pendingGeneration \subseteq Keys /\ delivered \subseteq Keys
    /\ retainedQuorum \in Keys \cup {NoKey}
    /\ dispatching \in BOOLEAN /\ deferring \subseteq Threads
    /\ trieTips \in [Nodes -> Ledgers \cup {NoTip}]
    /\ acquiring \subseteq Nodes \X Keys /\ available \subseteq Ledgers
    /\ lease \in Lease
    /\ pc \in [Threads -> ThreadState]
    /\ \A t \in Threads : Carries(pc[t])

Draining(t) ==
    \/ pc[t].step \in {"loop", "callback", "expire"}
    \/ pc[t].step = "acquired" /\ pc[t].then = "expire"

\* No lost wake-up: while a notification is queued, some thread is the drainer, is
\* about to try, or holds a deferral whose end will drain (drainFinality,
\* endFinalityDeferral).  The drainer role is held by exactly one thread.
DrainResponsible ==
    /\ pendingFinality # {} =>
          dispatching \/ deferring # {} \/ \E t \in Threads : pc[t].step = "drain"
    /\ dispatching <=> \E t \in Threads : Draining(t)
    /\ \A t, u \in Threads : Draining(t) /\ Draining(u) => t = u

\* A queued notification is live exactly while its generation is, and a ledger is
\* never queued again after its callback ran unless its finality was withdrawn in
\* between (enqueueFinalityLocked, cancelFinalityLocked, drainFinality).
ReportedOnce ==
    /\ pendingFinality = pendingGeneration
    /\ pendingGeneration \cap delivered = {}
    /\ pendingGeneration \cup delivered \subseteq fired

\* All validations of the ledger of k state its sequence, and no validator signs
\* both a full and a partial one.
Unequivocal(k) ==
    \A m, n \in {x \in Messages : x.ledger = k.ledger} :
        KeyOf(m) = k /\ (m.node = n.node => m.full = n.full)

\* No finality without its quorum: a ledger that is marked, queued or reported as
\* final has a quorum of the evidence now stored, under the trust, quorum and
\* negative UNL now installed; one that lost it to a configuration change or to
\* expiry has been withdrawn (checkFullValidationLocked, cancelFinalityLocked).
FinalBacked ==
    \A k \in fired : Unequivocal(k) => HasQuorum(validations, config, k)

\* Every ledger marked, queued or reported as final is at or below the retained
\* quorum proof, so the proof is a floor that publication can rely on after the
\* evidence itself has expired (retainQuorumLocked).
RetainedFloor == \A k \in fired : k.seq <= retainedQuorum.seq

\* While a publication holds its lease no other ledger at the same sequence is
\* backed by a quorum, whatever validations, trust changes or rechecks race with
\* it (publicationQuorumMu).
PublicationFence ==
    lease.open => \A l \in Ledgers \ {lease.ledger} :
        ~HasQuorum(validations, config, [ledger |-> l, seq |-> lease.seq])

\* A validator counts for two ledgers of one sequence only if it signed them so far
\* apart that its sequence floor had expired (seqEnforcer.advance).
OneVotePerSeq ==
    \A a, b \in validations :
        a.node = b.node /\ a.seq = b.seq /\ a.ledger # b.ledger =>
            LET gap == SetExpires - Early - Wall - 2 * MaxStall
            IN  a.sign - b.sign > gap \/ b.sign - a.sign > gap

\* Every trusted validator's current validation steers: it is the validator's tip
\* in the trie or it is parked until its ledger is acquired.
SteeringComplete ==
    \A n \in config.trusted : byNode[n] # NoVal =>
        \/ trieTips[n] = byNode[n].ledger
        \/ <<n, KeyOf(byNode[n])>> \in acquiring

\* Nothing else steers: a tip or a parked entry belongs to a trusted validator
\* that has a current validation, and a parked entry is that validation.
SteeringSound ==
    /\ \A n \in Nodes : trieTips[n] # NoTip => n \in config.trusted /\ byNode[n] # NoVal
    /\ \A a \in acquiring : Steers(a[1], a[2])

\* Only a validator that signed two different validations for one sequence within
\* one freshness window is reported as conflicting or as running two instances,
\* in whichever order they arrive (trackBySequenceLocked).
AccusedSigned ==
    \A n \in accused : \E a, b \in Messages :
        /\ a.node = n /\ b.node = n /\ a.seq = b.seq /\ a # b
        /\ a.sign <= b.sign /\ b.sign - a.sign < Early + Wall + MaxStall

\* Once deferrals cease, every queued notification is delivered or withdrawn.
QueueDrains ==
    <>[](deferring = {}) => \A k \in [ledger : Ledgers, seq : Seqs] :
        (k \in pendingGeneration) ~> (k \notin pendingGeneration)
=============================================================================
