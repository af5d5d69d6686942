-------------------------- MODULE PreferredRecovery --------------------------
(***************************************************************************)
(* How the node moves to a ledger other than the one it built: the engine  *)
(* (rcl/engine_*.go), its preferred-ledger recovery worker                 *)
(* (rcl/preferred_recovery.go) and the ledger service's frontier           *)
(* transitions (ledger/service/preferred_transition.go), under the         *)
(* heartbeat, the router, the accept worker and a concurrent Stop.         *)
(*                                                                         *)
(* The engine's previous ledger and the service's closed ledger are two    *)
(* copies of one decision.  A recovery prepares the service's side without *)
(* the engine's mutex, for a request that may have gone stale meanwhile.   *)
(***************************************************************************)
EXTENDS LedgerTree

CONSTANTS
    Held,       \* the ledgers held at the start
    MaxViews,   \* bound: changes of the network's preference
    MaxFaults,  \* bound: failures of the node's own storage and memory
    StopFaults, \* bound: failures before a Stop
    Stops       \* who calls Engine.Stop: "main", "callback"

VARIABLES
    eng,        \* the round-driving state of the Engine, under e.mu
    worker,     \* preferredRecoveryWorker, its one live job included
    mu,         \* e.mu where it is held across a step
    build,      \* the accepted ledger being built off the mutex
    closed,     \* Service.closedLedger
    owner,      \* Service.preferredTransitionOwner
    validated,  \* the validated ledger, of service and tracker
    pref,       \* the ledger the trusted validations prefer
    held,       \* the ledgers GetLedger finds
    stop,       \* the progress of each caller of Engine.Stop
    live,       \* the engine's context and heartbeat loop
    used        \* the views and faults used up

vars == <<eng, worker, mu, build, closed, owner, validated, pref, held, stop,
          live, used>>

Callers == {"main", "callback"}

Modes == {"proposing", "observing", "switched", "wrong"}

Engines ==
    [prev : Ledgers, mode : Modes, wrong : Ledgers \cup {Nil},
     phase : {"open", "accepted"}, full : BOOLEAN, lcl : Ledgers \cup {Nil},
     grace : BOOLEAN]

Requests == [id : Ledgers, prev : Ledgers, fresh : BOOLEAN]

Steps == {"prepare", "wait", "commit", "retire", "callback"}

Jobs == [req : Requests, pc : Steps, valid : Ledgers \cup {Nil},
         cancelled : BOOLEAN, retired : BOOLEAN]

Workers == [job : Jobs \cup {Nil}, pending : Requests \cup {Nil},
            stopped : BOOLEAN]

Builds == [parent : Ledgers, ledger : Ledgers \cup {Nil},
           pc : {"build", "commit"}, valid : Ledgers]

Holds == [by : {"hb", "router", "accept", "job"},
          at : {"phase", "sync", "publish"}, undo : Ledgers \cup {Nil}]

\* Nil is none of the values it stands for the absence of.
ASSUME NilAssumption ==
    /\ Nil \notin Requests /\ Nil \notin Jobs /\ Nil \notin Builds
    /\ Nil \notin Holds /\ Nil # "job" /\ "still" \notin Ledgers

ASSUME HeldAssumption == Held \subseteq Ledgers /\ Root \in Held

\* The state is well formed: every component stays in the range the code gives it.
TypeOK ==
    /\ eng \in Engines /\ worker \in Workers
    /\ mu \in Holds \cup {Nil}
    /\ build \in Builds \cup {Nil}
    /\ owner \in {"job", Nil}
    /\ held \subseteq Ledgers /\ closed \in held /\ eng.prev \in held
    /\ validated \in held /\ pref \in Ledgers
    /\ stop \in [Callers -> {"idle", "lock", "flag", "join", "wait", "returned"}]
    /\ live \in [ctx : BOOLEAN, hb : BOOLEAN]
    /\ used \in [views : Nat, faults : Nat]

-----------------------------------------------------------------------------
(* What the engine asks before it moves.                                   *)

\* getNetworkLedger from the trusted validations: stay on l when the preferred
\* ledger is its held child, an ancestor, or behind the validated ledger.
NetworkLedger(l) ==
    IF \/ pref \in held /\ Parent[pref] = l
       \/ Seq(pref) < Seq(validated)
       \/ pref \in Anc[l]
    THEN l ELSE pref

CanSwitch(l) == validated \in Anc[l]

IsCurrentPreferredLCL(l) == Seq(validated) <= Seq(l) /\ NetworkLedger(l) = l

\* A quorum ledger that the built ledger is not a descendant of.
QuorumConflict(l) ==
    /\ validated # Root
    /\ Seq(l) >= Seq(validated)
    /\ validated \notin Anc[l]

\* A proposing round is given its grace before its own child replaces it.
DeferAcquiredChild(e, l) ==
    /\ e.mode = "proposing" /\ e.phase = "open" /\ e.full /\ e.grace
    /\ Parent[l] = e.prev
    /\ Seq(validated) <= Seq(l)

Wanted(e, l) ==
    \/ e.mode = "wrong" /\ l = e.wrong
    \/ l = validated
    \/ NetworkLedger(e.prev) = l

SwitchEligible(e, l) ==
    /\ ~DeferAcquiredChild(e, l)
    /\ CanSwitch(l)
    /\ Wanted(e, l)

\* A recovery round observes; a normal round proposes on the preferred ledger.
StartRound(e, recovering) ==
    LET full == e.full /\ IsCurrentPreferredLCL(e.prev)
        proposing == full /\ ~recovering
    IN  [e EXCEPT !.mode = IF recovering THEN "switched"
                           ELSE IF proposing THEN "proposing" ELSE "observing",
                  !.full = full, !.phase = "open", !.grace = proposing]

\* The generation counter moves with every round: no earlier request matches.
Restarted(w) ==
    [w EXCEPT !.job = IF @ = Nil THEN Nil ELSE [@ EXCEPT !.req.fresh = FALSE],
              !.pending = IF @ = Nil THEN Nil ELSE [@ EXCEPT !.fresh = FALSE]]

\* The service refuses what is behind or beside its validated ledger.
Publishable(l) == Seq(l) > Seq(validated) \/ l = validated

\* A failure of the node's own, while it runs.
Fault ==
    /\ used.faults < MaxFaults /\ live.ctx
    /\ used' = [used EXCEPT !.faults = @ + 1]

Observe(e) == [e EXCEPT !.mode = IF @ = "proposing" THEN "observing" ELSE @]

Demote(e) == [e EXCEPT !.full = FALSE]

-----------------------------------------------------------------------------
(* The recovery worker's queue: one job and one replacement.               *)

NewJob(req) ==
    [req |-> req, pc |-> "prepare", valid |-> Nil, cancelled |-> FALSE,
     retired |-> FALSE]

SubmitLocked(w, e, l) ==
    LET req == [id |-> l, prev |-> e.prev, fresh |-> TRUE]
    IN  CASE w.job = Nil -> [w EXCEPT !.job = NewJob(req)]
          [] w.job # Nil /\ w.job.req = req -> w
          [] OTHER -> [w EXCEPT !.pending = req, !.job.cancelled = TRUE]

\* The heartbeat leaves a target alone that the worker already pursues.
CurrentTargetMatches(e) ==
    /\ worker.job # Nil /\ ~worker.stopped
    /\ worker.job.req = [id |-> NetworkLedger(e.prev), prev |-> e.prev,
                         fresh |-> TRUE]

\* finish: the pending target, if the worker still runs, becomes the next job.
Finished(w) ==
    [w EXCEPT !.job = IF w.stopped \/ w.pending = Nil THEN Nil
                      ELSE NewJob(w.pending),
              !.pending = Nil]

Cancelled == worker.job.cancelled \/ ~live.ctx

At(step) == worker.job # Nil /\ worker.job.pc = step

Goto(step) == worker' = [worker EXCEPT !.job.pc = step]

-----------------------------------------------------------------------------
(* The engine's handlers.                                                   *)

Free == Nil

Phase == [by |-> "hb", at |-> "phase", undo |-> Nil]

\* The synchronous switch, with e.mu held until the service has answered.
Sync(by, undo) == [by |-> by, at |-> "sync", undo |-> undo]

\* The fence of a completed preparation: its checks passed, not yet published.
Fence == [by |-> "job", at |-> "publish", undo |-> Nil]

HeldBy(who) == mu # Free /\ mu.by = who

\* The mutex after a handler: the heartbeat goes on to the round's phase.
After(by) == IF by = "hb" THEN Phase ELSE Free

\* handleWrongLedger: refuse, hand over to the worker, switch in place when
\* the worker does not take it, or pin the ledger until it is acquired.
HandleWrongLedger(e, l, by) ==
    /\ \/ /\ l \in held /\ (~CanSwitch(l) \/ DeferAcquiredChild(e, l))
          /\ eng' = e /\ mu' = After(by)
          /\ UNCHANGED worker
       \/ /\ l \in held /\ SwitchEligible(e, l) /\ ~worker.stopped
          /\ worker' = SubmitLocked(worker, e, l)
          /\ eng' = Observe(e) /\ mu' = After(by)
       \/ /\ l \in held /\ CanSwitch(l) /\ ~DeferAcquiredChild(e, l)
          /\ worker.stopped \/ ~SwitchEligible(e, l)
          /\ eng' = [Observe(e) EXCEPT !.prev = l, !.wrong = Nil]
          /\ mu' = Sync(by, Nil)
          /\ UNCHANGED worker
       \/ /\ l \notin held
          /\ eng' = [e EXCEPT !.wrong = l, !.mode = "wrong"]
          /\ mu' = After(by)
          /\ UNCHANGED worker
    /\ UNCHANGED <<closed, owner, validated, pref, held, stop, live, used>>

ClosedChanged(e) ==
    e.mode # "switched" /\ closed # e.prev /\ closed # e.lcl

ValidatedAhead(e) ==
    /\ e.mode = "wrong" \/ (~e.full /\ Seq(validated) > Seq(e.prev))
    /\ validated # e.prev /\ validated \in held

\* The ledger checkLedger moves to, if any.
CheckLedger(e) ==
    LET net == NetworkLedger(e.prev)
        asked == e.mode = "wrong" /\ e.wrong = net /\ net \notin held
    IN  IF e.phase = "accepted" \/ CurrentTargetMatches(e) THEN Nil
        ELSE IF ClosedChanged(e) THEN closed
        ELSE IF ValidatedAhead(e) THEN validated
        ELSE IF net # e.prev /\ ~asked THEN net
        ELSE Nil

\* timerEntry up to checkLedger; the mutex stays held for the phase.
TickCheck ==
    LET e == IF eng.full THEN eng ELSE Observe(eng)
        l == CheckLedger(e)
    IN  /\ live.hb /\ mu = Free /\ build = Nil
        /\ UNCHANGED build
        /\ IF l # Nil THEN HandleWrongLedger(Demote(e), l, "hb")
           ELSE /\ eng' = e /\ mu' = Phase
                /\ UNCHANGED <<worker, closed, owner, validated, pref, held,
                               stop, live, used>>

\* The rest of timerEntry: wait, accept the round's ledger, or start a round
\* on the closed ledger.  Nothing is closed while the quorum is well ahead.
TickPhase ==
    /\ mu = Phase
    /\ mu' = Free
    /\ \/ UNCHANGED <<eng, worker, build>>
       \/ /\ eng.full \/ Seq(validated) <= Seq(eng.prev) + 1
          /\ eng.phase = "open" /\ eng.mode # "wrong"
          /\ \E l \in Ledgers : Parent[l] = eng.prev
          /\ eng' = [eng EXCEPT !.phase = "accepted"]
          /\ build' = [parent |-> eng.prev, ledger |-> Nil, pc |-> "build",
                       valid |-> validated]
          /\ UNCHANGED worker
       \/ /\ eng.full \/ Seq(validated) <= Seq(eng.prev) + 1
          /\ eng.phase = "accepted" /\ eng.mode # "wrong"
          /\ eng' = StartRound([eng EXCEPT !.prev = closed], FALSE)
          /\ worker' = Restarted(worker)
          /\ UNCHANGED build
    /\ UNCHANGED <<closed, owner, validated, pref, held, stop, live, used>>

\* TrySwitchToLedger, called by the router for a ledger it has acquired.
TrySwitch(l) ==
    /\ mu = Free /\ build = Nil /\ stop["main"] = "idle"
    /\ l \in held /\ SwitchEligible(eng, l)
    /\ eng.mode = "wrong" \/ eng.prev # l
    /\ IF worker.stopped
       THEN /\ eng' = [eng EXCEPT !.prev = l]
            /\ mu' = Sync("router", eng.prev)
            /\ UNCHANGED worker
       ELSE /\ worker' = SubmitLocked(worker, eng, l)
            /\ UNCHANGED <<eng, mu>>
    /\ UNCHANGED <<build, closed, owner, validated, pref, held, stop, live,
                   used>>

\* OnLedgerAcquireFailed drops the pin and leaves the mode.
AcquireFailed ==
    /\ mu = Free /\ eng.mode = "wrong" /\ eng.wrong # Nil
    /\ eng' = [eng EXCEPT !.wrong = Nil]
    /\ UNCHANGED <<worker, mu, build, closed, owner, validated, pref, held,
                   stop, live, used>>

\* startRoundLocked of a switch in place: OnLedgerSwitched waits, with e.mu
\* held, for the transition in progress and then moves the closed ledger.
SyncSwitch ==
    /\ mu # Free /\ mu.at = "sync" /\ owner = Nil
    /\ Publishable(eng.prev)
    /\ closed' = eng.prev
    /\ eng' = StartRound([eng EXCEPT !.wrong = Nil], TRUE)
    /\ worker' = Restarted(worker)
    /\ mu' = After(mu.by)
    /\ UNCHANGED <<build, owner, validated, pref, held, stop, live, used>>

\* The service refuses: TrySwitchToLedger restores the parent it had, the
\* others go on with the parent they have taken.
SyncRefused ==
    /\ mu # Free /\ mu.at = "sync" /\ owner = Nil
    /\ \/ ~Publishable(eng.prev) /\ UNCHANGED used
       \/ Fault
    /\ eng' = IF mu.undo = Nil THEN eng ELSE [eng EXCEPT !.prev = mu.undo]
    /\ mu' = After(mu.by)
    /\ UNCHANGED <<worker, build, closed, owner, validated, pref, held, stop,
                   live>>

-----------------------------------------------------------------------------
(* The accepted ledger, built and published without the mutex.             *)

\* acceptConsensusResult: build on the parent the service still has, then
\* publish through a transition of its own.
BuildPublish(l) ==
    /\ build # Nil /\ build.pc = "build" /\ owner = Nil /\ live.ctx
    /\ Parent[l] = build.parent /\ closed = build.parent
    /\ ~QuorumConflict(l)
    /\ closed' = l /\ held' = held \cup {l}
    /\ \/ build' = [build EXCEPT !.pc = "commit", !.ledger = l] /\ UNCHANGED used
       \/ build' = [build EXCEPT !.pc = "commit"] /\ Fault
    /\ UNCHANGED <<eng, worker, mu, owner, validated, pref, stop, live>>

BuildFails ==
    /\ build # Nil /\ build.pc = "build"
    /\ \/ /\ \/ ~live.ctx
             \/ closed # build.parent
             \/ owner = Nil /\ validated # build.valid
             \/ owner = Nil /\ \E l \in Ledgers : /\ Parent[l] = build.parent
                                                /\ QuorumConflict(l)
          /\ UNCHANGED used
       \/ Fault
    /\ build' = [build EXCEPT !.pc = "commit"]
    /\ UNCHANGED <<eng, worker, mu, closed, owner, validated, pref, held, stop,
                   live>>

\* commitAcceptedLedgerLocked after a failure: retry, or move to the quorum's
\* ledger.
CommitFailed ==
    LET e == [eng EXCEPT !.phase = "open"]
    IN  /\ build # Nil /\ build.pc = "commit" /\ build.ledger = Nil /\ mu = Free
        /\ build' = Nil
        /\ IF validated # Root /\ Seq(validated) <= Seq(build.parent) + 1
           THEN HandleWrongLedger(e, validated, "accept")
           ELSE /\ eng' = e
                /\ UNCHANGED <<worker, mu, closed, owner, validated, pref,
                               held, stop, live, used>>

\* commitAcceptedLedgerLocked: a quorum's fork discards the build; otherwise
\* it becomes the parent and, in full mode, the next round starts on it or on
\* the preferred ledger.
CommitAccepted ==
    LET e == [eng EXCEPT !.prev = build.ledger, !.lcl = Nil]
        net == NetworkLedger(build.ledger)
        next == [e EXCEPT !.prev = net,
                          !.lcl = IF net = build.ledger THEN Nil
                                  ELSE build.ledger]
    IN  /\ build # Nil /\ build.pc = "commit" /\ build.ledger # Nil /\ mu = Free
        /\ build' = Nil
        /\ IF QuorumConflict(build.ledger)
           THEN HandleWrongLedger(eng, validated, "accept")
           ELSE IF eng.full /\ net \notin held
           THEN HandleWrongLedger(e, net, "accept")
           ELSE /\ IF eng.full
                   THEN /\ eng' = StartRound(next, FALSE)
                        /\ worker' = Restarted(worker)
                   ELSE eng' = e /\ UNCHANGED worker
                /\ UNCHANGED <<mu, closed, owner, validated, pref, held, stop,
                               live, used>>

-----------------------------------------------------------------------------
(* preferredRecoveryWorker.run and the transition it owns.                 *)

\* PreparePreferredLedger: wait for the transition in progress, take the
\* frontier, start the detached preparation.
JobPrepare ==
    /\ At("prepare") /\ owner = Nil /\ ~Cancelled
    /\ Publishable(worker.job.req.id)
    /\ owner' = "job"
    /\ worker' = [worker EXCEPT !.job.pc = "wait", !.job.valid = validated]
    /\ UNCHANGED <<eng, mu, build, closed, validated, pref, held, stop, live,
                   used>>

JobPrepareFails ==
    /\ At("prepare")
    /\ \/ Cancelled /\ UNCHANGED used
       \/ owner = Nil /\ ~Publishable(worker.job.req.id) /\ UNCHANGED used
       \/ owner = Nil /\ Fault
    /\ worker' = Finished(worker)
    /\ UNCHANGED <<eng, mu, build, closed, owner, validated, pref, held, stop,
                   live>>

\* The preparation is ready: the last checks before e.mu is requested.
JobReady ==
    /\ At("wait") /\ ~Cancelled /\ ~worker.stopped
    /\ Goto("commit")
    /\ UNCHANGED <<eng, mu, build, closed, owner, validated, pref, held, stop,
                   live, used>>

\* It failed or is no longer wanted: Release gives the transition up.
JobAbandon ==
    /\ At("wait")
    /\ \/ (Cancelled \/ worker.stopped) /\ UNCHANGED used
       \/ Fault
    /\ owner' = Nil
    /\ worker' = Finished(worker)
    /\ UNCHANGED <<eng, mu, build, closed, validated, pref, held, stop, live>>

\* Whether the request still describes the engine.
Current(req) ==
    /\ ~Cancelled /\ ~worker.stopped /\ build = Nil
    /\ req.fresh /\ req.prev = eng.prev
    /\ req.id \in held /\ SwitchEligible(eng, req.id)

\* commitPreparedRecovery: check, publish and adopt under one hold of e.mu.
JobFence ==
    /\ At("commit") /\ mu = Free
    /\ Current(worker.job.req)
    /\ mu' = Fence
    /\ UNCHANGED <<eng, worker, build, closed, owner, validated, pref, held,
                   stop, live, used>>

\* Mutant: the validated ledger is not compared with the captured one.
PublishUnfenced ==
    LET id == worker.job.req.id
        done == [worker EXCEPT !.job.pc = "retire", !.job.valid = Nil]
    IN  /\ mu = Fence
        /\ closed' = id /\ owner' = Nil /\ mu' = Free
        /\ eng' = StartRound([eng EXCEPT !.prev = id, !.wrong = Nil], TRUE)
        /\ worker' = Restarted(done)
        /\ UNCHANGED <<build, validated, pref, held, stop, live, used>>

JobPublish ==
    LET id == worker.job.req.id
        done == [worker EXCEPT !.job.pc = "retire", !.job.valid = Nil]
    IN  /\ mu = Fence
        /\ worker.job.valid = validated
        /\ closed' = id /\ owner' = Nil /\ mu' = Free
        /\ IF eng.mode # "wrong" /\ eng.prev = id
           THEN worker' = done /\ UNCHANGED eng
           ELSE /\ eng' = StartRound([eng EXCEPT !.prev = id, !.wrong = Nil],
                                     TRUE)
                /\ worker' = Restarted(done)
        /\ UNCHANGED <<build, validated, pref, held, stop, live, used>>

\* Mutant: a stale job keeps the transition.
StaleKeeps ==
    /\ At("commit") /\ mu = Free /\ ~Current(worker.job.req)
    /\ worker' = Finished(worker)
    /\ UNCHANGED <<eng, mu, build, closed, owner, validated, pref, held, stop,
                   live, used>>

JobStale ==
    /\ At("commit")
    /\ \/ mu = Free /\ ~Current(worker.job.req)
       \/ mu = Fence /\ (Cancelled \/ worker.job.valid # validated)
    /\ mu' = Free /\ owner' = Nil
    /\ worker' = Finished(worker)
    /\ UNCHANGED <<eng, build, closed, validated, pref, held, stop, live, used>>

\* Mutant: the job is retired only when its callbacks have returned.
RetireLate ==
    /\ At("retire")
    /\ Goto("callback")
    /\ UNCHANGED <<eng, mu, build, closed, owner, validated, pref, held, stop,
                   live, used>>

\* The job stops counting as work before its callbacks run.
JobRetire ==
    /\ At("retire")
    /\ worker' = [worker EXCEPT !.job.pc = "callback", !.job.retired = TRUE]
    /\ UNCHANGED <<eng, mu, build, closed, owner, validated, pref, held, stop,
                   live, used>>

\* Finish: a callback may stop the engine, and runs until Stop has returned.
JobCallback ==
    /\ At("callback") /\ stop["callback"] \in {"idle", "returned"}
    /\ \/ worker' = Finished(worker) /\ UNCHANGED stop
       \/ /\ "callback" \in Stops /\ stop["callback"] = "idle"
          /\ used.faults <= StopFaults
          /\ stop' = [stop EXCEPT !["callback"] = "lock"]
          /\ UNCHANGED worker
    /\ UNCHANGED <<eng, mu, build, closed, owner, validated, pref, held, live,
                   used>>

-----------------------------------------------------------------------------
(* Engine.Stop, by the node's shutdown or from a callback of the worker.   *)

\* lifecycleMu is held to the end; the context goes first.  The shutdown has
\* joined the router before it calls Stop.
StopCancel(c) ==
    /\ \/ c = "callback" /\ stop[c] = "lock"
       \/ c = "main" /\ c \in Stops /\ stop[c] = "idle" /\ ~HeldBy("router")
    /\ \A d \in Callers : stop[d] \in {"idle", "lock", "returned"}
    /\ c = "main" => used.faults <= StopFaults
    /\ stop' = [stop EXCEPT ![c] = "flag"]
    /\ live' = [live EXCEPT !.ctx = FALSE]
    /\ UNCHANGED <<eng, worker, mu, build, closed, owner, validated, pref,
                   held, used>>

\* preferredRecoveryWorker.stop, up to the join.
StopFlag(c) ==
    /\ stop[c] = "flag"
    /\ stop' = [stop EXCEPT ![c] = "join"]
    /\ worker' = [worker EXCEPT
                    !.stopped = TRUE, !.pending = Nil,
                    !.job = IF @ = Nil THEN Nil
                            ELSE [@ EXCEPT !.cancelled = TRUE]]
    /\ UNCHANGED <<eng, mu, build, closed, owner, validated, pref, held, live,
                   used>>

StopJoin(c) ==
    /\ stop[c] = "join"
    /\ worker.job # Nil => worker.job.retired
    /\ stop' = [stop EXCEPT ![c] = "wait"]
    /\ UNCHANGED <<eng, worker, mu, build, closed, owner, validated, pref,
                   held, live, used>>

\* Mutant: the accept worker is not drained.
ReturnUndrained(c) ==
    /\ stop[c] = "wait"
    /\ ~live.hb /\ mu = Free
    /\ stop' = [stop EXCEPT ![c] = "returned"]
    /\ UNCHANGED <<eng, worker, mu, build, closed, owner, validated, pref,
                   held, live, used>>

\* wg.Wait, the lock taken after it, and StopLedgerAccept.
StopReturn(c) ==
    /\ stop[c] = "wait"
    /\ ~live.hb /\ mu = Free /\ build = Nil
    /\ stop' = [stop EXCEPT ![c] = "returned"]
    /\ UNCHANGED <<eng, worker, mu, build, closed, owner, validated, pref,
                   held, live, used>>

\* The heartbeat loop sees the cancelled context, maybe a tick later.
HeartbeatExit ==
    /\ live.hb /\ ~live.ctx
    /\ ~HeldBy("hb")
    /\ live' = [live EXCEPT !.hb = FALSE]
    /\ UNCHANGED <<eng, worker, mu, build, closed, owner, validated, pref,
                   held, stop, used>>

-----------------------------------------------------------------------------
(* The network and the clock.                                              *)

\* The trusted validations prefer another ledger.
ViewChanges ==
    /\ used.views < MaxViews
    /\ used' = [used EXCEPT !.views = @ + 1]
    /\ pref' \in Ledgers \ {pref}
    /\ UNCHANGED <<eng, worker, mu, build, closed, owner, validated, held,
                   stop, live>>

\* A quorum completes on a held descendant of the validated ledger.
Validate(l) ==
    /\ l \in held /\ l # validated /\ validated \in Anc[l]
    /\ validated' = l
    /\ UNCHANGED <<eng, worker, mu, build, closed, owner, pref, held, stop,
                   live, used>>

\* The router stores an acquired ledger.
Acquire(l) ==
    /\ l \notin held
    /\ held' = held \cup {l}
    /\ UNCHANGED <<eng, worker, mu, build, closed, owner, validated, pref,
                   stop, live, used>>

\* The operating mode is the adaptor's: the node is in sync, or loses it.
OperatingMode ==
    /\ eng' = [eng EXCEPT !.full = ~@]
    /\ \/ ~eng.full /\ UNCHANGED used
       \/ eng.full /\ Fault
    /\ UNCHANGED <<worker, mu, build, closed, owner, validated, pref, held,
                   stop, live>>

GraceExpires ==
    /\ eng.grace
    /\ eng' = [eng EXCEPT !.grace = FALSE]
    /\ UNCHANGED <<worker, mu, build, closed, owner, validated, pref, held,
                   stop, live, used>>

-----------------------------------------------------------------------------
Init ==
    /\ eng = [prev |-> Root, mode |-> "observing", wrong |-> Nil,
              phase |-> "open", full |-> FALSE, lcl |-> Nil, grace |-> FALSE]
    /\ worker = [job |-> Nil, pending |-> Nil, stopped |-> FALSE]
    /\ mu = Free /\ build = Nil
    /\ closed = Root /\ owner = Nil /\ validated = Root /\ pref = Root
    /\ held = Held
    /\ stop = [c \in Callers |-> "idle"]
    /\ live = [ctx |-> TRUE, hb |-> TRUE]
    /\ used = [views |-> 0, faults |-> 0]

Job ==
    \/ JobPrepare \/ JobPrepareFails \/ JobReady \/ JobAbandon
    \/ JobFence \/ JobPublish \/ JobStale \/ JobRetire \/ JobCallback

Accept ==
    \/ \E l \in Ledgers : BuildPublish(l)
    \/ BuildFails \/ CommitFailed \/ CommitAccepted

Switch == SyncSwitch \/ SyncRefused

Stopping(c) == StopCancel(c) \/ StopFlag(c) \/ StopJoin(c) \/ StopReturn(c)

Next ==
    \/ TickCheck \/ TickPhase \/ Switch \/ Accept \/ Job
    \/ \E l \in Ledgers : TrySwitch(l) \/ Validate(l) \/ Acquire(l)
    \/ AcquireFailed \/ ViewChanges \/ OperatingMode \/ GraceExpires
    \/ HeartbeatExit
    \/ \E c \in Callers : Stopping(c)

Spec == Init /\ [][Next]_vars

-----------------------------------------------------------------------------
(* Properties.                                                             *)

\* Nothing is left behind: the service's transition is owned only by a job
\* that will give it up, for every way out of a preparation releases or
\* publishes it, and a replacement target waits only behind a job that has
\* been told to stop, never in a stopped worker.
NothingStranded ==
    /\ owner = "job" <=> At("wait") \/ At("commit")
    /\ worker.pending # Nil =>
          worker.job # Nil /\ worker.job.cancelled /\ ~worker.stopped

\* A job that waits for e.mu, whose holder waits for the job's transition.
Wedged == mu # Free /\ mu.at = "sync" /\ At("commit")

\* A Stop in progress always has a goroutine that can run: Stop, what it
\* joins, and what those wait for do not wait for each other.  The exception
\* is the switch in place, which waits for a transition with e.mu held.
StopProgresses ==
    (\E c \in Callers : stop[c] \notin {"idle", "returned"}) =>
        \/ Wedged
        \/ \E c \in Callers : ENABLED Stopping(c)
        \/ ENABLED (Job \/ HeartbeatExit \/ TickPhase \/ Switch \/ Accept)

\* The refinement mapping.  A switch in place is under way while e.mu is held
\* for it, and only the router's falls back to the parent before it.
Frontier == INSTANCE LedgerFrontier WITH
    parent <- eng.prev, frontier <- closed,
    moving <- IF mu = Free \/ mu.at # "sync" THEN "still"
              ELSE IF mu.undo = Nil THEN eng.prev ELSE mu.undo

\* Engine and service implement LedgerFrontier: whatever goes stale while a
\* recovery is prepared, parent and closed ledger move only in its ways: a
\* recovery to a ledger that extends the validated one, an own ledger that does
\* not conflict with it, and the round alone to a ledger that is not older
\* (commitPreparedRecovery, acceptLedger, startRoundLocked,
\* switchToPreferredLedger).
FrontierSpec == Frontier!Spec

\* After the shutdown's Stop has returned nothing moves the frontier.
QuietAfterStop ==
    [][stop["main"] = "returned" => UNCHANGED <<eng.prev, closed>>]_vars

=============================================================================
