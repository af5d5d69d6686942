# TLA+ models of go-xrpl

go-xrpl is an XRP Ledger node in Go. This directory holds TLA+ models of the parts
of it whose correctness depends on the order of events: the validation tracker and
its ledger trie, the consensus round and its votes, the move to a preferred ledger,
voting around flag ledgers, and online deletion. TLC checks the models on small
instances, and TLAPS proves 34 of the 40 properties they check for every value of the
constants. Each definition is translated from the code; `PROJECT.json` gives the
lines (`map`), the runs, the mutants that show each property can fail, the findings,
the hazards and the theorems.

## 1. The system

| Part | State | Operations | What makes it hard |
|---|---|---|---|
| **Validation tracker** (`rcl/validations*.go`) | validations per ledger and node, by-sequence evidence, sequence floors, trusted set, quorum and negative UNL, finality queue, retained quorum proof, trie tips and parked validations | `Add`, trust and negative-UNL updates, `ExpireOld`, `flush`, `flushStale`, `drainFinality`, deferrals, `RecheckFullyValidated`, `BeginValidationPublication`, `checkAcquired` | many threads, callbacks run outside the lock and re-enter it, ancestry is resolved outside the lock, evidence expires while its consequences remain |
| **Ledger trie** (`ledgertrie`, `rcl/ledger_provider.go`) | compressed trie of validated ledgers with tip and branch support | `Insert`, `Remove`, `TipSupport`, `BranchSupport`, `GetPreferred` | split, merge and compaction; uncommitted support; bounded ancestry |
| **Consensus round** (`rcl/engine*.go`, `proposals.go`, `proposal_tracker.go`) | phase, mode, parent, our set and position, peers' positions, acquired sets, disputes with tallies, dead and recently heard peers | timer tick, `OnProposal`, `OnTxSet`, accept and commit, `TrySwitchToLedger`, trust callback | proposals, sets and trust changes in any order; the ledger is built outside the lock; switches that fail half way |
| **Avalanche vote** (`proposals.go`, `consensus/types.go`) | one dispute: votes, our vote, level, counters | vote, unvote, tick, leave consensus | rising thresholds, our own weight, the stall verdict |
| **Close time** (`close_time_tracker.go`, `engine_accept.go`) | close times of the positions a node holds, its own, the avalanche level | tally, move the position, escalate | every node follows the others while the threshold rises; zero is a vote and a default, and another time once it has been on the wire |
| **Preferred recovery** (`preferred_recovery.go`, `engine_ledger_check.go`, `engine_accept.go`, `service/preferred_transition.go`) | the round's parent, the closed ledger, one detached job with a replacement target, the transition's owner | submit, prepare, commit, retire, switch in place, build, `Stop` | work off the lock for a request that goes stale; two locks; joins that wait for each other |
| **Flag-ledger voting** (`negativeunlvote`, `amendmentvote`, `ledger/negativeunl`, `adaptor/trust_oracle.go`, `adaptor/trusted_votes.go`) | the negative UNL with its pending changes, grace periods, cached amendment votes, majorities | vote on 256k - 1 and on 256k, apply, record, change trust | a vote is cast a ledger before the change it builds on; caches that outlive trust |
| **Online deletion** (`ledger/shamapstore`, `ledger/service`, `storage/kvstore/pebble`) | two generations and their manifest, the advisory floor, history window, persistence queue, relational rows | rotate, retain state, persist, evict, clean up, reconcile after a crash | a crash between two durable states; ledgers that close while trees are copied or leave the window while they are persisted |

The engine owns one lock (`e.mu`). The tracker has two: `publicationQuorumMu`, held
for writing by a publication and for reading by everyone else, and `mu`. Timer ticks,
network handlers and the off-lock builder contend for `e.mu`; validations enter the
tracker from the network and from the engine; finality leaves it through a callback
that runs on whichever thread drains the queue. Trust flows from the adaptor to both.
The tracker's preferred ledger decides in the engine whether the round has the right
parent, and the recovery worker carries the move out in the ledger service. The
service's persistence worker writes validated ledgers into the node store while the
rotator exchanges the generations below it.

The hard behaviours, each at its line, are the `hazards` of `PROJECT.json`.

## 2. Modules

| Module | Role |
|---|---|
| `ValidationTracker` | the tracker, with its threads as a small program counter |
| `ValidationTrackerProofs` | ten theorems about it |
| `LedgerTrie` | the compressed trie and the reference definitions it is compared with |
| `ConsensusRound` | positions, sets and disputes of one node through a round |
| `ConsensusRoundProofs` | eight theorems about it |
| `Avalanche` | one dispute: thresholds, our vote, the stall verdict |
| `AvalancheProofs` | four theorems about it |
| `CloseTime` | the nodes of a round agreeing on a close time |
| `CloseTimeProofs` | three theorems about it |
| `LedgerTree` | the tree of ledgers, shared by the next two |
| `LedgerFrontier` | abstract: how the round's parent, the closed and the validated ledger may move |
| `PreferredRecovery` | engine, recovery worker, builder, service transition and `Stop`; implements `LedgerFrontier` |
| `PreferredRecoveryProofs` | four theorems about it, that it implements `LedgerFrontier` among them |
| `FlagLedger` | negative-UNL and amendment voting of one validator through flag ledgers |
| `FlagLedgerProofs` | five theorems about it |
| `OnlineDelete` | rotator, persistence worker, history window and crashes |
| `OnlineDeleteProofs` | five theorems about it |
| `InductionLemmas` | least and greatest elements of sets of numbers, which the proofs induct with |
| `MC*` | small constant values and symmetry sets for TLC |

`TypeOK` of a module says what its variables range over. The tracker's is checked by a
run; those of the tracker, the round, the avalanche, the close time, the recovery and
the flag ledgers are proved.

### ValidationTracker

A handler that takes the lock once is one action. `Add` takes it several times, so a
thread carries a record `pc[t]` naming the next critical section (`AddBegin`,
`CheckAcquired`, `ApplyAcquired`, `Admit`, `EndDeferral`, `DrainClaim`, `DrainPop`,
the callback's `CallbackRefresh` and `CallbackExpire`). `Admit` is the body of
`addStatusWithFinality` under both locks. Its three outcomes are three actions.

Abstractions:
- the trie is the map of tips (`trieTips`) plus the parked validations; `LedgerTrie`
  has the trie itself;
- an ancestry provider is always installed, as in a running node; ledgers become
  resolvable by `Acquire` (external);
- the clock moves by `Tick` (external); `MaxStall` bounds how long one call may take
  between its freshness test and its admission;
- the quorum gate is read once per recheck;
- a trust transition is `CloseGate`, `RefreshConfig`, `OpenGate`, `RecheckAfterOpen`
  in the order of `SetTrustedValidators`, with other steps in between.

### LedgerTrie

Nodes are records in a function from small identifiers; renumbering after each
operation makes equal tries equal states. `Ancestor` knows `Window` ancestors (256 in
`ledger_provider.go`). `StepwisePreferred` and `Backers` are the reference: the walk
ledger by ledger over the plain set of tips. The properties are checked for histories
within the window. With histories longer than the window one ledger can end two spans,
and a removed tip then stays counted; a window of 2 over a forked tree of five levels
shows it.

### ConsensusRound

The engine is a record `eng`; a handler is an operator from that record to the set of
records it may produce, so that a tick, which calls a dozen functions, remains one
action. `OnProposal` is split at its only unlocked point: `OnProposalGate` tests trust,
`OnProposalAdmit` runs under the lock with whatever trust is by then.

Abstractions:
- a transaction is a model value, a set of them is its own hash;
- the threshold of each dispute, pauses, freshness of positions and the verdicts
  moved-on, expired and stalled are choices; `Avalanche` has the threshold and the
  stall;
- position numbers and close times are left out (`CloseTime` has the latter);
  messages may be duplicated;
- committing a built ledger is one action as far as this state is concerned;
- `BuildTxSet` does not fail on blobs that came out of a set already built;
- the popularity fallback of `acceptLedger` is unreachable while our set exists, which
  it does throughout the establish phase.

### Avalanche

Counters saturate at the largest value a comparison in the code asks about.
`contested`, `from` and `flips` are history variables for the properties.

### CloseTime

All nodes of one establish phase, each with its position, the positions it holds of
the others, its avalanche level and its verdict. A beat is a second of the network:
every running node ticks once in it, in any order, and new positions reach the peers
one by one within it. A fault is a beat that ends with positions undelivered, a crash,
a bow-out, or a node that accepts and falls silent. A node that crashes or accepts
leaves its last position with its peers ("gone"); one that bowed out before has taken it
back ("left").

Times are seconds since 2000. A proposal carries its close time as such a number, and the
zero `time.Time`, a vote for no time, is sent as 0 (`protocol/time.go:12`) and received as
2000-01-01 (`protocol/time.go:25`): `Wire` is that conversion, and a node that stands at
`Zero` is counted there by itself and at `Epoch` by its peers.

Abstractions: signing succeeds; each node's level rises at any tally, one step at a time;
of a position only its close time is modelled; the resolution is that of the round (the
resolution ladder and `AdjustCloseTime` act between rounds). A position of a node that
fell silent counts until it is pruned, and `calm` counts beats from there in which all
levels are one. `SettlesWithin` speaks of networks in which a node still proposes:
observers that hold no position take the time they saw themselves
(`engine_accept.go:532`), each its own. It excepts `Adrift`, which section 3 explains.

### LedgerFrontier and PreferredRecovery

`LedgerFrontier` is what the engine and the service promise together: parent and closed
ledger move in one step to a ledger that extends the validated one, or one after the
other in a few named ways, and a switch in place excludes every other move. Not every
way keeps to the validated chain: `Follow`, the jump to a cached preferred ledger
(`engine_accept.go:471`), only asks that the new parent is not older than the validated
ledger, since nothing in the code asks for more.
`PreferredRecovery` has the goroutines: the heartbeat (`TickCheck`, `TickPhase`), the
router (`TrySwitch`), the switch in place (`Sync...`), the accept worker (`Build...`,
`Commit...`), the worker's job (`prepare`, `wait`, `commit`, `retire`, `callback`) and
two callers of `Stop`, one of them inside the job's own callback. `mu` says who holds
`e.mu` where it is held across a step. The refinement maps the parent to `eng.prev`,
the frontier to `closed`, and a switch in place to `mu`.

Abstractions:
- the router may call `TrySwitchToLedger` at any time for any ledger held;
- `roundGeneration` is a bit, whether the round a request names is still the current one;
- service and tracker have one validated ledger;
- the ancestors of a held ledger are always found; where they are not, the code is
  permissive and `LedgerFrontier` would not hold;
- failures of storage or memory, and a loss of sync, are `MaxFaults` steps; before a
  `Stop` there are at most `StopFaults`;
- not modelled: close-time plausibility, the peer-LCL fallback, the restart floor,
  provisional fast loading, `Service.Stop`, `RestartRound`, and the round's own
  data, which `ConsensusRound` has.

### FlagLedger

One validator, `Self`, through `Periods` flag ledgers. Ledger 256k first takes the
change that was pending and then stages the agreed one; ledger 256k + 1 records the
amendment votes of the validations of 256k - 1. What the network agrees on is any
combination of what validators with Self's trusted set, but any scores, caches and
stances, would propose.

Abstractions: the two rounds of a period are the only ones in which these votes have an
effect; a period is two units of close time; there is one amendment; the NegativeUNL
amendment is enabled; the last closed ledger is the validated one where the filter of
disabled validators is taken. `added` and `lastSeen` are history variables.

### OnlineDelete

The store has a writable and an archive generation; a rotation copies the trees of all
ledgers in use to the writable one, makes it the archive and drops the old archive. The
persistence worker writes a validated ledger's nodes, header, row and tip in separate
steps (`TakeJob`, `PersistNodes`, `PersistRow`, `PersistTip`, `FinishJob`) while ledgers
close, are adopted and leave the history window. A ledger that leaves the window before
`FinishJob` has its job cancelled, which the worker notices at its next check, and a
cleanup (`CleanTip`) queued, which takes back the tip the job may still have written.
An adopted ledger may be any number of ledgers ahead, so that one step can evict the
whole window. Two files, the generation manifest and the advisory state, are replaced by
rename and directory sync; each replacement succeeds, fails, or stays unsynced. A crash
then leaves either version, and `Restart` is the start-up code with its reconciliation.

Abstractions:
- a tree is a set of nodes; trees share nodes as content-addressed ones do; a node is
  dirty per ledger, and storing it cleans it in every map that shares it;
- what a restart reads back is stable, and its own reconciling write succeeds;
- closing and adopting a ledger are atomic with respect to the exchange of
  generations, since detached work pins the generation;
- storage errors of the persistence worker, forks (a ledger replaced by another of its
  sequence, and the invalidation that goes with it), jobs that write only the tip or
  learn late that they should, persists that bypass the queue, closed ledgers that are
  never validated and the open ledger's own nodes are left out;
- after a restart the network's next ledger is new: a sequence is not validated twice;
- copies of a failed retention pass are not recorded (they could only add nodes);
- flush barriers and cleanups count towards the admission limit, as in the code.

A ledger between `minimumOnline` and the history window is not retained in full. The
comment at `rotation.go:333` reads as if it were; `LiveComplete` speaks of the ledgers
the service owns.

## 3. Runs

| Run | Instance | Shows |
|---|---|---|
| `finality` | 2 validators, 2 threads, 1 ledger, 2 configurations, fair | `TypeOK`, `DrainResponsible`, `ReportedOnce`, `FinalBacked`, `SteeringComplete`, `QueueDrains` |
| `double_sign` | validators signing twice, expiring floors | `OneVotePerSeq`, `AccusedSigned` |
| `retention` | floors, pins, expiry, flush, publications against a conflicting ledger | `RetainedFloor`, `SteeringSound`, `PublicationFence` |
| `trie` | 3 validators, 7 ledgers, two forks | `CheckInvariants`, `SupportExact`, `PreferredExact` |
| `round` | 2 peers, 2 transactions, 2 ledgers, 4 messages | `TallyExact`, `VotersLive`, `VotesMatchPositions`, `OurVoteMatchesSet`, `DisputesComplete` |
| `round_trust` | 2 peers, trust changing, buffered positions, failing builds, refused switches | `NoResurrection`, `RoundOnParent`, `VotesSigned` |
| `avalanche` | 5 peers, symmetric | `Settles`, `StallIsLate`, `StallHolds` |
| `close_time` | 3 proposers, three raw close times, 1 fault | `SettlesWithin`, `UnanimityIsStable` |
| `recovery` | 4 ledgers on a fork, 1 change of preference, 1 fault, both callers of `Stop` | `NothingStranded`, `StopProgresses`, `FrontierSpec`, `QuietAfterStop` |
| `flag` | 3 validators, 4 flag ledgers, 2 trust changes or restarts | `VotesApply`, `GracePeriod`, `QuorumReachable`, `VotesCounted` |
| `online` | 4 ledgers over two trees, interval 1, a window of 2 against a queue of 3, 1 crash | `LiveComplete`, `TipComplete`, `RotationAdmissible`, `TipSurvives`, `RowsAboveFloor` |
| `stale_position` | as `round` | `AgreementOnOurs` is violated |

The largest have between one and one and a half million states (`recovery`,
`retention`, `round_trust`); none takes three minutes on two workers.

Why these bounds suffice. The tracker's hazards need two threads (one draining, one
queueing) and two ledgers at one sequence (a conflict). The round's hazards need two
peers, one of which is counted before and one after an event, and two transactions, so
that a dispute can be created and another decided. The trie's structural cases (split,
leaf, merge, compact) all occur with two nested forks. In `avalanche` five peers let
weights fall on either side of every threshold. In `close_time` the raw times round to
two or three different ones, with a fault unless all three differ; instances with three
times and a fault, with two faults, and with an observer and three faults were checked
too and agree. Three beats would do for three proposers; the proof for any number takes
the fourth where nodes part over the epoch and another time. `recovery`
has a validated branch, a rival at the same height and a descendant of the rival that
must be acquired: enough for a target to be superseded, to become stale while it is
prepared, and to be published after a newer one. `flag` needs four flag ledgers for a
grace period (two intervals) to begin and end and a vote to time out. `online` goes
through three rotations, so that what one leaves in the archive meets the next; its
window is shorter than its queue, so that queued ledgers are evicted, and one ledger can
jump over the whole window.

`CHECK_DEADLOCK FALSE` is set where a behaviour really ends: `recovery` when the node
has stopped, `flag` and `online` when the bounded chain of ledgers is used up.

Fairness. Only `finality` uses it: strong fairness of each thread's steps, since a
thread that is runnable gets the lock eventually, which `sync.RWMutex` gives to waiting
goroutines, and weak fairness of releasing a publication, whose release is deferred.
Nothing is assumed about the arrival of messages. `SettlesWithin` and `StopProgresses`
are the safety forms of progress: a bound in beats, and "somebody can move".

### Where code and text disagree

`stale_position` checks what the comment at `engine_converge.go:678` says and finds a
behaviour against it: after leaving consensus, agreement is measured against the set
last proposed and not the one held.

What the other models exclude by a named exception or constant, and what happens there:

- **A circular wait in Stop.** The worker's `stop` "must be called without Engine.mu,
  because a completion may be waiting for that mutex" (`preferred_recovery.go:142`): the
  join of the job is meant to be safe. `StopProgresses` holds except in `Wedged`: a job
  has passed `isCurrent`, owns the service's transition and waits for `e.mu`; `Stop` has
  set the worker's stopped flag and waits for the job; a heartbeat that holds `e.mu`
  finds the worker stopped, switches in place (`engine_ledger_check.go:729`) and waits
  for the transition with a context nobody cancels. No failure is needed. The same wait
  is reachable without `Stop` after a build that fails behind its publication while a
  job submitted by the router owns the transition. Removing the disjunct `Wedged` from
  `StopProgresses` gives the trace. `Service.Stop` would release the transition, but
  runs after the consensus phase of the shutdown (`node/runtime.go:1429`), which only
  its timeout ends.
- **A failing build and late sets.** `VotesMatchPositions` is checked with
  `BuildFails = FALSE`: a set that arrives while the ledger is being built is only
  cached (`engine_handlers.go:262`), and a later proposal acquires it without updating
  the votes of the peers that had already proposed it.
- **Trust that changes under a message.** `DisputesComplete` and `VotesMatchPositions`
  are checked, and the first proved, while the trusted set stays as it is. A proposal
  that passed the gate before its peer lost trust is admitted after it
  (`engine_handlers.go:149`), and `OnTxSet` then updates the disputes only for the peers
  of the snapshot: the position is held until the purge without the disputes and votes
  that belong to it. What holds of the votes in these two cases as well is `VotesSigned`:
  a vote may lag behind its peer's position, it is never ahead of it or from elsewhere.
- **A refused switch in place.** On the synchronous path of `handleWrongLedger`
  (`engine_ledger_check.go:731`) a refused `OnLedgerSwitched` comes after the parent was
  replaced, and the old round goes on under the new parent as an observer: the peers'
  positions are those on the new parent, our own is left on the old one and is not
  proposed. `RoundOnParent` says so. `LedgerFrontier` has this as `GiveUp` to the new
  parent.
- **No close time on the wire.** A node whose tally has no winner stands at the zero time,
  and its peers see it at 2000-01-01. The two can meet again only by moving there: as soon
  as the threshold lets the peers' votes win, all nodes agree on 2000-01-01 and report it
  as an agreed close time (`engine_accept.go:70`). `csf/oracle_scenarios_test.go:187` says
  of such nodes that none reports agreement; there positions do not pass the converter.
  Where a win takes all votes (95 % of up to nine proposers) a node that stands at zero
  stays there, since it counts itself against the time it sees everywhere else, and has no
  close-time consensus until the proposers change (`Adrift`).
- **A jump to a cached ledger.** After an accept the round may follow the preferred
  ledger (`engine_accept.go:471`) while the service's closed ledger stays behind. The
  next build then fails on its parent until the quorum's next ledger is handed over.
  `LedgerFrontier` allows it (`Follow`).
- **A tip whose ledger was evicted.** `TipComplete` and `TipSurvives` speak of the tips of
  ledgers the service still owns. `ledger_cache_size` may be set "from 1 to 384"
  (`docs/operating.md:253`) against a queue of 8 (`memory.go:62`), and an adopted ledger
  may be far ahead of the last: the ledger of the stored tip can leave the window before
  a later tip is stored. A rotation then keeps its nodes no longer and can drop the
  generation that holds the tip, and a cleanup may invalidate it, so a crash before the
  next tip finds a tip that is not complete, or none, and the node starts from the
  network (`Loadable`). Without the restriction to `Owned`, `online` shows it for
  `TipSurvives`, and with a fifth ledger for `TipComplete`.
- **A resubmitted target.** Submitting A again after B superseded it is reported as
  retained although A's job is already cancelled; the next check submits it again.

Setting `BuildFails` to TRUE, or giving `round` two `TrustChanges`, shows the second and
the third; `SettlesWithin` without `~Adrift` shows the fifth.

## 4. Proofs

The `*Proofs` modules are checked by TLAPS. They hold for any finite sets of nodes, any
ledgers, transactions, messages, times and trees, and any bound on faults and crashes;
they assume only the named ASSUMEs of the component modules, which TLC evaluates in the
runs. TLC also checks the inductive invariants on the runs' instances, as far as it can
evaluate the sets their type parts name.

**ValidationTracker** (assumes well-formed messages and configurations, a finite set of
validators, and `SetExpires >= Early + Wall`, as 10 >= 3 + 5 minutes). `TypeCorrect` is
inductive as it stands. `DrainCorrect` is too, once types are known: `dispatching` is
true exactly while one thread is between claiming the queue and leaving it, and every
action that fills the queue leaves its thread at the step that drains. `ReportedCorrect`
needs that nothing was reported before a callback was set. `FloorCorrect` rests on each
marking of a key also retaining it. `FenceCorrect` needs that validations and
configuration are frozen while a lease is held, since every admission takes the read
side of the publication lock. `SteeringCorrect` proves completeness and soundness
together because each step of the trie update needs both; `SoundCorrect` names the
second. `BackedCorrect` follows each ledger marked final through the rechecks that every
change of trust, of the negative UNL or of the evidence ends with; a validator that does
not sign one ledger both fully and partially only replaces its support by the same. `OneVoteCorrect` and `AccusedCorrect` need two more invariants. `InFlight`: a validation on its way to
admission was current when its call began, at most `MaxStall` ago. `EvidenceInv`: no
admitted validation was signed beyond the wall window, and each is covered by its
signer's floor, which is reset only after `SetExpires`. So a second validation of one
sequence meets the evidence of the first or comes when the first has left the window.

**ConsensusRound** (assumes well-formed messages and trust views). One invariant, stated
on the record `eng` so that it can be followed through the functions one tick calls:
positions belong to their peers and not to the dead, and buffers keep to their bound
(`Sane`); tallies are the counts of the votes, voters have positions, our vote is what
our set says (`Counted`); each vote comes from a signed position (`Voted`) and each
position is on the parent (`OnParent`), whatever is refused, fails or loses trust;
outside `pendingTrustPurge` nothing is older than its peer's last removal (`Fresh`). One
part holds under a hypothesis that its theorem states: compared sets differ from ours on
disputed transactions only, while the trusted set stays as it is (`Complete`,
`CompleteCorrect`). Section 3 says what happens otherwise, and TLC has a trace.
`Complete` is about every compared set, not only the proposed
ones, because `createDisputesAgainst` skips a set it has compared before.

**Avalanche** (assumes `0 < MinRounds <= StalledRounds`). Lemmas state the arithmetic
once: `WeightOrder` (our yes only raises the weight), `ThresholdsRise` (levels never go
back and their thresholds grow), `VerdictSettled` (a one-sided vote at the last level
does not flip). `LateCorrect` needs `rounds` and `level` as a lower bound on
`contested`. `SettlesCorrect` needs the invariant that after a flip to no the weight
with our vote is at most the threshold reached, so the later, higher thresholds cannot
bring it back; for an observer, that the vote already equals the majority.
`HoldsCorrect` combines both.

**CloseTime** (assumes finitely many nodes, a positive resolution and freshness).
`UnanimityCorrect` needs only types and `Agreed`: a time all vote for wins with all
votes, and no share of n participants is more than n. `SettlesCorrect` needs `CalmInv`.
In a calm beat every node counts the same voters (`Quiet`), because what is stale was
pruned and nothing was lost. They do not count the same votes: a node at the zero time is
there for itself and at the epoch for the others (`View`). So the first beat has three
outcomes: all find one time (`Firm`); no time but the epoch has the votes and everyone
moves to it or to none (`Drifting`); or the nodes part into those who see the epoch win
and those who see another time win (`Parting`), and then the votes cast in the first beat
decide the second. In each, those that have moved do not change what the others find, in
whatever order they tick. From the third beat on all vote for one time (`Settled`) or are
at the epoch or at none (`Drifted`), where a node stays at none only if it takes all votes
to leave, and at the end of the fourth all have seen that.
Rounding enters through `Rounded`: a rounded time stays as it is when rounded again.

**PreferredRecovery** (assumes a finite tree of ledgers and that `Nil` is none of the
values it stands beside). The invariant joins `NothingStranded` to who may hold `e.mu`
(`Exclusive`), which parent a build has (`BuildOnParent`), that the validated ledger a
job captured is an ancestor of the present one (`FenceHolds`), and that what a `Stop`
joined does not come back (`StopHolds`). `FrontierCorrect` takes each action to one of
`LedgerFrontier` or to a stutter; it needs `FenceHolds` for the job's publication, whose
target was tested against a validated ledger that may since have advanced, and
`BuildOnParent` for the accept. `TreeInduction` gives the facts about ancestors.

**FlagLedger** (assumes finitely many validators, Self among them). `GraceCorrect`:
a grace period forgotten is over and one renewed is longer (`GraceInv`).
`CountedCorrect`: the cache holds the latest vote recorded or has rightly dropped it
(`VotesInv`). `ApplyCorrect` and `QuorumCorrect` follow from the well-formed entry of
`TypeOK`, for any scores, with the arithmetic of `computeQuorum` and of the limit on
listed validators for any number of them.

**OnlineDelete** (assumes that interval, window, queue limit and passes are positive, and
nothing about how window and queue compare). The invariant describes the queue (`Queued`):
ledgers in order, those that left the history before all others, a cleanup behind the job
it is for, at most one barrier with only later ledgers behind it. Stored tips are older
than every queued ledger (`TipsPast`), so neither a late job nor a cleanup can put a tip
back. Floor, file and manifest do not run ahead of each other (`Numbers`), and the
generations every possible manifest names exist (`Present`). A ledger that may start a
rotation is queued, or the tip of an owned ledger is in the writable generation
(`Pending`, `Settled`): the flush turns the first into the second, which is why a rotation
does not drop the generation of a tip in use. `Retaining` says what the passes have
copied and `Stored` what the worker has; `LiveComplete` and `TipComplete` are needed
beside them, since a node that is in use may be in the store or in a ledger's own map.

Induction. The provers cannot use induction theorems, which take an operator as a
parameter. Where a proof needs one it is stated over sets: `InductionLemmas` derives
from the well-foundedness of `<` that a set of numbers has a least and a finite one a
greatest element, and `TreeInduction` is that for ledgers. In `ConsensusRoundProofs` and
`OnlineDeleteProofs` the lemmas take such facts as a hypothesis (`Facts`, `Maxima`),
proved just before the theorems, so that the library is not in view of every step.

Provers. All proof modules but `AvalancheProofs`, which is mostly arithmetic, make Zenon
the default (`USE Zenon`); a leaf that needs arithmetic, records or sequences names the
SMT solver. This also keeps the modules quick to check: a leaf given to the SMT solver
makes the ones after it slower.

Only model-checked:
- `QueueDrains`, a liveness property, and `StopProgresses`, which is about ENABLED;
- the three properties of `LedgerTrie`, whose functions are recursive;
- `VotesMatchPositions`, which holds only while builds succeed and trust stays as it is;
- `AgreementOnOurs`, which is violated.


## 5. Not modelled

Parts of modelled components:
- signing of validations, the sequence last signed and the restart floor of the engine;
- the close-time resolution and clock adjustment between rounds;
- fee voting, a stateless choice among three numbers;
- the replay-fault journal and the queries of the ledger service;
- deletion for stores without generations, and `can_delete`.

Whole components:
- the consensus adaptor and router: request bookkeeping against an unbounded network;
  the models take its outputs (acquired ledgers, trust snapshots, operating modes) as
  inputs in any order;
- the ancestry cache, which only answers earlier or later, and the validation archive,
  a write-behind queue nothing reads back into consensus;
- open ledger, local transactions, transaction queue and load fees: their outcomes are
  decided by the transaction engine and by balances;
- inbound ledgers, cleaner and skip list: tree traversal over incomplete hash trees;
- manifests and validator lists: consensus sees only the trusted set they yield, which
  every model takes as an input;
- the peer overlay: handshakes, framing and charges are I/O and counters; loss, delay
  and duplication of messages are inputs of the models;
- memory budget and watchdog: an admission that fails is a failing operation here;
- the transaction engine and types, SHAMap, node-store contents, RPC, codecs, crypto
  and configuration: sequential, data-dependent or pure encodings;
- `csf`, a test harness.
