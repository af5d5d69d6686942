------------------------- MODULE OnlineDeleteProofs -------------------------
(* Machine-checked proofs about online deletion, for any interval, history     *)
(* window, queue limit and number of passes, any state trees and any number of *)
(* ledgers and crashes.                                                        *)
EXTENDS OnlineDelete, TLAPS

\* Leaves without arithmetic are for Zenon, which is the default.
USE Zenon

(* The inductive invariant *)

States == Trees \cup {{}}
Steps == {"idle", "check", "floor", "flush", "collect", "preserve", "prepared",
          "retire", "record", "rows"}
Rotations == [pc : Steps, target : Nat, boundary : Nat, roots : SUBSET (Nat \ {0}),
              preserved : SUBSET (Nat \ {0}), pass : Nat, doomed : Nat]
Advice == [last : Nat, min : Nat]
Generations == [writable : Nat, archive : Nat, last : Nat, min : Nat]

Bounded(D) == \E n \in Nat : D \subseteq 0..n

\* A set of generation directories with their tips.
IsStore(G, T) ==
  /\ G = [g \in DOMAIN G |-> G[g]] /\ Bounded(DOMAIN G) /\ DOMAIN G \subseteq Nat
  /\ T \in [DOMAIN G -> -1..MaxSeq]

\* Types.
Typed ==
  /\ height \in 1..MaxSeq /\ validated \in 0..height
  /\ tree \in [1..MaxSeq -> States]
  /\ history \subseteq 1..validated /\ rows \subseteq 1..height
  /\ queue \in Seq(Int) /\ step \in 0..4
  /\ IsStore(gens, tips)
  /\ manifest \in Generations /\ manifests \subseteq Generations
  /\ file \in Advice /\ files \subseteq Advice
  /\ floor \in Nat /\ notify \in Nat /\ crashes \in Nat
  /\ rot \in Rotations

\* The generations of every manifest are there; only the current manifest names
\* the writable generation.
Present ==
  /\ \A m \in Manifests : {m.writable, m.archive} \subseteq DOMAIN gens /\ m.writable # m.archive
  /\ \A m \in manifests : manifest.writable \notin {m.writable, m.archive}
  /\ rot.pc = "retire" => manifests = {} /\ rot.doomed \notin {manifest.writable, manifest.archive}

\* Work implies a validated ledger, which is in the history.
Running ==
  /\ queue # << >> \/ notify # 0 \/ rot.pc # "idle" => validated # 0
  /\ validated # 0 => validated \in history
  /\ step # 0 => queue # << >> /\ queue[1] > 0

\* The ledgers of the queue are in order, and those that left the history are
\* older than all of it.
Jobs ==
  /\ \A i \in DOMAIN queue : queue[i] > 0 => queue[i] <= validated
  /\ \A i \in DOMAIN queue, h \in history : queue[i] > 0 /\ h <= queue[i] => queue[i] \in history
  /\ \A i, j \in DOMAIN queue : i < j /\ queue[i] > 0 /\ queue[j] > 0 => queue[i] < queue[j]

\* A cleanup is for a ledger that left the history and is behind its job.
Cleaning ==
  \A i \in DOMAIN queue : queue[i] < 0 =>
    /\ -queue[i] <= validated /\ -queue[i] \notin history
    /\ \A j \in DOMAIN queue : j > i => queue[j] # -queue[i]

\* There is one barrier at most, and the ledgers behind it are later than its rotation.
Barrier ==
  \A i \in DOMAIN queue : queue[i] = 0 =>
    /\ rot.pc = "flush"
    /\ \A j \in DOMAIN queue : (queue[j] = 0 => i = j) /\ (j > i /\ queue[j] > 0 => queue[j] > rot.target)

Queued == Running /\ Jobs /\ Cleaning /\ Barrier

\* Stored tips are older than every queued ledger but the one whose tip was just stored.
TipsPast ==
  \A g \in DOMAIN gens :
    /\ tips[g] <= height
    /\ \A i \in DOMAIN queue : queue[i] > 0 =>
         tips[g] <= queue[i] /\ (tips[g] = queue[i] => i = 1 /\ step = 4)

\* The floor, the file and the manifest: deletion never runs ahead of them.
Numbers ==
  /\ \A f \in {file} \cup files : f.min <= f.last + 1
  /\ \A m \in Manifests : m.min <= m.last + 1
  /\ manifest.min <= floor /\ floor <= file.min
  /\ \A f \in {file} \cup files, m \in Manifests : f.min = 0 /\ m.min = 0 => 1 \in rows
  /\ notify <= validated /\ rot.target <= validated
  /\ rot.pc \in {"check", "floor", "flush", "collect", "preserve", "prepared"} =>
        manifest.last <= file.last
  /\ rot.pc \in {"floor", "flush", "collect", "preserve", "prepared"} =>
        rot.boundary = file.last /\ rot.boundary + Interval <= rot.target
  /\ rot.pc \in {"flush", "collect", "preserve", "prepared", "retire", "record"} =>
        rot.boundary < floor
  /\ rot.pc = "rows" => files = {} /\ rot.boundary < file.min

\* The tip of an owned ledger is in the writable generation.
Settled == TipOf(manifest) \in Owned => tips[manifest.writable] # NoTip

\* A ledger that may trigger a rotation is queued or the tip has settled.
Pending ==
  /\ notify # 0 /\ notify >= manifest.last + Interval => InQueue(notify) \/ Settled
  /\ rot.pc \in {"check", "floor", "flush"} /\ rot.target >= manifest.last + Interval =>
        InQueue(rot.target) \/ Settled
  /\ step = 4 => tips[manifest.writable] # NoTip \/ queue[1] <= manifest.last

\* Ledger s is complete in the writable generation.
Saved(s) ==
  /\ Header(s) \in gens[manifest.writable]
  /\ \A n \in tree[s] : Node(n) \in gens[manifest.writable]

\* What state retention has achieved.
Retaining ==
  /\ rot.pc \in {"collect", "preserve", "prepared"} =>
        Settled /\ \A s \in rot.preserved : s <= rot.target /\ Saved(s)
  /\ rot.pc = "preserve" =>
        \A s \in rot.roots : s <= rot.target /\ Header(s) \in gens[manifest.writable]
  /\ rot.pc \in {"check", "floor", "flush"} => rot.preserved = {}

\* The nodes and the header of the ledger being persisted have been stored.
Stored ==
  step \in {2, 3, 4} =>
    Header(queue[1]) \in Visible(manifest) /\ \A n : <<queue[1], n>> \notin dirty

Inv == /\ Typed /\ Present /\ Queued /\ TipsPast /\ Numbers /\ Pending /\ Retaining
       /\ Stored /\ TipComplete /\ LiveComplete

-----------------------------------------------------------------------------
(* Numbers *)

\* A bounded set of numbers has a maximum.  The lemmas that need it take it as a
\* hypothesis; it is proved by induction before the theorems, as MaximaExist.
Maxima ==
  \A n \in Nat : \A S \in SUBSET (0..n) :
     S # {} => Max(S) \in S /\ \A y \in S : y <= Max(S)

\* The maximum of two numbers.
LEMMA MaxPair ==
  ASSUME NEW a \in Nat, NEW b \in Nat
  PROVE  /\ Max({a, b}) \in Nat /\ Max({a, b}) >= a /\ Max({a, b}) >= b
         /\ Max({a, b}) = a \/ Max({a, b}) = b
<1>1. \E x \in {a, b} : \A y \in {a, b} : x >= y
  <2>1. CASE a >= b
    BY <2>1, SMTT(30)
  <2>2. CASE b >= a
    BY <2>2, SMTT(30)
  <2> QED
    BY <2>1, <2>2, SMTT(30)
<1>2. Max({a, b}) \in {a, b} /\ \A y \in {a, b} : Max({a, b}) >= y
  BY <1>1 DEF Max
<1> QED
  BY <1>2

\* The minimum of a set that holds its lower bound.
LEMMA MinOne ==
  ASSUME NEW S \in SUBSET (Nat \ {0}), 1 \in S
  PROVE  Min(S) = 1
<1>1. \A y \in S : 1 <= y
  BY SMTT(30)
<1>2. \E x \in S : \A y \in S : x <= y
  BY <1>1
<1>3. Min(S) \in S /\ \A y \in S : Min(S) <= y
  BY <1>2 DEF Min
<1>4. Min(S) \in Nat /\ Min(S) <= 1 /\ Min(S) # 0
  BY <1>3
<1> QED
  BY <1>4, SMTT(30)

\* The sequences of the ledgers of the history.
LEMMA HistoryTyped ==
  ASSUME Typed
  PROVE  /\ height \in Nat /\ height >= 1 /\ height <= MaxSeq
         /\ validated \in Nat /\ validated <= height
         /\ \A h \in history : h \in Nat /\ h >= 1 /\ h <= validated /\ h <= height /\ h \in 1..MaxSeq
<1>1. height \in 1..MaxSeq /\ validated \in 0..height /\ history \subseteq 1..validated /\ MaxSeq \in Nat
  BY BoundsAssumption DEF Typed
<1> QED
  BY <1>1, SMTT(30)

\* The assumptions on the constants, as the provers need them.
LEMMA Sizes ==
  /\ Interval \in Nat /\ Interval > 0 /\ CacheSize \in Nat /\ CacheSize > 0
  /\ QueueLimit \in Nat /\ MaxSeq \in Nat /\ MaxSeq > 0
BY SizesAssumption, BoundsAssumption, SMTT(30)

\* The sequences of the rotator are numbers.
LEMMA NumbersTyped ==
  ASSUME Typed
  PROVE  /\ file.last \in Nat /\ file.min \in Nat /\ manifest.last \in Nat /\ manifest.min \in Nat
         /\ floor \in Nat /\ notify \in Nat /\ validated \in Nat
         /\ rot.target \in Nat /\ rot.boundary \in Nat /\ rot.pass \in Nat
         /\ Interval \in Nat /\ Interval > 0
         /\ \A f \in {file} \cup files : f.last \in Nat /\ f.min \in Nat
         /\ \A m \in Manifests : m.last \in Nat /\ m.min \in Nat
<1>1. file \in Advice /\ files \subseteq Advice
  BY DEF Typed
<1>2. manifest \in Generations /\ \A m \in Manifests : m \in Generations
  BY DEF Typed, Manifests
<1>3. rot \in Rotations /\ floor \in Nat /\ notify \in Nat
  BY DEF Typed
<1>4. \A f \in Advice : f.last \in Nat /\ f.min \in Nat
  BY DEF Advice
<1>5. \A m \in Generations : m.last \in Nat /\ m.min \in Nat
  BY DEF Generations
<1>6. rot.target \in Nat /\ rot.boundary \in Nat /\ rot.pass \in Nat
  BY <1>3 DEF Rotations
<1>7. Interval \in Nat /\ Interval > 0
  BY Sizes
<1> QED
  BY <1>1, <1>2, <1>3, <1>4, <1>5, <1>6, <1>7, HistoryTyped

-----------------------------------------------------------------------------
(* The queue *)

\* A job goes behind the others.
LEMMA AppendIs ==
  ASSUME NEW q \in Seq(Int), NEW x \in Int
  PROVE  /\ Append(q, x) \in Seq(Int) /\ Append(q, x) # << >>
         /\ Len(q) \in Nat /\ Len(Append(q, x)) = Len(q) + 1
         /\ DOMAIN q = 1..Len(q) /\ DOMAIN Append(q, x) = 1..(Len(q) + 1)
         /\ \A i \in DOMAIN q : i \in DOMAIN Append(q, x) /\ Append(q, x)[i] = q[i]
         /\ Append(q, x)[Len(q) + 1] = x
BY SMTT(30)

\* The head of the queue leaves.
LEMMA TailIs ==
  ASSUME NEW q \in Seq(Int), q # << >>
  PROVE  /\ Tail(q) \in Seq(Int) /\ Len(q) \in Nat /\ Len(q) >= 1 /\ Len(Tail(q)) = Len(q) - 1
         /\ DOMAIN q = 1..Len(q) /\ DOMAIN Tail(q) = 1..(Len(q) - 1)
         /\ \A i \in DOMAIN Tail(q) : i + 1 \in DOMAIN q /\ Tail(q)[i] = q[i + 1]
         /\ \A i \in DOMAIN q : i # 1 => i - 1 \in DOMAIN Tail(q) /\ Tail(q)[i - 1] = q[i]
         /\ 1 \in DOMAIN q /\ Head(q) = q[1]
<1>1. Tail(q) \in Seq(Int) /\ Len(q) \in Nat /\ Len(q) >= 1 /\ Len(Tail(q)) = Len(q) - 1
  BY SMTT(30)
<1>2. DOMAIN q = 1..Len(q) /\ DOMAIN Tail(q) = 1..(Len(q) - 1)
  BY <1>1, SMTT(30)
<1>3. \A i \in 1..(Len(q) - 1) : Tail(q)[i] = q[i + 1]
  BY <1>1, SMTT(30)
<1>4. \A i \in 1..Len(q) : i # 1 => i - 1 \in 1..(Len(q) - 1) /\ (i - 1) + 1 = i
  BY <1>1, SMTT(30)
<1>5. \A i \in 1..(Len(q) - 1) : i + 1 \in 1..Len(q)
  BY <1>1, SMTT(30)
<1>6. Head(q) = q[1] /\ 1 \in 1..Len(q)
  BY <1>1, SMTT(30)
<1> QED
  BY <1>1, <1>2, <1>3, <1>4, <1>5, <1>6

\* The members of the queue are numbers.
LEMMA QueueTyped ==
  ASSUME Typed
  PROVE  /\ Len(queue) \in Nat /\ DOMAIN queue = 1..Len(queue)
         /\ \A i \in DOMAIN queue : i \in Nat /\ i >= 1 /\ i <= Len(queue) /\ queue[i] \in Int
         /\ queue # << >> <=> 1 \in DOMAIN queue
<1>1. queue \in Seq(Int)
  BY DEF Typed
<1> QED
  BY <1>1, SMTT(30)

\* The cleanups c of evicted ledgers and the job of ledger x behind the jobs q.
Behind(q, c, x, r) ==
  /\ r \in Seq(Int) /\ r # << >> /\ DOMAIN q = 1..Len(q)
  /\ \A i \in DOMAIN q : i \in DOMAIN r /\ r[i] = q[i]
  /\ \A i \in DOMAIN r :
       \/ i \in DOMAIN q
       \/ i > Len(q) /\ \E k \in DOMAIN c : r[i] = c[k]
       \/ i > Len(q) /\ i = Len(r) /\ r[i] = x
  /\ Len(r) \in DOMAIN r /\ r[Len(r)] = x

LEMMA ConcatIs ==
  ASSUME NEW q \in Seq(Int), NEW c \in Seq(Int), NEW x \in Int, NEW r, r = q \o c \o <<x>>
  PROVE  Behind(q, c, x, r)
<1>1. /\ r \in Seq(Int) /\ Len(q) \in Nat /\ Len(c) \in Nat /\ Len(r) = Len(q) + Len(c) + 1
      /\ DOMAIN q = 1..Len(q) /\ DOMAIN c = 1..Len(c) /\ DOMAIN r = 1..Len(r)
  BY SMTT(30)
<1>2. \A i \in 1..Len(q) : r[i] = q[i]
  BY SMTT(30)
<1>3. \A i \in 1..Len(r) : i > Len(q) /\ i <= Len(q) + Len(c) => r[i] = c[i - Len(q)] /\ i - Len(q) \in 1..Len(c)
  BY SMTT(30)
<1>4. r[Len(q) + Len(c) + 1] = x
  BY SMTT(30)
<1>5. r # << >> /\ Len(r) \in DOMAIN r /\ r[Len(r)] = x
  BY <1>1, <1>4, SMTT(30)
<1>6. \A i \in DOMAIN q : i \in DOMAIN r /\ r[i] = q[i]
  BY <1>1, <1>2, SMTT(30)
<1>7. ASSUME NEW i \in DOMAIN r
      PROVE  \/ i \in DOMAIN q
             \/ i > Len(q) /\ \E k \in DOMAIN c : r[i] = c[k]
             \/ i > Len(q) /\ i = Len(r) /\ r[i] = x
  <2> DEFINE a == Len(q)
             b == Len(c)
             l == Len(r)
  <2>a. a \in Nat /\ b \in Nat /\ l = a + b + 1 /\ i \in 1..l
    BY <1>1
  <2> HIDE DEF a, b, l
  <2>b. i \in 1..a \/ (i > a /\ i <= a + b) \/ (i > a /\ i = l)
    BY <2>a, SMTT(30)
  <2>1. i \in 1..Len(q) \/ (i > Len(q) /\ i <= Len(q) + Len(c)) \/ (i > Len(q) /\ i = Len(r))
    BY <2>b DEF a, b, l
  <2>2. CASE i > Len(q) /\ i <= Len(q) + Len(c)
    BY <1>1, <1>3, <2>2
  <2> QED
    BY <1>1, <1>5, <2>1, <2>2
<1> QED
  BY <1>1, <1>5, <1>6, <1>7 DEF Behind

\* The cleanups are a sequence of the negated ledgers.
LEMMA CleanupsAre ==
  ASSUME NEW S \in SUBSET Int, NEW c \in Cleanups(S)
  PROVE  c \in Seq(Int) /\ \A k \in DOMAIN c : \E h \in S : c[k] = -h
<1>1. PICK n \in 0..Len(queue) : c \in [1..n -> {-h : h \in S}]
  BY DEF Cleanups
<1>2. \A k \in 1..n : c[k] \in {-h : h \in S}
  BY <1>1
<1>3. DOMAIN c = 1..n /\ c = [k \in 1..n |-> c[k]] /\ n \in Nat
  BY <1>1, SMTT(30)
<1>4. \A k \in 1..n : c[k] \in Int
  BY <1>2, SMTT(30)
<1>5. c \in Seq(Int)
  BY <1>3, <1>4, SMTT(30)
<1> QED
  BY <1>2, <1>3, <1>5

\* The owned ledgers belong to the chain.
LEMMA OwnedIs ==
  ASSUME Typed, Queued
  PROVE  /\ \A s \in Owned : s \in Nat /\ s >= 1 /\ s <= validated /\ s <= height /\ s \in 1..MaxSeq
         /\ history \subseteq Owned
         /\ \A i \in DOMAIN queue : queue[i] > 0 => queue[i] \in Owned
         /\ validated # 0 => validated \in Owned
<1>1. \A h \in history : h \in Nat /\ h >= 1 /\ h <= validated /\ h <= height /\ h \in 1..MaxSeq
  BY HistoryTyped
<1>2. height \in Nat /\ validated \in Nat /\ validated <= height /\ height <= MaxSeq /\ MaxSeq \in Nat
  BY HistoryTyped, Sizes
<1>3. \A i \in DOMAIN queue : queue[i] \in Int /\ (queue[i] > 0 => queue[i] <= validated)
  BY QueueTyped DEF Queued, Jobs
<1>4. \A i \in DOMAIN queue : queue[i] > 0 => queue[i] \in 1..MaxSeq
  BY <1>2, <1>3, SMTT(30)
<1>5. ASSUME NEW s \in Owned
      PROVE  s \in Nat /\ s >= 1 /\ s <= validated /\ s <= height /\ s \in 1..MaxSeq
  <2>1. s \in 1..MaxSeq /\ (s \in history \/ \E i \in DOMAIN queue : queue[i] = s)
    BY DEF Owned, InQueue
  <2>2. CASE s \in history
    BY <1>1, <2>1, <2>2
  <2>3. CASE \E i \in DOMAIN queue : queue[i] = s
    BY <1>2, <1>3, <2>1, <2>3, SMTT(30)
  <2> QED
    BY <2>1, <2>2, <2>3
<1>6. history \subseteq Owned
  BY <1>1 DEF Owned
<1>7. \A i \in DOMAIN queue : queue[i] > 0 => queue[i] \in Owned
  BY <1>4 DEF Owned, InQueue
<1> QED
  BY <1>5, <1>6, <1>7 DEF Queued, Running

-----------------------------------------------------------------------------
(* The store *)

\* Generations only gain records, and the manifests stay.
Kept ==
  /\ DOMAIN gens' = DOMAIN gens /\ IsStore(gens', tips')
  /\ \A g \in DOMAIN gens : gens[g] \subseteq gens'[g]
  /\ UNCHANGED <<manifest, manifests>>

\* Records go to the writable generation.
LEMMA PutIs ==
  ASSUME Typed, Present, NEW R, Put(R), UNCHANGED <<tips, manifest, manifests>>
  PROVE  Kept /\ gens'[manifest.writable] = gens[manifest.writable] \cup R
<1>1. manifest.writable \in DOMAIN gens
  BY DEF Present, Manifests
<1>2. gens = [g \in DOMAIN gens |-> gens[g]]
  BY DEF Typed, IsStore
<1>3. /\ DOMAIN gens' = DOMAIN gens /\ gens' = [g \in DOMAIN gens' |-> gens'[g]]
      /\ gens'[manifest.writable] = gens[manifest.writable] \cup R
      /\ \A g \in DOMAIN gens \ {manifest.writable} : gens'[g] = gens[g]
  BY <1>1, <1>2 DEF Put
<1>4. \A g \in DOMAIN gens : gens[g] \subseteq gens'[g]
  BY <1>3
<1>5. IsStore(gens', tips')
  BY <1>3 DEF Typed, IsStore
<1> QED
  BY <1>3, <1>4, <1>5 DEF Kept

\* So does the tip.
LEMMA PutTipIs ==
  ASSUME Typed, Present, NEW s \in 0..MaxSeq, PutTip(s), UNCHANGED <<gens, manifest, manifests>>
  PROVE  /\ Kept
         /\ tips'[manifest.writable] = s
         /\ \A g \in DOMAIN gens : g # manifest.writable => tips'[g] = tips[g]
<1>1. manifest.writable \in DOMAIN gens
  BY DEF Present, Manifests
<1>2. tips \in [DOMAIN gens -> -1..MaxSeq] /\ s \in -1..MaxSeq
  BY Sizes, SMTT(30) DEF Typed, IsStore
<1>3. /\ tips' \in [DOMAIN gens -> -1..MaxSeq]
      /\ tips'[manifest.writable] = s
      /\ \A g \in DOMAIN gens : g # manifest.writable => tips'[g] = tips[g]
  BY <1>1, <1>2 DEF PutTip
<1>4. IsStore(gens', tips')
  BY <1>3 DEF Typed, IsStore
<1> QED
  BY <1>3, <1>4 DEF Kept

\* Leaving the store alone keeps it.
LEMMA SameKept ==
  ASSUME Typed, UNCHANGED store
  PROVE  Kept
BY DEF Typed, Kept, store

\* The readers of every manifest find no less than before.
LEMMA KeptIs ==
  ASSUME Typed, Present, Kept
  PROVE  /\ Manifests' = Manifests /\ manifest' = manifest /\ manifest \in Manifests
         /\ gens[manifest.writable] \subseteq gens'[manifest.writable]
         /\ Visible(manifest) \subseteq Visible(manifest)'
         /\ \A m \in Manifests : Visible(m) \subseteq Visible(m)'
<1>1. Manifests' = Manifests /\ manifest' = manifest /\ manifest \in Manifests
  BY DEF Kept, Manifests
<1>2. \A m \in Manifests : m.writable \in DOMAIN gens /\ m.archive \in DOMAIN gens
  BY DEF Present
<1>3. \A m \in Manifests : gens[m.writable] \subseteq gens'[m.writable] /\ gens[m.archive] \subseteq gens'[m.archive]
  BY <1>2 DEF Kept
<1>4. \A m \in Manifests : Visible(m) \subseteq Visible(m)'
  BY <1>3 DEF Visible
<1>5. Visible(manifest) \subseteq Visible(manifest)'
  BY <1>1, <1>3 DEF Visible
<1> QED
  BY <1>1, <1>3, <1>4, <1>5

\* The generations of the manifests stay.
LEMMA KeptPresent ==
  ASSUME Typed, Present, Kept,
         rot'.pc = "retire" => rot.pc = "retire" /\ rot'.doomed = rot.doomed
  PROVE  Present'
<1>1. Manifests' = Manifests /\ manifest' = manifest /\ manifests' = manifests
  BY KeptIs DEF Kept
<1>2. DOMAIN gens' = DOMAIN gens
  BY DEF Kept
<1> QED
  BY <1>1, <1>2 DEF Present

\* What a reader of a manifest finds as the tip.
LEMMA TipOfIs ==
  ASSUME Typed, Present, NEW m \in Manifests
  PROVE  /\ m.writable \in DOMAIN gens /\ m.archive \in DOMAIN gens
         /\ tips[m.writable] # NoTip => TipOf(m) = tips[m.writable]
         /\ TipOf(m) = 0 \/ TipOf(m) = tips[m.writable] \/ TipOf(m) = tips[m.archive]
         /\ TipOf(m) \in Nat
<1>1. m.writable \in DOMAIN gens /\ m.archive \in DOMAIN gens
  BY DEF Present
<1>2. \A g \in DOMAIN gens : tips[g] \in -1..MaxSeq
  BY DEF Typed, IsStore
<1>3. \A g \in DOMAIN gens : tips[g] # NoTip => tips[g] \in Nat
  BY <1>2, Sizes, SMTT(30) DEF NoTip
<1>4. CASE tips[m.writable] # NoTip
  <2>1. TipOf(m) = tips[m.writable]
    BY <1>4 DEF TipOf
  <2> QED
    BY <1>1, <1>3, <1>4, <2>1
<1>5. CASE tips[m.writable] = NoTip
  <2>1. TipOf(m) = IF tips[m.archive] = NoTip THEN 0 ELSE tips[m.archive]
    BY <1>5 DEF TipOf
  <2>2. 0 \in Nat
    BY SMTT(30)
  <2>3. TipOf(m) = 0 \/ (TipOf(m) = tips[m.archive] /\ tips[m.archive] # NoTip)
    BY <2>1
  <2> QED
    BY <1>1, <1>3, <1>5, <2>2, <2>3
<1> QED
  BY <1>4, <1>5

\* A tip is a ledger of the chain, and older than the queue.
LEMMA TipBound ==
  ASSUME Typed, Present, TipsPast, NEW m \in Manifests
  PROVE  /\ TipOf(m) \in 0..height
         /\ \A i \in DOMAIN queue : queue[i] > 0 =>
              TipOf(m) <= queue[i] /\ (TipOf(m) = queue[i] => i = 1 /\ step = 4)
<1>1. TipOf(m) \in Nat
  BY TipOfIs
<1>2. TipOf(m) = 0 \/ \E g \in DOMAIN gens : TipOf(m) = tips[g]
  BY TipOfIs
<1>3. height \in Nat /\ \A i \in DOMAIN queue : queue[i] \in Int
  BY HistoryTyped, QueueTyped
<1>4. CASE TipOf(m) = 0
  BY <1>3, <1>4, SMTT(30)
<1>5. CASE \E g \in DOMAIN gens : TipOf(m) = tips[g]
  <2>1. PICK g \in DOMAIN gens : TipOf(m) = tips[g]
    BY <1>5
  <2>2. TipOf(m) <= height /\ \A i \in DOMAIN queue : queue[i] > 0 =>
              TipOf(m) <= queue[i] /\ (TipOf(m) = queue[i] => i = 1 /\ step = 4)
    BY <2>1 DEF TipsPast
  <2>3. TipOf(m) \in 0..height
    BY <1>1, <1>3, <2>2, SMTT(30)
  <2> QED
    BY <2>2, <2>3
<1> QED
  BY <1>2, <1>4, <1>5

-----------------------------------------------------------------------------
(* What keeps each part of the invariant *)

\* Complete, node by node.
LEMMA CompleteIs ==
  ASSUME NEW m, NEW s
  PROVE  Complete(m, s) <=> Header(s) \in Visible(m) /\ \A n \in tree[s] : Node(n) \in Visible(m)
BY DEF Complete, StateNodes

\* A tip stays complete when it is the tip of the same owned ledger, and a new
\* one must be complete.
LEMMA CompleteFrame ==
  ASSUME Typed, Present, TipComplete, Kept,
         \A m \in Manifests : TipOf(m)' \in Owned' =>
            \/ /\ TipOf(m)' = TipOf(m) /\ TipOf(m) \in Owned
               /\ tree'[TipOf(m)] = tree[TipOf(m)]
            \/ /\ Header(TipOf(m)') \in Visible(m)'
               /\ \A n \in tree'[TipOf(m)'] : Node(n) \in Visible(m)'
  PROVE  TipComplete'
<1> SUFFICES ASSUME NEW m \in Manifests'
             PROVE  /\ {m.writable, m.archive} \subseteq DOMAIN gens'
                    /\ TipOf(m)' \in Owned' => Complete(m, TipOf(m))'
  BY DEF TipComplete
<1>1. m \in Manifests /\ Visible(m) \subseteq Visible(m)'
  BY KeptIs
<1>2. {m.writable, m.archive} \subseteq DOMAIN gens'
  BY <1>1 DEF Present, Kept
<1>3. ASSUME TipOf(m)' \in Owned'
      PROVE  Complete(m, TipOf(m))'
  <2>1. CASE /\ TipOf(m)' = TipOf(m) /\ TipOf(m) \in Owned
             /\ tree'[TipOf(m)] = tree[TipOf(m)]
    <3>1. Complete(m, TipOf(m))
      BY <1>1, <2>1 DEF TipComplete
    <3>2. Header(TipOf(m)) \in Visible(m) /\ \A n \in tree[TipOf(m)] : Node(n) \in Visible(m)
      BY <3>1, CompleteIs
    <3>3. Header(TipOf(m)') \in Visible(m)' /\ \A n \in tree'[TipOf(m)'] : Node(n) \in Visible(m)'
      BY <1>1, <2>1, <3>2
    <3> QED
      BY <3>3 DEF Complete, StateNodes
  <2>2. CASE /\ Header(TipOf(m)') \in Visible(m)'
             /\ \A n \in tree'[TipOf(m)'] : Node(n) \in Visible(m)'
    BY <2>2 DEF Complete, StateNodes
  <2> QED
    BY <1>1, <1>3, <2>1, <2>2
<1> QED
  BY <1>2, <1>3

\* A tip of the same value stays complete.
LEMMA SameTipComplete ==
  ASSUME Typed, Present, TipsPast, TipComplete, Queued, Kept, UNCHANGED tips,
         \A x \in Owned' : x \in Owned \/ x > height,
         \A x \in 1..height : tree'[x] = tree[x]
  PROVE  TipComplete'
<1>1. ASSUME NEW m \in Manifests, TipOf(m)' \in Owned'
      PROVE  TipOf(m)' = TipOf(m) /\ TipOf(m) \in Owned /\ tree'[TipOf(m)] = tree[TipOf(m)]
  <2>1. TipOf(m)' = TipOf(m)
    BY DEF TipOf
  <2>2. TipOf(m) \in 0..height /\ height \in Nat
    BY TipBound, HistoryTyped
  <2>3. ~(TipOf(m) > height)
    BY <2>2, SMTT(30)
  <2>4. TipOf(m) \in Owned
    BY <1>1, <2>1, <2>3
  <2>5. TipOf(m) \in Nat /\ TipOf(m) >= 1 /\ TipOf(m) <= height
    BY <2>4, OwnedIs
  <2>6. TipOf(m) \in 1..height
    BY <2>2, <2>5, SMTT(30)
  <2> QED
    BY <2>1, <2>4, <2>6
<1> QED
  BY <1>1, CompleteFrame

\* An owned ledger stays readable when what is no longer dirty is stored.
LEMMA LiveFrame ==
  ASSUME LiveComplete, Visible(manifest) \subseteq Visible(manifest)',
         \A x \in Owned' :
            \/ x \in Owned /\ tree'[x] = tree[x]
            \/ \A n \in tree'[x] : Node(n) \in Visible(manifest)' \/ <<x, n>> \in dirty',
         \A x \in Owned : \A n : <<x, n>> \in dirty => <<x, n>> \in dirty' \/ Node(n) \in Visible(manifest)'
  PROVE  LiveComplete'
<1> SUFFICES ASSUME NEW x \in Owned', NEW n \in tree'[x]
             PROVE  Node(n) \in Visible(manifest)' \/ <<x, n>> \in dirty'
  BY DEF LiveComplete
<1>1. CASE x \in Owned /\ tree'[x] = tree[x]
  <2>1. Node(n) \in Visible(manifest) \/ <<x, n>> \in dirty
    BY <1>1 DEF LiveComplete
  <2> QED
    BY <1>1, <2>1
<1> QED
  BY <1>1

\* Tips stay older than the queue.
LEMMA PastFrame ==
  ASSUME Typed, DOMAIN gens' = DOMAIN gens, UNCHANGED tips, TipsPast,
         height' \in Nat, height' >= height,
         \A i \in DOMAIN queue' : queue'[i] \in Int,
         \A i \in DOMAIN queue' : queue'[i] > 0 =>
            \/ queue'[i] > height
            \/ \E j \in DOMAIN queue : queue[j] = queue'[i] /\ (j = 1 /\ step = 4 => i = 1 /\ step' = 4)
  PROVE  TipsPast'
<1> SUFFICES ASSUME NEW g \in DOMAIN gens
             PROVE  /\ tips[g] <= height'
                    /\ \A i \in DOMAIN queue' : queue'[i] > 0 =>
                         tips[g] <= queue'[i] /\ (tips[g] = queue'[i] => i = 1 /\ step' = 4)
  BY DEF TipsPast
<1>1. tips[g] \in Int /\ tips[g] <= height /\ height \in Nat
  BY HistoryTyped, Sizes, SMTT(30) DEF TipsPast, Typed, IsStore
<1>2. tips[g] <= height'
  BY <1>1, SMTT(30)
<1>3. ASSUME NEW i \in DOMAIN queue', queue'[i] > 0
      PROVE  tips[g] <= queue'[i] /\ (tips[g] = queue'[i] => i = 1 /\ step' = 4)
  <2>1. CASE queue'[i] > height
    BY <1>1, <2>1, SMTT(30)
  <2>2. CASE \E j \in DOMAIN queue : queue[j] = queue'[i] /\ (j = 1 /\ step = 4 => i = 1 /\ step' = 4)
    <3>1. PICK j \in DOMAIN queue : queue[j] = queue'[i] /\ (j = 1 /\ step = 4 => i = 1 /\ step' = 4)
      BY <2>2
    <3>2. tips[g] <= queue[j] /\ (tips[g] = queue[j] => j = 1 /\ step = 4)
      BY <1>3, <3>1 DEF TipsPast
    <3> QED
      BY <3>1, <3>2
  <2> QED
    BY <1>3, <2>1, <2>2
<1> QED
  BY <1>2, <1>3

\* A settled tip stays settled.
LEMMA SettledFrame ==
  ASSUME Typed, Present, TipsPast, Settled, UNCHANGED <<tips, manifest>>,
         \A x \in Owned' : x \in Owned \/ x > height
  PROVE  Settled'
<1>1. TipOf(manifest)' = TipOf(manifest)
  BY DEF TipOf
<1>2. TipOf(manifest) \in 0..height /\ height \in Nat
  BY TipBound, HistoryTyped DEF Manifests
<1>3. ~(TipOf(manifest) > height)
  BY <1>2, SMTT(30)
<1> QED
  BY <1>1, <1>3 DEF Settled

\* What was retained stays retained.
LEMMA RetainingFrame ==
  ASSUME Typed, Present, Numbers, Retaining, Kept, UNCHANGED rot, Settled => Settled',
         \A x \in 1..height : tree'[x] = tree[x]
  PROVE  Retaining'
<1>1. gens[manifest.writable] \subseteq gens'[manifest.writable] /\ manifest' = manifest
  BY KeptIs
<1>2. rot.preserved \in SUBSET (Nat \ {0}) /\ rot.target \in Nat /\ rot.target <= height /\ height \in Nat
  <2>1. rot.preserved \in SUBSET (Nat \ {0})
    BY DEF Typed, Rotations
  <2>2. rot.target \in Nat /\ rot.target <= validated /\ validated <= height /\ validated \in Nat /\ height \in Nat
    BY NumbersTyped, HistoryTyped DEF Numbers
  <2>3. rot.target <= height
    BY <2>2, SMTT(30)
  <2> QED
    BY <2>1, <2>2, <2>3
<1>3. \A s \in rot.preserved : s <= rot.target => s \in 1..height
  BY <1>2, SMTT(30)
<1>4. \A s \in rot.preserved : s <= rot.target /\ Saved(s) => Saved(s)'
  BY <1>1, <1>3 DEF Saved
<1>5. \A s : Header(s) \in gens[manifest.writable] => Header(s) \in gens'[manifest'.writable]
  BY <1>1
<1> QED
  BY <1>4, <1>5 DEF Retaining

\* What was stored of the head of the queue stays stored.
LEMMA StoredFrame ==
  ASSUME Stored, Visible(manifest) \subseteq Visible(manifest)',
         step' \in {2, 3, 4} => queue'[1] = queue[1] /\ step \in {2, 3, 4},
         \A n : <<queue[1], n>> \in dirty' => <<queue[1], n>> \in dirty
  PROVE  Stored'
BY DEF Stored

-----------------------------------------------------------------------------
(* The head of the queue leaves it *)

\* The order of the queue is kept.
LEMMA TailQueued ==
  ASSUME Typed, Queued, queue # << >>, Done, UNCHANGED <<validated, history, notify>>,
         rot'.pc # "idle" => rot.pc # "idle", queue[1] # 0 => rot' = rot
  PROVE  /\ Queued' /\ queue' \in Seq(Int)
         /\ Owned' \subseteq Owned
         /\ \A x : InQueue(x) /\ x # queue[1] => InQueue(x)'
         /\ \A i \in DOMAIN queue' : queue'[i] \in Int /\ i + 1 \in DOMAIN queue /\ queue'[i] = queue[i + 1]
<1>1. /\ queue' \in Seq(Int) /\ 1 \in DOMAIN queue
      /\ \A i \in DOMAIN queue' : i + 1 \in DOMAIN queue /\ queue'[i] = queue[i + 1]
      /\ \A i \in DOMAIN queue : i # 1 => i - 1 \in DOMAIN queue' /\ queue'[i - 1] = queue[i]
      /\ step' = 0
  BY TailIs DEF Typed, Done
<1>2. \A i \in DOMAIN queue : i \in Nat /\ i >= 1 /\ queue[i] \in Int
  BY QueueTyped
<1>3. \A i \in DOMAIN queue' : i \in Nat /\ queue'[i] \in Int
  BY <1>1, SMTT(30)
<1>4. Running'
  <2>1. step' = 0 /\ (queue' # << >> \/ notify' # 0 \/ rot'.pc # "idle" => validated # 0)
    BY <1>1 DEF Queued, Running
  <2> QED
    BY <2>1 DEF Queued, Running
<1>5. Jobs'
  <2>1. \A i \in DOMAIN queue' : queue'[i] > 0 => queue'[i] <= validated
    BY <1>1 DEF Queued, Jobs
  <2>2. \A i \in DOMAIN queue', h \in history : queue'[i] > 0 /\ h <= queue'[i] => queue'[i] \in history
    BY <1>1 DEF Queued, Jobs
  <2>3. \A i, j \in DOMAIN queue' : i < j => i + 1 < j + 1
    BY <1>3, SMTT(30)
  <2>4. \A i, j \in DOMAIN queue' : i < j /\ queue'[i] > 0 /\ queue'[j] > 0 => queue'[i] < queue'[j]
    BY <1>1, <2>3 DEF Queued, Jobs
  <2> QED
    BY <2>1, <2>2, <2>4 DEF Jobs
<1>6. Cleaning'
  <2> SUFFICES ASSUME NEW i \in DOMAIN queue', queue'[i] < 0
               PROVE  /\ -queue'[i] <= validated /\ -queue'[i] \notin history
                      /\ \A j \in DOMAIN queue' : j > i => queue'[j] # -queue'[i]
    BY DEF Cleaning
  <2>1. i + 1 \in DOMAIN queue /\ queue[i + 1] < 0 /\ queue'[i] = queue[i + 1]
    BY <1>1
  <2>2. /\ -queue[i + 1] <= validated /\ -queue[i + 1] \notin history
        /\ \A j \in DOMAIN queue : j > i + 1 => queue[j] # -queue[i + 1]
    BY <2>1 DEF Queued, Cleaning
  <2>3. \A j \in DOMAIN queue' : j > i => j + 1 > i + 1
    BY <1>3, SMTT(30)
  <2> QED
    BY <1>1, <2>1, <2>2, <2>3
<1>7. Barrier'
  <2> SUFFICES ASSUME NEW i \in DOMAIN queue', queue'[i] = 0
               PROVE  /\ rot'.pc = "flush"
                      /\ \A j \in DOMAIN queue' : (queue'[j] = 0 => i = j) /\ (j > i /\ queue'[j] > 0 => queue'[j] > rot'.target)
    BY DEF Barrier
  <2>1. i + 1 \in DOMAIN queue /\ queue[i + 1] = 0 /\ i + 1 # 1 /\ i \in Nat
    BY <1>1, <1>2, <1>3, SMTT(30)
  <2>2. /\ rot.pc = "flush"
        /\ \A j \in DOMAIN queue : (queue[j] = 0 => i + 1 = j) /\ (j > i + 1 /\ queue[j] > 0 => queue[j] > rot.target)
    BY <2>1 DEF Queued, Barrier
  <2>3. rot' = rot
    BY <1>1, <2>1, <2>2
  <2>4. \A j \in DOMAIN queue' : (j > i => j + 1 > i + 1) /\ (i + 1 = j + 1 => i = j)
    BY <1>3, SMTT(30)
  <2>5. \A j \in DOMAIN queue' : queue'[j] = 0 => i = j
    BY <1>1, <1>3, <2>2, SMTT(30)
  <2>6. \A j \in DOMAIN queue' : j > i /\ queue'[j] > 0 => queue'[j] > rot.target
    BY <1>1, <2>2, <2>4
  <2> QED
    BY <2>2, <2>3, <2>5, <2>6
<1>8. Owned' \subseteq Owned
  <2> SUFFICES ASSUME NEW x \in Owned'
               PROVE  x \in Owned
    OBVIOUS
  <2>1. x \in 1..MaxSeq /\ (x \in history \/ \E i \in DOMAIN queue' : queue'[i] = x)
    BY DEF Owned, InQueue
  <2>2. x \in history \/ \E i \in DOMAIN queue : queue[i] = x
    BY <1>1, <2>1
  <2> QED
    BY <2>1, <2>2 DEF Owned, InQueue
<1>9. \A x : InQueue(x) /\ x # queue[1] => InQueue(x)'
  BY <1>1 DEF InQueue
<1> QED
  BY <1>1, <1>3, <1>4, <1>5, <1>6, <1>7, <1>8, <1>9 DEF Queued

\* The tips stay older than what is left of the queue.
LEMMA TailPast ==
  ASSUME Typed, Queued, queue # << >>, Done, TipsPast, Kept, UNCHANGED <<tips, height>>
  PROVE  TipsPast'
<1>1. \A i \in DOMAIN queue' : i + 1 \in DOMAIN queue /\ queue'[i] = queue[i + 1]
  BY TailIs DEF Typed, Done
<1>2. \A i \in DOMAIN queue' : queue'[i] \in Int
  BY <1>1, QueueTyped
<1>3. DOMAIN gens' = DOMAIN gens
  BY DEF Kept
<1>4. height \in Nat /\ height >= height
  BY HistoryTyped, SMTT(30)
<1>5. \A i \in DOMAIN queue' : i \in Nat /\ i >= 1
  BY TailIs, SMTT(30) DEF Typed, Done
<1>6. \A i \in DOMAIN queue' : i + 1 # 1
  BY <1>5, SMTT(30)
<1> QED
  BY <1>1, <1>2, <1>3, <1>4, <1>6, PastFrame

\* A ledger that was cancelled takes its claim to the tip along.
LEMMA CanceledSettles ==
  ASSUME Typed, Present, Queued, TipsPast, queue # << >>, queue[1] > 0, queue[1] \notin history,
         Done, UNCHANGED <<history, tips, manifest>>
  PROVE  Settled'
<1>1. /\ \A i \in DOMAIN queue' : i + 1 \in DOMAIN queue /\ queue'[i] = queue[i + 1]
      /\ 1 \in DOMAIN queue
  BY TailIs DEF Typed, Done
<1>2. TipOf(manifest)' = TipOf(manifest) /\ TipOf(manifest) \in Nat
  BY TipOfIs DEF TipOf, Manifests
<1>3. \A i \in DOMAIN queue' : i \in Nat /\ i >= 1
  BY TailIs, SMTT(30) DEF Typed, Done
<1>4. \A i \in DOMAIN queue' : i + 1 # 1
  BY <1>3, SMTT(30)
<1>5. TipOf(manifest) <= queue[1] /\ queue[1] \in Int
  BY <1>1, TipBound, QueueTyped DEF Manifests
<1>6. ASSUME TipOf(manifest) \in Owned'
      PROVE  FALSE
  <2>1. TipOf(manifest) \in 1..MaxSeq /\ (TipOf(manifest) \in history \/ \E i \in DOMAIN queue' : queue'[i] = TipOf(manifest))
    BY <1>6 DEF Owned, InQueue
  <2>2. TipOf(manifest) > 0
    BY <2>1, Sizes, SMTT(30)
  <2>3. CASE TipOf(manifest) \in history
    BY <1>1, <1>5, <2>3 DEF Queued, Jobs
  <2>4. CASE \E i \in DOMAIN queue' : queue'[i] = TipOf(manifest)
    <3>1. PICK i \in DOMAIN queue' : queue'[i] = TipOf(manifest)
      BY <2>4
    <3>2. i + 1 \in DOMAIN queue /\ queue[i + 1] = TipOf(manifest) /\ queue[i + 1] > 0 /\ i + 1 # 1
      BY <1>1, <1>4, <2>2, <3>1
    <3> QED
      BY <3>2, TipBound DEF Manifests
  <2> QED
    BY <2>1, <2>3, <2>4
<1> QED
  BY <1>2, <1>6 DEF Settled

\* So a rotation still waits for the ledgers behind it.
LEMMA TailPending ==
  ASSUME Typed, Present, Queued, TipsPast, Pending, queue # << >>, Done,
         UNCHANGED <<validated, history, tips, manifest, notify, rot>>,
         queue[1] <= manifest.last \/ Settled'
  PROVE  Pending' /\ (Settled => Settled')
<1>1. /\ Owned' \subseteq Owned
      /\ \A x : InQueue(x) /\ x # queue[1] => InQueue(x)'
  BY TailQueued
<1>2. Settled => Settled'
  BY <1>1, SettledFrame
<1>3. /\ manifest.last \in Nat /\ Interval \in Nat /\ Interval > 0 /\ queue[1] \in Int
      /\ notify \in Nat /\ rot.target \in Nat
  BY NumbersTyped, QueueTyped
<1>4. ASSUME NEW x \in Nat, x >= manifest.last + Interval, InQueue(x) \/ Settled
      PROVE  InQueue(x)' \/ Settled'
  <2>1. queue[1] <= manifest.last => x # queue[1]
    BY <1>3, <1>4, SMTT(30)
  <2> QED
    BY <1>1, <1>2, <1>4, <2>1
<1>5. step' = 0 /\ step' # 4
  BY SMTT(30) DEF Done
<1> QED
  BY <1>2, <1>3, <1>4, <1>5 DEF Pending

-----------------------------------------------------------------------------
(* Steps of the persistence worker *)

\* What the worker leaves alone.
Worker ==
  UNCHANGED <<height, tree, validated, history, manifest, manifests, file, files, floor, notify, crashes>>

\* The boundaries do not depend on the worker.
LEMMA WorkerNumbers ==
  ASSUME Numbers, Worker, UNCHANGED rot, rows \subseteq rows'
  PROVE  Numbers'
<1>1. Manifests' = Manifests
  BY DEF Worker, Manifests
<1>2. 1 \in rows => 1 \in rows'
  OBVIOUS
<1> QED
  BY <1>1, <1>2 DEF Numbers, Worker

LEMMA WorkerTyped ==
  ASSUME Typed, Worker, Kept, UNCHANGED rot, queue' \in Seq(Int), step' \in 0..4, rows' \subseteq 1..height
  PROVE  Typed'
BY DEF Typed, Worker, Kept

\* A step of the worker that stores no tip.
LEMMA WorkerFrame ==
  ASSUME Inv, Worker, Kept, UNCHANGED <<tips, rot>>,
         queue' \in Seq(Int), step' \in 0..4, rows \subseteq rows', rows' \subseteq 1..height,
         Queued', TipsPast', Pending', Settled => Settled', Owned' \subseteq Owned, Stored',
         \A x \in Owned : \A n : <<x, n>> \in dirty => <<x, n>> \in dirty' \/ Node(n) \in Visible(manifest)'
  PROVE  Inv'
<1>0. /\ Typed /\ Present /\ Queued /\ TipsPast /\ Numbers /\ Retaining
      /\ TipComplete /\ LiveComplete
  BY DEF Inv
<1>1. Typed'
  BY <1>0, WorkerTyped
<1>2. Present'
  BY <1>0, KeptPresent
<1>3. Numbers'
  BY <1>0, WorkerNumbers
<1>4. \A x \in 1..height : tree'[x] = tree[x]
  BY DEF Worker
<1>5. Retaining'
  BY <1>0, <1>4, RetainingFrame
<1>6. TipComplete'
  BY <1>0, <1>4, SameTipComplete
<1>7. Visible(manifest) \subseteq Visible(manifest)'
  BY <1>0, KeptIs
<1>8. \A x \in Owned' : x \in Owned /\ tree'[x] = tree[x]
  BY DEF Worker
<1>9. LiveComplete'
  BY <1>0, <1>7, <1>8, LiveFrame
<1> QED
  BY <1>1, <1>2, <1>3, <1>5, <1>6, <1>9 DEF Inv

\* A step of a ledger's job: it goes on, or ends because the job was cancelled.
LEMMA ContinueStep ==
  ASSUME Inv, Worker, Kept, UNCHANGED <<tips, rot>>,
         queue # << >>, queue[1] > 0, step # 4, NEW k \in 1..3, Continue(k),
         rows \subseteq rows', rows' \subseteq 1..height,
         k # 1 => Header(queue[1]) \in Visible(manifest)' /\ \A n : <<queue[1], n>> \notin dirty',
         \A x \in Owned : \A n : <<x, n>> \in dirty => <<x, n>> \in dirty' \/ Node(n) \in Visible(manifest)'
  PROVE  Inv'
<1>0. Typed /\ Present /\ Queued /\ TipsPast /\ Pending
  BY DEF Inv
<1>1. CASE queue[1] \notin history
  <2>1. Canceled
    BY <1>0, <1>1, TailIs DEF Canceled, Job, Typed
  <2>2. Done
    BY <2>1 DEF Continue
  <2>3. UNCHANGED <<validated, history, notify, height, manifest>>
    BY DEF Worker
  <2>4. Queued' /\ queue' \in Seq(Int) /\ Owned' \subseteq Owned
    BY <1>0, <2>2, <2>3, TailQueued
  <2>5. TipsPast'
    BY <1>0, <2>2, <2>3, TailPast
  <2>6. Settled'
    BY <1>0, <1>1, <2>2, <2>3, CanceledSettles
  <2>7. Pending'
    BY <1>0, <2>2, <2>3, <2>6, TailPending
  <2>8. step' \in 0..4 /\ Stored'
    BY <2>2, SMTT(30) DEF Done, Stored
  <2> QED
    BY <2>4, <2>5, <2>6, <2>7, <2>8, WorkerFrame
<1>2. CASE queue[1] \in history
  <2>1. ~Canceled
    BY <1>0, <1>2, TailIs DEF Canceled, Job, Typed
  <2>2. step' = k /\ queue' = queue
    BY <2>1 DEF Continue
  <2>3. UNCHANGED <<validated, history, notify, height, manifest>>
    BY DEF Worker
  <2>4. Owned' = Owned
    BY <2>2, <2>3 DEF Owned, InQueue
  <2>5. Queued'
    BY <1>0, <2>2, <2>3 DEF Queued, Running, Jobs, Cleaning, Barrier
  <2>6. k # 4 /\ k \in 0..4 /\ (k \in {2, 3, 4} => k # 1)
    BY SMTT(30)
  <2>7. TipsPast'
    <3>1. DOMAIN gens' = DOMAIN gens
      BY DEF Kept
    <3> QED
      BY <1>0, <2>2, <2>3, <3>1 DEF TipsPast
  <2>8. TipOf(manifest)' = TipOf(manifest)
    BY <2>3 DEF TipOf
  <2>9. Settled' <=> Settled
    BY <2>3, <2>4, <2>8 DEF Settled
  <2>10. \A x : InQueue(x) => InQueue(x)'
    BY <2>2 DEF InQueue
  <2>11. Pending'
    BY <1>0, <2>2, <2>3, <2>6, <2>9, <2>10 DEF Pending
  <2>12. Stored'
    BY <2>2, <2>6 DEF Stored
  <2>13. queue' \in Seq(Int) /\ step' \in 0..4
    BY <1>0, <2>2, <2>6 DEF Typed
  <2> QED
    BY <2>4, <2>5, <2>7, <2>9, <2>11, <2>12, <2>13, WorkerFrame
<1> QED
  BY <1>1, <1>2

\* The head of the queue.
LEMMA HeadIs ==
  ASSUME Typed, Queued, step # 0 \/ queue # << >>
  PROVE  /\ queue # << >> /\ Job = queue[1] /\ 1 \in DOMAIN queue
         /\ step # 0 => queue[1] > 0
BY TailIs DEF Typed, Queued, Running, Job

LEMMA TakeStep ==
  ASSUME Inv, TakeJob
  PROVE  Inv'
<1>0. Typed /\ Present /\ Queued
  BY DEF Inv
<1>1. Worker /\ UNCHANGED <<store, tips, rot, rows, dirty>>
  BY DEF TakeJob, Worker, chain, store, advice
<1>2. Kept
  BY <1>0, <1>1, SameKept
<1>3. queue # << >> /\ queue[1] > 0 /\ Continue(1) /\ step # 4
  BY <1>0, HeadIs, SMTT(30) DEF TakeJob
<1>4. 1 \in 1..3
  BY SMTT(30)
<1>5. rows' \subseteq 1..height
  BY <1>0, <1>1 DEF Typed
<1> QED
  BY <1>1, <1>2, <1>3, <1>4, <1>5, ContinueStep

\* Storing the dirty nodes of some ledgers: what is no longer dirty is stored.
LEMMA StoreDirty ==
  ASSUME Typed, Present, NEW S \in SUBSET Int, NEW H,
         Put({Node(d[2]) : d \in Unstored(S)} \cup H), dirty' = dirty \ Unstored(S),
         UNCHANGED <<tips, manifest, manifests>>
  PROVE  /\ Kept /\ H \subseteq gens'[manifest.writable] /\ H \subseteq Visible(manifest)'
         /\ \A x : \A n : <<x, n>> \in dirty => <<x, n>> \in dirty' \/ Node(n) \in gens'[manifest.writable]
         /\ \A x : \A n : <<x, n>> \in dirty => <<x, n>> \in dirty' \/ Node(n) \in Visible(manifest)'
         /\ \A s \in S : \A n : <<s, n>> \notin dirty'
         /\ dirty' \subseteq dirty
<1> DEFINE R == {Node(d[2]) : d \in Unstored(S)}
<1>1. Kept /\ gens'[manifest.writable] = gens[manifest.writable] \cup (R \cup H)
  BY PutIs
<1>2. gens'[manifest.writable] \subseteq Visible(manifest)'
  BY <1>1 DEF Visible
<1>3. \A d \in Unstored(S) : Node(d[2]) \in R
  OBVIOUS
<1>4. \A x : \A n : <<x, n>>[2] = n
  BY SMTT(30)
<1>5. ASSUME NEW x, NEW n, <<x, n>> \in Unstored(S)
      PROVE  Node(n) \in R
  BY <1>3, <1>4, <1>5
<1> HIDE DEF R
<1>6. \A x : \A n : <<x, n>> \in dirty => <<x, n>> \in dirty' \/ Node(n) \in gens'[manifest.writable]
  BY <1>1, <1>5
<1>7. ASSUME NEW s \in S, NEW n, <<s, n>> \in dirty
      PROVE  <<s, n>> \in Unstored(S)
  <2>1. <<s, n>>[1] = s /\ <<s, n>>[2] = n
    BY SMTT(30)
  <2>2. \A k \in s..s : k = s
    BY SMTT(30)
  <2>3. \A k \in (s..<<s, n>>[1]) \cup (<<s, n>>[1]..s) : <<k, <<s, n>>[2]>> \in dirty
    BY <1>7, <2>1, <2>2
  <2> QED
    BY <1>7, <2>3 DEF Unstored
<1> QED
  BY <1>1, <1>2, <1>6, <1>7

LEMMA NodesStep ==
  ASSUME Inv, PersistNodes
  PROVE  Inv'
<1>0. Typed /\ Present /\ Queued
  BY DEF Inv
<1>1. Worker /\ UNCHANGED <<tips, rot, rows>>
  BY DEF PersistNodes, Worker, chain, advice
<1>2. step # 0 /\ step # 4 /\ 2 \in 1..3 /\ step = 1
  BY SMTT(30) DEF PersistNodes
<1>3. queue # << >> /\ queue[1] > 0 /\ Job = queue[1] /\ Job \in Int
  BY <1>0, <1>2, HeadIs, QueueTyped
<1>4. /\ Kept /\ {Header(Job)} \subseteq Visible(manifest)'
      /\ \A x : \A n : <<x, n>> \in dirty => <<x, n>> \in dirty' \/ Node(n) \in Visible(manifest)'
      /\ \A s \in {Job} : \A n : <<s, n>> \notin dirty'
  <2>1. {Job} \in SUBSET Int
    BY <1>3
  <2>2. Put({Node(d[2]) : d \in Unstored({Job})} \cup {Header(Job)}) /\ dirty' = dirty \ Unstored({Job})
    BY DEF PersistNodes
  <2> QED
    BY <1>0, <1>1, <2>1, <2>2, StoreDirty DEF Worker
<1>5. rows \subseteq rows' /\ rows' \subseteq 1..height
  BY <1>0, <1>1 DEF Typed
<1>6. Continue(2)
  BY DEF PersistNodes
<1> QED
  BY <1>1, <1>2, <1>3, <1>4, <1>5, <1>6, ContinueStep

LEMMA RowStep ==
  ASSUME Inv, PersistRow
  PROVE  Inv'
<1>0. Typed /\ Present /\ Queued /\ Stored
  BY DEF Inv
<1>1. Worker /\ UNCHANGED <<store, tips, rot, dirty>>
  BY DEF PersistRow, Worker, chain, store, advice
<1>2. step # 0 /\ step # 4 /\ 3 \in 1..3 /\ step \in {2, 3, 4}
  BY SMTT(30) DEF PersistRow
<1>3. queue # << >> /\ queue[1] > 0 /\ Job = queue[1] /\ 1 \in DOMAIN queue
  BY <1>0, <1>2, HeadIs
<1>4. Kept
  BY <1>0, <1>1, SameKept
<1>5. rows \subseteq rows' /\ rows' \subseteq 1..height
  <2>1. queue[1] \in Owned
    BY <1>0, <1>3, OwnedIs
  <2>2. queue[1] \in Nat /\ queue[1] >= 1 /\ queue[1] <= height
    BY <1>0, <2>1, OwnedIs
  <2>3. queue[1] \in 1..height
    BY <1>0, <2>2, HistoryTyped, SMTT(30)
  <2> QED
    BY <1>0, <1>3, <2>3 DEF PersistRow, Typed
<1>6. Visible(manifest) \subseteq Visible(manifest)'
  BY <1>0, <1>4, KeptIs
<1>7. Header(queue[1]) \in Visible(manifest)' /\ \A n : <<queue[1], n>> \notin dirty'
  BY <1>0, <1>1, <1>2, <1>6 DEF Stored
<1>8. Continue(3)
  BY DEF PersistRow
<1> QED
  BY <1>1, <1>2, <1>3, <1>4, <1>5, <1>7, <1>8, ContinueStep

LEMMA FinishStep ==
  ASSUME Inv, FinishJob
  PROVE  Inv'
<1>0. Typed /\ Present /\ Queued /\ TipsPast /\ Pending
  BY DEF Inv
<1>1. Worker /\ UNCHANGED <<store, tips, rot, rows, dirty, validated, history, height, manifest, notify>>
  BY DEF FinishJob, Worker, chain, store, advice
<1>2. step # 0 /\ step = 4 /\ Done
  BY SMTT(30) DEF FinishJob
<1>3. queue # << >> /\ 1 \in DOMAIN queue
  BY <1>0, <1>2, HeadIs
<1>4. Kept
  BY <1>0, <1>1, SameKept
<1>5. Queued' /\ queue' \in Seq(Int) /\ Owned' \subseteq Owned
  BY <1>0, <1>1, <1>2, <1>3, TailQueued
<1>6. TipsPast'
  BY <1>0, <1>1, <1>2, <1>3, <1>4, TailPast
<1>7. queue[1] <= manifest.last \/ Settled'
  BY <1>0, <1>1, <1>2 DEF Pending, Settled
<1>8. Pending' /\ (Settled => Settled')
  BY <1>0, <1>1, <1>2, <1>3, <1>7, TailPending
<1>9. step' \in 0..4 /\ Stored'
  BY <1>2, SMTT(30) DEF Done, Stored
<1>10. rows \subseteq rows' /\ rows' \subseteq 1..height
  BY <1>0, <1>1 DEF Typed
<1> QED
  BY <1>1, <1>4, <1>5, <1>6, <1>8, <1>9, <1>10, WorkerFrame

\* A step of the worker that stores the tip v.
LEMMA PutTipFrame ==
  ASSUME Inv, Worker, UNCHANGED <<gens, rot, rows, dirty>>, NEW v \in 0..height, PutTip(v),
         queue' \in Seq(Int), step' \in 0..4, Queued', Stored', Owned' \subseteq Owned,
         \A i \in DOMAIN queue' : queue'[i] > 0 =>
            /\ v <= queue'[i] /\ (v = queue'[i] => i = 1 /\ step' = 4)
            /\ \E j \in DOMAIN queue : queue[j] = queue'[i] /\ ~(j = 1 /\ step = 4),
         v \in Owned => Header(v) \in Visible(manifest) /\ \A n \in tree[v] : Node(n) \in Visible(manifest)
  PROVE  Inv'
<1>0. /\ Typed /\ Present /\ Queued /\ TipsPast /\ Numbers /\ Retaining
      /\ TipComplete /\ LiveComplete
  BY DEF Inv
<1>a. UNCHANGED <<manifest, manifests, tree, height>>
  BY DEF Worker
<1>b. v \in 0..MaxSeq /\ v # NoTip /\ v <= height
  BY <1>0, HistoryTyped, Sizes, SMTT(30) DEF NoTip
<1>1. /\ Kept
      /\ tips'[manifest.writable] = v
      /\ \A g \in DOMAIN gens : g # manifest.writable => tips'[g] = tips[g]
  BY <1>0, <1>a, <1>b, PutTipIs
<1>2. Typed'
  BY <1>0, <1>1, WorkerTyped DEF Typed
<1>3. Present'
  BY <1>0, <1>1, KeptPresent
<1>4. Numbers'
  BY <1>0, WorkerNumbers
<1>5. tips'[manifest'.writable] # NoTip
  BY <1>a, <1>b, <1>1
<1>6. Settled' /\ Pending'
  BY <1>5 DEF Settled, Pending
<1>7. Retaining'
  BY <1>0, <1>a, <1>1, <1>6, RetainingFrame
<1>8. TipsPast'
  <2> SUFFICES ASSUME NEW g \in DOMAIN gens
               PROVE  /\ tips'[g] <= height
                      /\ \A i \in DOMAIN queue' : queue'[i] > 0 =>
                           tips'[g] <= queue'[i] /\ (tips'[g] = queue'[i] => i = 1 /\ step' = 4)
    BY <1>a DEF TipsPast
  <2>1. CASE g = manifest.writable
    BY <1>b, <1>1, <2>1
  <2>2. CASE g # manifest.writable
    <3>1. tips'[g] = tips[g]
      BY <1>1, <2>2
    <3>2. tips[g] <= height /\ \A j \in DOMAIN queue : queue[j] > 0 =>
             tips[g] <= queue[j] /\ (tips[g] = queue[j] => j = 1 /\ step = 4)
      BY <1>0 DEF TipsPast
    <3>3. ASSUME NEW i \in DOMAIN queue', queue'[i] > 0
          PROVE  tips[g] <= queue'[i] /\ tips[g] # queue'[i]
      <4>1. PICK j \in DOMAIN queue : queue[j] = queue'[i] /\ ~(j = 1 /\ step = 4)
        BY <3>3
      <4> QED
        BY <3>2, <3>3, <4>1
    <3> QED
      BY <3>1, <3>2, <3>3
  <2> QED
    BY <2>1, <2>2
<1>9. TipComplete'
  <2>1. ASSUME NEW m \in Manifests, TipOf(m)' \in Owned'
        PROVE  \/ /\ TipOf(m)' = TipOf(m) /\ TipOf(m) \in Owned
                  /\ tree'[TipOf(m)] = tree[TipOf(m)]
               \/ /\ Header(TipOf(m)') \in Visible(m)'
                  /\ \A n \in tree'[TipOf(m)'] : Node(n) \in Visible(m)'
    <3>1. CASE m = manifest
      <4>1. TipOf(m)' = v
        BY <1>b, <1>1, <3>1 DEF TipOf
      <4>2. Visible(m)' = Visible(manifest)
        BY <3>1 DEF Visible
      <4> QED
        BY <1>a, <2>1, <4>1, <4>2
    <3>2. CASE m \in manifests
      <4>1. manifest.writable # m.writable /\ manifest.writable # m.archive
        BY <1>0, <3>2 DEF Present
      <4>2. m.writable \in DOMAIN gens /\ m.archive \in DOMAIN gens
        BY <1>0 DEF Present
      <4>3. tips'[m.writable] = tips[m.writable] /\ tips'[m.archive] = tips[m.archive]
        BY <1>1, <4>1, <4>2
      <4>4. TipOf(m)' = TipOf(m)
        BY <4>3 DEF TipOf
      <4> QED
        BY <1>a, <2>1, <4>4
    <3> QED
      BY <3>1, <3>2 DEF Manifests
  <2> QED
    BY <1>0, <1>1, <2>1, CompleteFrame
<1>10. LiveComplete'
  <2>1. Visible(manifest)' = Visible(manifest)
    BY <1>a DEF Visible
  <2>2. \A x \in Owned' : x \in Owned /\ tree'[x] = tree[x]
    BY <1>a
  <2> QED
    BY <1>0, <2>1, <2>2, LiveFrame
<1> QED
  BY <1>2, <1>3, <1>4, <1>6, <1>7, <1>8, <1>9, <1>10 DEF Inv

LEMMA TipStep ==
  ASSUME Inv, PersistTip
  PROVE  Inv'
<1>0. Typed /\ Present /\ Queued /\ TipsPast /\ Stored /\ LiveComplete
  BY DEF Inv
<1>1. /\ Worker /\ UNCHANGED <<gens, rot, rows, dirty, queue, history, validated, notify>>
      /\ step = 3 /\ step' = 4
  BY DEF PersistTip, Worker, chain, advice
<1>2. step # 0 /\ step # 4 /\ step \in {2, 3, 4} /\ step' \in 0..4
  BY <1>1, SMTT(30)
<1>3. queue # << >> /\ queue[1] > 0 /\ Job = queue[1] /\ 1 \in DOMAIN queue
  BY <1>0, <1>2, HeadIs
<1>4. queue[1] \in Owned /\ queue[1] \in Nat /\ queue[1] <= height /\ height \in Nat
  BY <1>0, <1>3, OwnedIs, HistoryTyped
<1>5. queue[1] \in 0..height
  BY <1>4, SMTT(30)
<1>6. TipOf(manifest) < Job
  <2>1. TipOf(manifest) <= queue[1] /\ TipOf(manifest) # queue[1] /\ TipOf(manifest) \in 0..height
    BY <1>0, <1>2, <1>3, TipBound DEF Manifests
  <2> QED
    BY <1>3, <1>4, <2>1, SMTT(30)
<1>7. PutTip(queue[1])
  BY <1>3, <1>6 DEF PersistTip
<1>8. Owned' = Owned
  BY <1>1 DEF Owned, InQueue
<1>9. Queued'
  <2>1. step' # 0 => queue' # << >> /\ queue'[1] > 0
    BY <1>1, <1>3
  <2> QED
    BY <1>0, <1>1, <2>1 DEF Queued, Running, Jobs, Cleaning, Barrier
<1>10. Visible(manifest)' = Visible(manifest)
  BY <1>1 DEF Visible, Worker
<1>11. Stored'
  BY <1>0, <1>1, <1>2, <1>10 DEF Stored
<1>12. \A i \in DOMAIN queue : queue[i] > 0 => queue[1] <= queue[i] /\ (queue[1] = queue[i] => i = 1)
  <2>1. \A i \in DOMAIN queue : i = 1 \/ 1 < i
    BY <1>0, QueueTyped, SMTT(30)
  <2>2. \A i \in DOMAIN queue : 1 < i /\ queue[i] > 0 => queue[1] < queue[i]
    BY <1>0, <1>3 DEF Queued, Jobs
  <2>3. \A i \in DOMAIN queue : queue[i] \in Int
    BY <1>0, QueueTyped
  <2> QED
    BY <1>4, <2>1, <2>2, <2>3, SMTT(30)
<1>13. Header(queue[1]) \in Visible(manifest) /\ \A n \in tree[queue[1]] : Node(n) \in Visible(manifest)
  BY <1>0, <1>2, <1>4 DEF Stored, LiveComplete
<1>14. queue' \in Seq(Int)
  BY <1>0, <1>1 DEF Typed
<1> QED
  BY <1>1, <1>2, <1>5, <1>7, <1>8, <1>9, <1>11, <1>12, <1>13, <1>14, PutTipFrame

LEMMA CleanStep ==
  ASSUME Inv, CleanTip
  PROVE  Inv'
<1>0. Typed /\ Present /\ Queued /\ TipsPast /\ Pending
  BY DEF Inv
<1>1. /\ Worker /\ UNCHANGED <<gens, rot, rows, dirty, validated, history, height, manifest, notify>>
      /\ queue # << >> /\ Job < 0 /\ Done
  BY DEF CleanTip, Worker, chain, advice
<1>2. Job = queue[1] /\ 1 \in DOMAIN queue /\ queue[1] \in Int /\ queue[1] < 0
  BY <1>0, <1>1, HeadIs, QueueTyped
<1>3. step = 0 /\ queue[1] # 0 /\ step # 4
  <2>1. ~(queue[1] > 0) /\ queue[1] # 0
    BY <1>2, SMTT(30)
  <2>2. step = 0
    BY <1>0, <2>1 DEF Queued, Running
  <2> QED
    BY <2>1, <2>2, SMTT(30)
<1>4. /\ Queued' /\ queue' \in Seq(Int) /\ Owned' \subseteq Owned
      /\ \A i \in DOMAIN queue' : queue'[i] \in Int /\ i + 1 \in DOMAIN queue /\ queue'[i] = queue[i + 1]
  BY <1>0, <1>1, TailQueued
<1>5. step' \in 0..4 /\ Stored'
  BY <1>1, SMTT(30) DEF Done, Stored
<1>6. rows \subseteq rows' /\ rows' \subseteq 1..height
  BY <1>0, <1>1 DEF Typed
<1>7. CASE TipOf(manifest) = -Job
  <2>1. PutTip(0) /\ 0 \in 0..height
    BY <1>0, <1>7, HistoryTyped, SMTT(30) DEF CleanTip
  <2>2. \A i \in DOMAIN queue' : queue'[i] > 0 => 0 <= queue'[i] /\ 0 # queue'[i]
    BY <1>4, SMTT(30)
  <2>3. 0 \notin Owned
    <3>1. ~(0 >= 1)
      BY SMTT(30)
    <3> QED
      BY <1>0, <3>1, OwnedIs
  <2> QED
    BY <1>1, <1>3, <1>4, <1>5, <2>1, <2>2, <2>3, PutTipFrame
<1>8. CASE TipOf(manifest) # -Job
  <2>1. UNCHANGED store /\ tips' = tips
    BY <1>8 DEF CleanTip, store
  <2>2. Kept
    BY <1>0, <2>1, SameKept
  <2>3. TipsPast'
    BY <1>0, <1>1, <2>1, <2>2, TailPast
  <2>4. queue[1] <= manifest.last
    BY <1>0, <1>2, NumbersTyped, SMTT(30)
  <2>5. Pending' /\ (Settled => Settled')
    BY <1>0, <1>1, <2>1, <2>4, TailPending
  <2> QED
    BY <1>1, <1>4, <1>5, <1>6, <2>1, <2>2, <2>3, <2>5, WorkerFrame
<1> QED
  BY <1>7, <1>8

LEMMA BarrierStep ==
  ASSUME Inv, PassBarrier
  PROVE  Inv'
<1>0. /\ Typed /\ Present /\ Queued /\ TipsPast /\ Numbers /\ Pending /\ Retaining
      /\ TipComplete /\ LiveComplete
  BY DEF Inv
<1>1. /\ Worker /\ UNCHANGED <<store, tips, rows, dirty, validated, history, height, tree, manifest, notify>>
      /\ queue # << >> /\ Job = 0 /\ Done /\ rot' = [rot EXCEPT !.pc = "collect"]
  BY DEF PassBarrier, Worker, chain, store, advice
<1>2. queue[1] = 0 /\ 1 \in DOMAIN queue
  BY <1>0, <1>1, HeadIs
<1>3. /\ rot.pc = "flush"
      /\ \A j \in DOMAIN queue : j > 1 /\ queue[j] > 0 => queue[j] > rot.target
  BY <1>0, <1>2 DEF Queued, Barrier
<1>4. rot \in Rotations
  BY <1>0 DEF Typed
<1>5. /\ rot' \in Rotations /\ rot'.pc = "collect" /\ rot'.target = rot.target
      /\ rot'.boundary = rot.boundary /\ rot'.preserved = rot.preserved
  BY <1>1, <1>4, SMTT(30) DEF Rotations, Steps
<1>6. /\ Queued' /\ queue' \in Seq(Int) /\ Owned' \subseteq Owned
      /\ \A x : InQueue(x) /\ x # queue[1] => InQueue(x)'
  BY <1>0, <1>1, <1>2, <1>3, TailQueued
<1>7. Kept
  BY <1>0, <1>1, SameKept
<1>8. Typed'
  <2>1. step' \in 0..4
    BY <1>1, SMTT(30) DEF Done
  <2> QED
    BY <1>0, <1>1, <1>5, <1>6, <1>7, <2>1 DEF Typed, Worker, Kept
<1>9. Present'
  BY <1>0, <1>5, <1>7, KeptPresent
<1>10. TipsPast'
  BY <1>0, <1>1, <1>7, TailPast
<1>11. Numbers'
  <2>1. Manifests' = Manifests
    BY <1>1 DEF Worker, Manifests
  <2> QED
    BY <1>0, <1>1, <1>3, <1>5, <2>1 DEF Numbers, Worker
<1>12. Settled
  <2>1. /\ manifest.last <= file.last /\ rot.boundary = file.last /\ rot.boundary + Interval <= rot.target
    BY <1>0, <1>3 DEF Numbers
  <2>2. /\ manifest.last \in Nat /\ file.last \in Nat /\ rot.target \in Nat /\ Interval \in Nat /\ Interval > 0
    BY <1>0, NumbersTyped
  <2>3. rot.target >= manifest.last + Interval /\ rot.target > 0 /\ ~(rot.target > rot.target)
    BY <2>1, <2>2, SMTT(30)
  <2>4. ~InQueue(rot.target)
    <3>1. SUFFICES ASSUME NEW j \in DOMAIN queue, queue[j] = rot.target
                   PROVE  FALSE
      BY DEF InQueue
    <3>2. j > 1
      BY <1>0, <1>2, <2>3, <3>1, QueueTyped, SMTT(30)
    <3> QED
      BY <1>3, <2>3, <3>1, <3>2
  <2> QED
    BY <1>0, <1>3, <2>3, <2>4 DEF Pending
<1>13. Settled'
  BY <1>0, <1>1, <1>6, <1>12, SettledFrame
<1>14. Pending'
  <2>1. step' # 4
    BY <1>1, SMTT(30) DEF Done
  <2> QED
    BY <1>5, <1>13, <2>1 DEF Pending
<1>15. Retaining'
  BY <1>0, <1>3, <1>5, <1>13 DEF Retaining
<1>16. Stored'
  BY <1>1, SMTT(30) DEF Done, Stored
<1>17. TipComplete'
  BY <1>0, <1>1, <1>6, <1>7, SameTipComplete
<1>18. LiveComplete'
  <2>1. Visible(manifest) \subseteq Visible(manifest)'
    BY <1>0, <1>7, KeptIs
  <2>2. \A x \in Owned' : x \in Owned /\ tree'[x] = tree[x]
    BY <1>1, <1>6
  <2> QED
    BY <1>0, <1>1, <2>1, <2>2, LiveFrame
<1> QED
  BY <1>6, <1>8, <1>9, <1>10, <1>11, <1>14, <1>15, <1>16, <1>17, <1>18 DEF Inv

-----------------------------------------------------------------------------
(* A ledger becomes the validated ledger *)

\* What a validation does to the history and the queue.
LEMMA ValidateIs ==
  ASSUME Typed, Queued, NEW s \in Nat, s > height, s <= MaxSeq, NEW t, Validate(s, t)
  PROVE  /\ history' \subseteq history \cup {s} /\ s \in history'
         /\ \A h, q \in history : h <= q /\ h \in history' => q \in history'
         /\ queue' \in Seq(Int) /\ queue' # << >>
         /\ \A i \in DOMAIN queue : i \in DOMAIN queue' /\ queue'[i] = queue[i]
         /\ \A i \in DOMAIN queue' :
              \/ i \in DOMAIN queue
              \/ i > Len(queue) /\ \E h \in history \ history' : queue'[i] = -h
              \/ i > Len(queue) /\ queue'[i] = s /\ \A j \in DOMAIN queue' : j <= i
         /\ InQueue(s)'
<1>1. /\ height \in Nat /\ validated \in Nat /\ validated <= height
      /\ \A h \in history : h \in Nat /\ h >= 1 /\ h <= validated /\ h <= height
      /\ CacheSize \in Nat /\ CacheSize > 0
  BY HistoryTyped, Sizes
<1>2. /\ history' = {h \in history \cup {s} : h > s - CacheSize}
      /\ \E jobs \in Cleanups({h \in history \ history' : InQueue(h)}) : queue' = queue \o jobs \o <<s>>
  BY DEF Validate
<1>3. \A h : h \in history' <=> (h \in history \/ h = s) /\ h > s - CacheSize
  BY <1>2
<1>4. s > s - CacheSize
  BY <1>1, SMTT(30)
<1>5. \A h, q \in history : h <= q /\ h > s - CacheSize => q > s - CacheSize
  BY <1>1, SMTT(30)
<1>6. PICK jobs \in Cleanups({h \in history \ history' : InQueue(h)}) : queue' = queue \o jobs \o <<s>>
  BY <1>2
<1>7. {h \in history \ history' : InQueue(h)} \in SUBSET Int
  BY <1>1, SMTT(30)
<1>8. jobs \in Seq(Int) /\ \A k \in DOMAIN jobs : \E h \in history \ history' : jobs[k] = -h
  BY <1>7, CleanupsAre
<1>9. /\ queue' \in Seq(Int) /\ queue' # << >> /\ DOMAIN queue = 1..Len(queue)
      /\ \A i \in DOMAIN queue : i \in DOMAIN queue' /\ queue'[i] = queue[i]
      /\ \A i \in DOMAIN queue' :
           \/ i \in DOMAIN queue
           \/ i > Len(queue) /\ \E k \in DOMAIN jobs : queue'[i] = jobs[k]
           \/ i > Len(queue) /\ i = Len(queue') /\ queue'[i] = s
      /\ Len(queue') \in DOMAIN queue' /\ queue'[Len(queue')] = s
  <2>1. queue \in Seq(Int) /\ s \in Int
    BY SMTT(30) DEF Typed
  <2>2. Behind(queue, jobs, s, queue')
    BY <1>6, <1>8, <2>1, ConcatIs
  <2> QED
    BY <2>2 DEF Behind
<1>10. \A j \in DOMAIN queue' : j <= Len(queue')
  BY <1>9, SMTT(30)
<1>11. \A i \in DOMAIN queue' :
           \/ i \in DOMAIN queue
           \/ i > Len(queue) /\ \E h \in history \ history' : queue'[i] = -h
           \/ i > Len(queue) /\ queue'[i] = s /\ \A j \in DOMAIN queue' : j <= i
  BY <1>8, <1>9, <1>10
<1>12. InQueue(s)'
  BY <1>9 DEF InQueue
<1>13. history' \subseteq history \cup {s} /\ s \in history'
  BY <1>3, <1>4
<1>14. \A h, q \in history : h <= q /\ h \in history' => q \in history'
  BY <1>3, <1>5
<1> QED
  BY <1>9, <1>11, <1>12, <1>13, <1>14

LEMMA ValidateQueued ==
  ASSUME Typed, Queued, Numbers, NEW s \in Nat, s > height, s <= MaxSeq, NEW t, Validate(s, t)
  PROVE  Queued'
<1>1. /\ height \in Nat /\ validated \in Nat /\ validated <= height
      /\ \A h \in history : h \in Nat /\ h >= 1 /\ h <= validated /\ h <= height
  BY HistoryTyped
<1>2. /\ history' \subseteq history \cup {s} /\ s \in history'
      /\ \A h, q \in history : h <= q /\ h \in history' => q \in history'
      /\ queue' \in Seq(Int) /\ queue' # << >>
      /\ \A i \in DOMAIN queue : i \in DOMAIN queue' /\ queue'[i] = queue[i]
      /\ InQueue(s)'
  BY ValidateIs
<1>3. \A i \in DOMAIN queue' :
           \/ i \in DOMAIN queue
           \/ i > Len(queue) /\ \E h \in history \ history' : queue'[i] = -h
           \/ i > Len(queue) /\ queue'[i] = s /\ \A j \in DOMAIN queue' : j <= i
  BY ValidateIs
<1>4. validated' = s /\ step' = step /\ rot' = rot
  BY DEF Validate
<1>5. /\ Len(queue) \in Nat
      /\ \A i \in DOMAIN queue : i \in Nat /\ i >= 1 /\ i <= Len(queue) /\ queue[i] \in Int
      /\ queue # << >> <=> 1 \in DOMAIN queue
  BY QueueTyped
<1>6. \A i \in DOMAIN queue' : i \in Nat /\ queue'[i] \in Int
  BY <1>2, SMTT(30)
<1>7. \A h \in history : ~(-h > 0) /\ -h # 0 /\ -(-h) = h /\ h < s /\ h # s
  BY <1>1, SMTT(30)
<1>8. s > 0 /\ s # 0 /\ ~(s < 0) /\ s <= s
  BY <1>1, SMTT(30)
<1>9. \A i \in DOMAIN queue' : queue'[i] > 0 =>
           (i \in DOMAIN queue /\ queue'[i] = queue[i]) \/ (i > Len(queue) /\ queue'[i] = s /\ \A j \in DOMAIN queue' : j <= i)
  BY <1>2, <1>3, <1>7
<1>10. Running'
  <2>1. step' # 0 => queue'[1] > 0
    BY <1>2, <1>4, <1>5 DEF Queued, Running
  <2> QED
    BY <1>2, <1>4, <1>8, <2>1 DEF Running
<1>11. Jobs'
  <2>1. \A i \in DOMAIN queue : queue[i] > 0 => queue[i] <= validated /\ queue[i] < s
    <3>1. \A i \in DOMAIN queue : queue[i] > 0 => queue[i] <= validated
      BY DEF Queued, Jobs
    <3>2. \A i \in DOMAIN queue : queue[i] <= validated => queue[i] < s
      BY <1>1, <1>5, SMTT(30)
    <3> QED
      BY <3>1, <3>2
  <2>2. \A i \in DOMAIN queue' : queue'[i] > 0 => queue'[i] <= s
    <3>1. \A i \in DOMAIN queue : queue[i] < s => queue[i] <= s
      BY <1>5, SMTT(30)
    <3> QED
      BY <1>8, <1>9, <2>1, <3>1
  <2>3. ASSUME NEW i \in DOMAIN queue', NEW h \in history', queue'[i] > 0, h <= queue'[i]
        PROVE  queue'[i] \in history'
    <3>1. CASE i \in DOMAIN queue /\ queue'[i] = queue[i]
      <4>1. h # s
        BY <1>5, <2>1, <2>3, <3>1, SMTT(30)
      <4>2. h \in history /\ queue[i] \in history
        BY <1>2, <2>3, <3>1, <4>1 DEF Queued, Jobs
      <4> QED
        BY <1>2, <2>3, <3>1, <4>2
    <3> QED
      BY <1>2, <1>9, <2>3, <3>1
  <2>4. ASSUME NEW i \in DOMAIN queue', NEW j \in DOMAIN queue', i < j, queue'[i] > 0, queue'[j] > 0
        PROVE  queue'[i] < queue'[j]
    <3>1. i \in DOMAIN queue /\ queue'[i] = queue[i]
      <4>1. ~(j <= i)
        BY <1>6, <2>4, SMTT(30)
      <4> QED
        BY <1>9, <2>4, <4>1
    <3>2. CASE j \in DOMAIN queue /\ queue'[j] = queue[j]
      BY <2>4, <3>1, <3>2 DEF Queued, Jobs
    <3>3. CASE queue'[j] = s
      BY <2>1, <2>4, <3>1, <3>3
    <3> QED
      BY <1>9, <2>4, <3>2, <3>3
  <2> QED
    BY <1>4, <2>2, <2>3, <2>4 DEF Jobs
<1>12. Cleaning'
  <2> SUFFICES ASSUME NEW i \in DOMAIN queue', queue'[i] < 0
               PROVE  /\ -queue'[i] <= s /\ -queue'[i] \notin history'
                      /\ \A j \in DOMAIN queue' : j > i => queue'[j] # -queue'[i]
    BY <1>4 DEF Cleaning
  <2>1. CASE i \in DOMAIN queue
    <3>1. queue'[i] = queue[i] /\ queue[i] \in Int
      BY <1>2, <1>5, <2>1
    <3>2. /\ -queue[i] <= validated /\ -queue[i] \notin history
          /\ \A j \in DOMAIN queue : j > i => queue[j] # -queue[i]
      BY <2>1, <3>1 DEF Queued, Cleaning
    <3>3. -queue[i] <= s /\ -queue[i] # s /\ -queue[i] > 0
      BY <1>1, <3>1, <3>2, SMTT(30)
    <3>4. ASSUME NEW j \in DOMAIN queue', j > i
          PROVE  queue'[j] # -queue[i]
      <4>1. CASE j \in DOMAIN queue
        BY <1>2, <3>2, <3>4, <4>1
      <4>2. CASE \E h \in history \ history' : queue'[j] = -h
        BY <1>7, <3>3, <4>2
      <4>3. CASE queue'[j] = s
        BY <3>3, <4>3
      <4> QED
        BY <1>3, <4>1, <4>2, <4>3
    <3> QED
      BY <1>2, <3>1, <3>2, <3>3, <3>4
  <2>2. CASE i > Len(queue) /\ \E h \in history \ history' : queue'[i] = -h
    <3>1. PICK h \in history \ history' : queue'[i] = -h
      BY <2>2
    <3>2. -queue'[i] = h /\ h \in Nat /\ h < s /\ h > 0
      BY <1>1, <1>7, <3>1, SMTT(30)
    <3>3. h <= s /\ h # s
      BY <3>2, SMTT(30)
    <3>4. ASSUME NEW j \in DOMAIN queue', j > i
          PROVE  queue'[j] # h
      <4>1. j \notin DOMAIN queue
        BY <1>5, <1>6, <2>2, <3>4, SMTT(30)
      <4>2. CASE \E g \in history \ history' : queue'[j] = -g
        BY <1>7, <3>2, <4>2
      <4> QED
        BY <1>3, <3>3, <4>1, <4>2
    <3> QED
      BY <3>1, <3>2, <3>3, <3>4
  <2> QED
    BY <1>3, <1>8, <2>1, <2>2
<1>13. Barrier'
  <2> SUFFICES ASSUME NEW i \in DOMAIN queue', queue'[i] = 0
               PROVE  /\ rot.pc = "flush"
                      /\ \A j \in DOMAIN queue' : (queue'[j] = 0 => i = j) /\ (j > i /\ queue'[j] > 0 => queue'[j] > rot.target)
    BY <1>4 DEF Barrier
  <2>1. \A j \in DOMAIN queue' : queue'[j] = 0 => j \in DOMAIN queue /\ queue[j] = 0
    BY <1>2, <1>3, <1>7, <1>8
  <2>2. /\ rot.pc = "flush"
        /\ \A j \in DOMAIN queue : (queue[j] = 0 => i = j) /\ (j > i /\ queue[j] > 0 => queue[j] > rot.target)
    BY <2>1 DEF Queued, Barrier
  <2>3. s > rot.target
    BY <1>1, NumbersTyped, SMTT(30) DEF Numbers
  <2>4. \A j \in DOMAIN queue' : j > i /\ queue'[j] > 0 => queue'[j] > rot.target
    BY <1>9, <2>2, <2>3
  <2> QED
    BY <2>1, <2>2, <2>4
<1> QED
  BY <1>10, <1>11, <1>12, <1>13 DEF Queued

\* A ledger that can be read in full, from the store or from its own map, joins
\* the chain.
LEMMA ValidateStep ==
  ASSUME Inv, NEW s \in Nat, s > height, s <= MaxSeq, NEW t \in Trees, Validate(s, t), Kept,
         dirty \subseteq dirty', \A x : \A n : <<x, n>> \in dirty' => x = s \/ <<x, n>> \in dirty,
         \A n \in t : Node(n) \in Visible(manifest)' \/ <<s, n>> \in dirty'
  PROVE  Inv'
<1>0. /\ Typed /\ Present /\ Queued /\ TipsPast /\ Numbers /\ Pending /\ Retaining /\ Stored
      /\ TipComplete /\ LiveComplete
  BY DEF Inv
<1>1. /\ height \in Nat /\ height >= 1 /\ validated \in Nat /\ validated <= height /\ MaxSeq \in Nat
      /\ \A h \in history : h \in Nat /\ h >= 1 /\ h <= height /\ h \in 1..MaxSeq
      /\ s \in 1..MaxSeq /\ height <= s /\ s \in 0..s /\ validated < s /\ s >= height
  BY <1>0, HistoryTyped, Sizes, SMTT(30)
<1>2. /\ height' = s /\ validated' = s /\ tree' = [tree EXCEPT ![s] = t] /\ notify' = Max({notify, s})
      /\ UNCHANGED <<step, rows, tips, manifest, manifests, file, files, floor, rot, crashes>>
  BY DEF Validate, advice
<1>3. /\ history' \subseteq history \cup {s} /\ s \in history'
      /\ queue' \in Seq(Int) /\ queue' # << >>
      /\ \A i \in DOMAIN queue : i \in DOMAIN queue' /\ queue'[i] = queue[i]
      /\ InQueue(s)'
  BY <1>0, ValidateIs
<1>4. \A i \in DOMAIN queue' :
           \/ i \in DOMAIN queue
           \/ i > Len(queue) /\ \E h \in history \ history' : queue'[i] = -h
           \/ i > Len(queue) /\ queue'[i] = s /\ \A j \in DOMAIN queue' : j <= i
  BY <1>0, ValidateIs
<1>5. Queued'
  BY <1>0, ValidateQueued
<1>6. tree' \in [1..MaxSeq -> States] /\ tree'[s] = t /\ \A x \in 1..height : tree'[x] = tree[x]
  <2>1. tree \in [1..MaxSeq -> States] /\ t \in States
    BY <1>0 DEF Typed, States
  <2>2. \A x \in 1..height : x \in 1..MaxSeq /\ x # s
    BY <1>1, SMTT(30)
  <2> QED
    BY <1>1, <1>2, <2>1, <2>2
<1>7. notify' = s
  <2>1. notify \in Nat /\ notify <= validated
    BY <1>0, NumbersTyped DEF Numbers
  <2>2. Max({notify, s}) >= s /\ (Max({notify, s}) = notify \/ Max({notify, s}) = s)
    BY <2>1, MaxPair
  <2>3. notify < s
    BY <1>1, <2>1, SMTT(30)
  <2> QED
    BY <1>2, <2>1, <2>2, <2>3, SMTT(30)
<1>8. Typed'
  <2>1. history' \subseteq 1..s /\ rows' \subseteq 1..s
    BY <1>0, <1>1, <1>2, <1>3, SMTT(30) DEF Typed
  <2> QED
    BY <1>0, <1>1, <1>2, <1>3, <1>6, <1>7, <2>1 DEF Typed, Kept
<1>9. Present'
  BY <1>0, <1>2, KeptPresent
<1>10. \A i \in DOMAIN queue' : queue'[i] \in Int /\
          (queue'[i] > 0 => queue'[i] > height \/ (i \in DOMAIN queue /\ queue[i] = queue'[i]))
  <2>1. \A h \in history : ~(-h > 0)
    BY <1>1, SMTT(30)
  <2>2. \A i \in DOMAIN queue' : queue'[i] \in Int
    BY <1>3, SMTT(30)
  <2> QED
    BY <1>3, <1>4, <2>1, <2>2
<1>11. TipsPast'
  <2>1. DOMAIN gens' = DOMAIN gens /\ height' \in Nat /\ height' >= height
    BY <1>1, <1>2 DEF Kept
  <2> QED
    BY <1>0, <1>2, <1>10, <2>1, PastFrame
<1>12. \A x \in Owned' : x \in Owned \/ x = s
  <2> SUFFICES ASSUME NEW x \in Owned', x # s
               PROVE  x \in Owned
    OBVIOUS
  <2>1. x \in 1..MaxSeq /\ (x \in history' \/ \E i \in DOMAIN queue' : queue'[i] = x)
    BY DEF Owned, InQueue
  <2>2. x > 0
    BY <1>1, <2>1, SMTT(30)
  <2>3. CASE x \in history'
    BY <1>3, <2>1, <2>3 DEF Owned
  <2>4. CASE \E i \in DOMAIN queue' : queue'[i] = x
    <3>1. PICK i \in DOMAIN queue' : queue'[i] = x
      BY <2>4
    <3>2. \A h \in history : -h # x
      BY <1>1, <2>2, SMTT(30)
    <3>3. i \in DOMAIN queue /\ queue[i] = x
      BY <1>3, <1>4, <3>1, <3>2
    <3> QED
      BY <2>1, <3>3 DEF Owned, InQueue
  <2> QED
    BY <2>1, <2>3, <2>4
<1>13. \A x \in Owned' : x \in Owned \/ x > height
  BY <1>12
<1>14. Settled => Settled'
  BY <1>0, <1>2, <1>13, SettledFrame
<1>15. \A x : InQueue(x) => InQueue(x)'
  BY <1>3 DEF InQueue
<1>16. step # 0 => 1 \in DOMAIN queue /\ queue'[1] = queue[1]
  BY <1>0, <1>3, QueueTyped DEF Queued, Running
<1>17. Pending'
  <2>1. step = 4 => step # 0
    BY SMTT(30)
  <2> QED
    BY <1>0, <1>2, <1>3, <1>7, <1>14, <1>15, <1>16, <2>1 DEF Pending
<1>18. Numbers'
  <2>1. Manifests' = Manifests
    BY <1>2 DEF Manifests
  <2>2. notify' <= validated' /\ rot'.target <= validated'
    BY <1>0, <1>1, <1>2, <1>7, NumbersTyped, SMTT(30) DEF Numbers
  <2> QED
    BY <1>0, <1>2, <2>1, <2>2 DEF Numbers
<1>19. Retaining'
  BY <1>0, <1>2, <1>6, <1>14, RetainingFrame
<1>20. Visible(manifest) \subseteq Visible(manifest)'
  BY <1>0, KeptIs
<1>21. Stored'
  <2>1. step \in {2, 3, 4} => step # 0
    BY SMTT(30)
  <2>2. step \in {2, 3, 4} => queue[1] # s
    BY <1>0, <1>1, <1>16, <2>1, QueueTyped, SMTT(30) DEF Queued, Running, Jobs
  <2> QED
    BY <1>0, <1>2, <1>16, <1>20, <2>1, <2>2 DEF Stored
<1>22. TipComplete'
  BY <1>0, <1>2, <1>6, <1>13, SameTipComplete
<1>23. LiveComplete'
  <2>1. \A x \in Owned : x \in 1..height
    BY <1>0, <1>1, OwnedIs, SMTT(30)
  <2>2. \A x \in Owned' :
            \/ x \in Owned /\ tree'[x] = tree[x]
            \/ \A n \in tree'[x] : Node(n) \in Visible(manifest)' \/ <<x, n>> \in dirty'
    BY <1>6, <1>12, <2>1
  <2> QED
    BY <1>0, <1>20, <2>2, LiveFrame
<1> QED
  BY <1>5, <1>8, <1>9, <1>11, <1>17, <1>18, <1>19, <1>21, <1>22, <1>23 DEF Inv

LEMMA CloseStep ==
  ASSUME Inv, CloseLedger
  PROVE  Inv'
<1>0. Typed /\ Present /\ Queued /\ LiveComplete
  BY DEF Inv
<1>1. PICK t \in Trees :
        /\ validated = height /\ validated # 0 /\ height < MaxSeq
        /\ Validate(height + 1, t)
        /\ dirty' = dirty \cup {<<height + 1, n>> :
                                  n \in {x \in t : x \in tree[validated] => <<validated, x>> \in dirty}}
        /\ UNCHANGED gens
  BY DEF CloseLedger
<1>2. PICK s : s = height + 1
  OBVIOUS
<1>3. s \in Nat /\ s > height /\ s <= MaxSeq
  BY <1>0, <1>1, <1>2, HistoryTyped, Sizes, SMTT(30)
<1>4. Kept
  <2>1. UNCHANGED store
    BY <1>1 DEF Validate, store
  <2> QED
    BY <1>0, <2>1, SameKept
<1>5. validated \in Owned
  BY <1>0, <1>1, OwnedIs
<1>6. PICK N : N = {x \in t : x \in tree[validated] => <<validated, x>> \in dirty}
  OBVIOUS
<1>7. dirty' = dirty \cup {<<s, n>> : n \in N}
  BY <1>1, <1>2, <1>6
<1>8. \A n \in t : n \in N \/ Node(n) \in Visible(manifest)
  BY <1>0, <1>5, <1>6 DEF LiveComplete
<1>9. \A n \in N : <<s, n>> \in dirty'
  BY <1>7
<1>10. \A x : \A n : <<x, n>> \in dirty' => x = s \/ <<x, n>> \in dirty
  BY <1>7, SMTT(30)
<1>11. Visible(manifest) \subseteq Visible(manifest)'
  BY <1>0, <1>4, KeptIs
<1>12. \A n \in t : Node(n) \in Visible(manifest)' \/ <<s, n>> \in dirty'
  BY <1>8, <1>9, <1>11
<1>13. Validate(s, t) /\ dirty \subseteq dirty'
  BY <1>1, <1>2, <1>7
<1> QED
  BY <1>3, <1>4, <1>10, <1>12, <1>13, ValidateStep

LEMMA AdoptStep ==
  ASSUME Inv, AdoptLedger
  PROVE  Inv'
<1>0. Typed /\ Present /\ Queued
  BY DEF Inv
<1>1. PICK t \in Trees, s \in (height + 1)..MaxSeq :
        /\ Validate(s, t)
        /\ Put({Node(n) : n \in t} \ Visible(manifest))
        /\ UNCHANGED dirty
  BY DEF AdoptLedger
<1>2. s \in Nat /\ s > height /\ s <= MaxSeq
  BY <1>0, HistoryTyped, Sizes, SMTT(30)
<1>3. UNCHANGED <<tips, manifest, manifests>>
  BY <1>1 DEF Validate
<1>4. /\ Kept
      /\ gens'[manifest.writable] = gens[manifest.writable] \cup ({Node(n) : n \in t} \ Visible(manifest))
  BY <1>0, <1>1, <1>3, PutIs
<1>5. Visible(manifest) \subseteq Visible(manifest)'
  BY <1>0, <1>4, KeptIs
<1>6. gens'[manifest.writable] \subseteq Visible(manifest)'
  BY <1>3 DEF Visible
<1>7. \A n \in t : Node(n) \in Visible(manifest)'
  BY <1>4, <1>5, <1>6
<1> QED
  BY <1>1, <1>2, <1>4, <1>7, ValidateStep

-----------------------------------------------------------------------------
(* The rotator: the boundaries *)

\* Replacing the file never takes its sequences back, and what a crash may bring
\* back is the file as it was.
LEMMA UpdateIs ==
  ASSUME Typed, NEW l \in Nat, NEW n \in Nat, NEW o \in Outcomes, Update(l, n, o)
  PROVE  /\ file' \in Advice /\ files' \subseteq Advice
         /\ file'.last >= file.last /\ file'.min >= file.min
         /\ file'.last = file.last \/ file'.last = l
         /\ file'.min = file.min \/ (file'.min = n /\ file'.last >= l)
         /\ \A f \in files' : f = file \/ f \in files
         /\ o # "fail" => file'.last >= l /\ file'.min >= n
         /\ o = "ok" => files' = {}
<1> DEFINE a == Max({file.last, l})
           b == Max({file.min, n})
           next == [last |-> a, min |-> b]
<1>1. file.last \in Nat /\ file.min \in Nat
  BY NumbersTyped
<1>2. /\ a \in Nat /\ a >= file.last /\ a >= l /\ (a = file.last \/ a = l)
      /\ b \in Nat /\ b >= file.min /\ b >= n /\ (b = file.min \/ b = n)
  BY <1>1, MaxPair
<1>3. /\ file' = IF o = "fail" THEN file ELSE next
      /\ files' = CASE o = "ok" -> {} [] o = "unsynced" -> files \cup {file} [] o = "fail" -> files
  BY DEF Update
<1>4. o = "ok" \/ o = "unsynced" \/ o = "fail"
  BY BoundsAssumption
<1>5. file \in Advice /\ files \subseteq Advice
  BY DEF Typed
<1> HIDE DEF a, b
<1>6. next \in Advice /\ next.last = a /\ next.min = b
  BY <1>2 DEF Advice
<1> HIDE DEF next
<1>7. files' \subseteq Advice /\ (\A f \in files' : f = file \/ f \in files) /\ (o = "ok" => files' = {})
  BY <1>3, <1>4, <1>5
<1>8. CASE o = "fail"
  BY <1>1, <1>3, <1>5, <1>7, <1>8, SMTT(30)
<1>9. CASE o # "fail"
  BY <1>1, <1>2, <1>3, <1>6, <1>7, <1>9
<1> QED
  BY <1>8, <1>9

\* The floor stays between the manifest and the file.
LEMMA UpdateNumbers ==
  ASSUME Typed, Numbers, NEW l \in Nat, NEW n \in Nat, NEW o \in Outcomes, Update(l, n, o),
         n <= l + 1 \/ n <= file.last + 1
  PROVE  /\ \A f \in {file'} \cup files' : f.min <= f.last + 1
         /\ floor <= file'.min /\ (manifest.last <= file.last => manifest.last <= file'.last)
         /\ \A f \in {file'} \cup files', m \in Manifests : f.min = 0 /\ m.min = 0 => 1 \in rows
<1>1. /\ file' \in Advice
      /\ file'.last >= file.last /\ file'.min >= file.min
      /\ file'.last = file.last \/ file'.last = l
      /\ file'.min = file.min \/ (file'.min = n /\ file'.last >= l)
      /\ \A f \in files' : f = file \/ f \in files
  BY UpdateIs
<1>2. file'.last \in Nat /\ file'.min \in Nat
  BY <1>1 DEF Advice
<1>3. /\ file.last \in Nat /\ file.min \in Nat /\ floor \in Nat /\ manifest.last \in Nat
  BY NumbersTyped
<1>4. file.min <= file.last + 1 /\ floor <= file.min
  BY DEF Numbers
<1>5. file'.min <= file'.last + 1
  BY <1>1, <1>2, <1>3, <1>4, SMTT(30)
<1>6. floor <= file'.min /\ (manifest.last <= file.last => manifest.last <= file'.last)
  BY <1>1, <1>2, <1>3, <1>4, SMTT(30)
<1>7. file'.min = 0 => file.min = 0
  BY <1>1, <1>2, <1>3, SMTT(30)
<1>8. \A f \in {file'} \cup files' : f.min <= f.last + 1
  BY <1>1, <1>5 DEF Numbers
<1>9. \A f \in {file'} \cup files', m \in Manifests : f.min = 0 /\ m.min = 0 => 1 \in rows
  BY <1>1, <1>7 DEF Numbers
<1> QED
  BY <1>6, <1>8, <1>9

\* Steps of the rotator that leave the service and the store alone.
Quiet ==
  UNCHANGED <<height, tree, validated, history, dirty, queue, step, gens, tips, manifest, manifests>>

LEMMA QuietIs ==
  ASSUME Quiet
  PROVE  Owned' = Owned /\ (Settled' <=> Settled) /\ \A x : InQueue(x)' <=> InQueue(x)
<1>1. Owned' = Owned
  BY DEF Quiet, Owned, InQueue
<1>2. TipOf(manifest)' = TipOf(manifest)
  BY DEF Quiet, TipOf
<1> QED
  BY <1>1, <1>2 DEF Quiet, Settled, InQueue

LEMMA QuietStep ==
  ASSUME Inv, Quiet, rot.pc # "flush", notify' = notify \/ notify' = 0,
         rot'.pc # "idle" => rot.pc # "idle" \/ notify # 0, rot'.pc # "retire",
         Typed', Numbers', Pending', Retaining'
  PROVE  Inv'
<1>0. Typed /\ Present /\ Queued /\ TipsPast /\ Stored /\ TipComplete /\ LiveComplete
  BY DEF Inv
<1>1. Kept
  BY <1>0, SameKept DEF Quiet, store
<1>2. Present'
  BY <1>0, <1>1, KeptPresent
<1>3. Queued'
  <2>1. Running'
    BY <1>0 DEF Quiet, Queued, Running
  <2>2. Jobs' /\ Cleaning'
    BY <1>0 DEF Quiet, Queued, Jobs, Cleaning
  <2>3. Barrier'
    BY <1>0 DEF Quiet, Queued, Barrier
  <2> QED
    BY <2>1, <2>2, <2>3 DEF Queued
<1>4. TipsPast' /\ Stored'
  BY <1>0 DEF Quiet, TipsPast, Stored, Visible
<1>5. TipComplete' /\ LiveComplete'
  <2>1. Owned' = Owned
    BY QuietIs
  <2>2. \A x \in Owned' : x \in Owned
    BY <2>1
  <2>3. TipComplete'
    BY <1>0, <1>1, <2>2, SameTipComplete DEF Quiet
  <2>4. LiveComplete'
    BY <1>0, <2>1 DEF Quiet, LiveComplete, Visible
  <2> QED
    BY <2>3, <2>4
<1> QED
  BY <1>2, <1>3, <1>4, <1>5 DEF Inv

\* A rotation that ends, or does not start, keeps the invariant.
LEMMA ReturnStep ==
  ASSUME Inv, Quiet, rot.pc # "flush", notify' = notify \/ notify' = 0, rot' = Idle,
         Typed', Numbers'
  PROVE  Inv'
<1>1. rot'.pc = "idle"
  BY DEF Idle
<1>2. Pending'
  BY <1>1, QuietIs DEF Quiet, Pending, Inv
<1>3. Retaining'
  BY <1>1 DEF Retaining
<1> QED
  BY <1>1, <1>2, <1>3, QuietStep

\* The rotator takes a notification and brings the file up to the manifest.
LEMMA ReconcileStep ==
  ASSUME Inv, Reconcile
  PROVE  Inv'
<1> USE DEF Inv
<1> DEFINE start == [Idle EXCEPT !.pc = "check", !.target = notify]
<1>1. /\ rot.pc = "idle" /\ notify # 0 /\ notify' = 0
      /\ Quiet /\ UNCHANGED <<height, tree, validated, history, dirty, queue, step, rows,
                     gens, tips, manifest, manifests, crashes>>
  BY DEF Quiet, Reconcile, chain, service, store
<1>2. /\ start \in Rotations /\ start.pc = "check" /\ start.target = notify
      /\ start.pass = 0 /\ start.preserved = {} /\ start.boundary = 0
  BY NumbersTyped DEF Idle, Rotations, Steps
<1>3. Idle \in Rotations /\ Idle.pc = "idle" /\ Idle.target = 0
  BY DEF Idle, Rotations, Steps
<1>4. /\ file.last \in Nat /\ file.min \in Nat /\ manifest.last \in Nat /\ manifest.min \in Nat
      /\ floor \in Nat /\ notify \in Nat /\ validated \in Nat
  BY NumbersTyped
<1>5. Manifests' = Manifests /\ manifest \in Manifests
  BY <1>1 DEF Manifests
<1>6. /\ file' \in Advice /\ files' \subseteq Advice /\ floor' \in Nat
      /\ \A f \in {file'} \cup files' : f.min <= f.last + 1
      /\ \A f \in {file'} \cup files', m \in Manifests : f.min = 0 /\ m.min = 0 => 1 \in rows
      /\ manifest.min <= floor' /\ floor' <= file'.min
      /\ (rot' = start /\ manifest.last <= file'.last) \/ rot' = Idle
  <2>1. CASE ~ (manifest.last > file.last \/ manifest.min > file.min)
    <3>1. rot' = start /\ UNCHANGED <<file, files, floor>>
      BY <2>1 DEF Reconcile, advice
    <3>2. manifest.last <= file.last
      BY <1>4, <2>1, SMTT(30)
    <3> HIDE DEF start
    <3> QED
      BY <1>4, <3>1, <3>2 DEF Numbers, Typed
  <2>2. CASE manifest.last > file.last \/ manifest.min > file.min
    <3>1. PICK o \in Outcomes :
            /\ Update(manifest.last, manifest.min, o)
            /\ floor' = IF o = "ok" THEN file'.min ELSE floor
            /\ rot' = IF o = "ok" THEN start ELSE Idle
      BY <2>2 DEF Reconcile
    <3> HIDE DEF start
    <3>2. manifest.min <= manifest.last + 1 /\ manifest.min <= floor
      BY <1>5 DEF Numbers
    <3>3. /\ \A f \in {file'} \cup files' : f.min <= f.last + 1
          /\ floor <= file'.min
          /\ \A f \in {file'} \cup files', m \in Manifests : f.min = 0 /\ m.min = 0 => 1 \in rows
      BY <1>4, <3>1, <3>2, UpdateNumbers
    <3>4. /\ file' \in Advice /\ files' \subseteq Advice
          /\ o = "ok" => file'.last >= manifest.last /\ file'.min >= manifest.min
      BY <1>4, <3>1, UpdateIs
    <3>5. file'.last \in Nat /\ file'.min \in Nat
      BY <3>4 DEF Advice
    <3>6. CASE o = "ok"
      BY <1>4, <3>1, <3>3, <3>4, <3>5, <3>6, SMTT(30)
    <3>7. CASE o # "ok"
      BY <1>4, <3>1, <3>2, <3>3, <3>4, <3>7
    <3> QED
      BY <3>6, <3>7
  <2> QED
    BY <2>1, <2>2
<1> HIDE DEF start
<1>7. rot' \in Rotations /\ (rot'.pc = "check" \/ rot'.pc = "idle")
  BY <1>2, <1>3, <1>6
<1>8. Typed'
  BY <1>1, <1>6, <1>7 DEF Typed
<1>9. rot'.target <= validated'
  BY <1>1, <1>2, <1>3, <1>4, <1>6, SMTT(30) DEF Numbers
<1>10. Numbers'
  <2>1. rot'.pc = "check" => manifest.last <= file'.last
    BY <1>3, <1>6
  <2>2. notify' <= validated'
    BY <1>1, <1>4, SMTT(30)
  <2> QED
    BY <1>1, <1>5, <1>6, <1>7, <1>9, <2>1, <2>2 DEF Numbers
<1>11. CASE rot' = Idle
  BY <1>1, <1>8, <1>10, <1>11, ReturnStep
<1>12. CASE rot' = start
  <2>1. Settled => Settled'
    BY <1>1, QuietIs
  <2>2. InQueue(rot.target)' = InQueue(notify)
    BY <1>1, <1>2, <1>12 DEF InQueue
  <2>3. Pending'
    BY <1>1, <1>2, <1>12, <2>1, <2>2 DEF Pending
  <2>4. Retaining'
    BY <1>2, <1>12 DEF Retaining
  <2>5. rot.pc # "flush" /\ rot'.pc # "retire"
    BY <1>1, <1>7
  <2> QED
    BY <1>1, <1>8, <1>10, <2>3, <2>4, <2>5, QuietStep
<1> QED
  BY <1>6, <1>11, <1>12

\* A rotation starts when the target is an interval past the boundary.
LEMMA CheckStep ==
  ASSUME Inv, Check
  PROVE  Inv'
<1> USE DEF Inv
<1>1. /\ rot.pc = "check"
      /\ Quiet /\ UNCHANGED <<height, tree, validated, history, dirty, queue, step, rows,
                     gens, tips, manifest, manifests, notify, crashes>>
  BY DEF Quiet, Check, chain, service, store
<1>2. Manifests' = Manifests
  BY <1>1 DEF Manifests
<1>3. Idle \in Rotations /\ Idle.pc = "idle" /\ Idle.target = 0
  BY DEF Idle, Rotations, Steps
<1>4. /\ file.last \in Nat /\ validated \in Nat /\ rot.target \in Nat /\ rot \in Rotations
  BY NumbersTyped DEF Typed
<1>5. ASSUME file.last = 0, NEW o \in Outcomes, Update(rot.target, 0, o), rot' = Idle, UNCHANGED floor
      PROVE  Inv'
  <2>1. /\ file' \in Advice /\ files' \subseteq Advice
    BY <1>4, <1>5, UpdateIs
  <2>2. 0 <= rot.target + 1
    BY <1>4, SMTT(30)
  <2>3. /\ \A f \in {file'} \cup files' : f.min <= f.last + 1
        /\ floor <= file'.min
        /\ \A f \in {file'} \cup files', m \in Manifests : f.min = 0 /\ m.min = 0 => 1 \in rows
    BY <1>4, <1>5, <2>2, UpdateNumbers
  <2>4. Typed'
    BY <1>1, <1>3, <1>5, <2>1 DEF Typed
  <2>5. Numbers'
    BY <1>1, <1>2, <1>3, <1>4, <1>5, <2>3, SMTT(30) DEF Numbers
  <2> QED
    BY <1>1, <1>5, <2>4, <2>5, ReturnStep
<1>6. ASSUME rot' = Idle, UNCHANGED <<file, files, floor>>
      PROVE  Inv'
  <2>1. Typed'
    BY <1>1, <1>3, <1>6 DEF Typed
  <2>2. Numbers'
    BY <1>1, <1>2, <1>3, <1>4, <1>6, SMTT(30) DEF Numbers
  <2> QED
    BY <1>1, <1>6, <2>1, <2>2, ReturnStep
<1>7. ASSUME rot.target >= file.last + Interval, UNCHANGED <<file, files, floor>>,
             rot' = [rot EXCEPT !.pc = "floor", !.boundary = file.last]
      PROVE  Inv'
  <2>1. /\ rot' \in Rotations /\ rot'.pc = "floor" /\ rot'.boundary = file.last
        /\ rot'.target = rot.target /\ rot'.pass = rot.pass /\ rot'.preserved = rot.preserved
    BY <1>4, <1>7 DEF Rotations, Steps
  <2>2. Typed'
    BY <1>1, <1>7, <2>1 DEF Typed
  <2>3. Numbers'
    <3>1. file.last + Interval <= rot.target
      BY <1>4, <1>7, NumbersTyped
    <3> QED
      BY <1>1, <1>2, <1>7, <2>1, <3>1 DEF Numbers
  <2>4. Settled => Settled'
    BY <1>1, QuietIs
  <2>5. InQueue(rot.target)' = InQueue(rot.target) /\ InQueue(notify)' = InQueue(notify)
    BY <1>1, <2>1 DEF InQueue
  <2>6. Pending'
    BY <1>1, <2>1, <2>4, <2>5 DEF Pending
  <2>7. Retaining'
    BY <1>1, <2>1 DEF Retaining
  <2>8. rot.pc # "flush" /\ rot'.pc # "retire" /\ rot.pc # "idle"
    BY <1>1, <2>1
  <2> QED
    BY <1>1, <2>2, <2>3, <2>6, <2>7, <2>8, QuietStep
<1> QED
  BY <1>5, <1>6, <1>7 DEF Check, Return, advice

\* The rotation is recorded in the file.
LEMMA RecordStep ==
  ASSUME Inv, RecordRotation
  PROVE  Inv'
<1> USE DEF Inv
<1>1. /\ rot.pc = "record"
      /\ Quiet /\ UNCHANGED <<height, tree, validated, history, dirty, queue, step, rows,
                     gens, tips, manifest, manifests, floor, notify, crashes>>
  BY DEF Quiet, RecordRotation, chain, service, store
<1>2. PICK o \in Outcomes : Update(rot.target, floor, o) /\ IF o = "ok" THEN Goto("rows") ELSE Return
  BY DEF RecordRotation
<1>3. Manifests' = Manifests
  BY <1>1 DEF Manifests
<1>4. /\ file.last \in Nat /\ file.min \in Nat /\ floor \in Nat /\ rot.target \in Nat /\ validated \in Nat
      /\ rot.boundary \in Nat /\ rot \in Rotations
  BY NumbersTyped DEF Typed
<1>5. floor <= file.last + 1 /\ rot.boundary < floor
  <2>1. floor <= file.min /\ file.min <= file.last + 1 /\ rot.boundary < floor
    BY <1>1 DEF Numbers
  <2> QED
    BY <1>4, <2>1, SMTT(30)
<1>6. /\ \A f \in {file'} \cup files' : f.min <= f.last + 1
      /\ floor <= file'.min
      /\ \A f \in {file'} \cup files', m \in Manifests : f.min = 0 /\ m.min = 0 => 1 \in rows
  BY <1>2, <1>4, <1>5, UpdateNumbers
<1>7. /\ file' \in Advice /\ files' \subseteq Advice
      /\ o = "ok" => files' = {}
  BY <1>2, <1>4, UpdateIs
<1>8. CASE o # "ok"
  <2>1. rot' = Idle
    BY <1>2, <1>8 DEF Return
  <2>2. Idle \in Rotations /\ Idle.pc = "idle" /\ Idle.target = 0
    BY DEF Idle, Rotations, Steps
  <2>3. Typed'
    BY <1>1, <1>7, <2>1, <2>2 DEF Typed
  <2>4. Numbers'
    BY <1>1, <1>3, <1>4, <1>6, <2>1, <2>2, SMTT(30) DEF Numbers
  <2> QED
    BY <1>1, <2>1, <2>3, <2>4, ReturnStep
<1>9. CASE o = "ok"
  <2>1. /\ rot' \in Rotations /\ rot'.pc = "rows" /\ rot'.boundary = rot.boundary /\ rot'.target = rot.target
    BY <1>2, <1>4, <1>9 DEF Goto, Rotations, Steps
  <2>2. Typed'
    BY <1>1, <1>7, <2>1 DEF Typed
  <2>3. Numbers'
    <3>1. rot'.boundary < file'.min /\ files' = {}
      <4>1. file'.min \in Nat
        BY <1>7 DEF Advice
      <4> QED
        BY <1>4, <1>5, <1>6, <1>7, <1>9, <2>1, <4>1, SMTT(30)
    <3> QED
      BY <1>1, <1>3, <1>6, <2>1, <3>1 DEF Numbers
  <2>4. Settled => Settled'
    BY <1>1, QuietIs
  <2>5. Pending'
    <3>1. InQueue(notify)' = InQueue(notify)
      BY <1>1 DEF InQueue
    <3> QED
      BY <1>1, <2>1, <2>4, <3>1 DEF Pending
  <2>6. Retaining'
    BY <2>1 DEF Retaining
  <2>7. rot.pc # "flush" /\ rot'.pc # "retire" /\ rot.pc # "idle"
    BY <1>1, <2>1
  <2> QED
    BY <1>1, <2>2, <2>3, <2>5, <2>6, <2>7, QuietStep
<1> QED
  BY <1>8, <1>9

\* The first row goes only when the file has a floor.
LEMMA RowsStep ==
  ASSUME Inv, DeleteRelational
  PROVE  Inv'
<1> USE DEF Inv
<1>1. /\ rot.pc = "rows" /\ rot' = Idle
      /\ Quiet /\ UNCHANGED <<height, tree, validated, history, dirty, queue, step,
                     gens, tips, manifest, manifests, file, files, floor, notify, crashes>>
  BY DEF Quiet, DeleteRelational, Return, chain, store, advice
<1>2. rows' \subseteq rows
  BY DEF DeleteRelational
<1>3. Idle \in Rotations /\ Idle.pc = "idle" /\ Idle.target = 0
  BY DEF Idle, Rotations, Steps
<1>4. Manifests' = Manifests
  BY <1>1 DEF Manifests
<1>5. Typed'
  BY <1>1, <1>2, <1>3 DEF Typed
<1>6. \A f \in {file'} \cup files' : f.min # 0
  <2>1. files = {} /\ rot.boundary < file.min
    BY <1>1 DEF Numbers
  <2>2. rot.boundary \in Nat /\ file.min \in Nat
    BY NumbersTyped
  <2> QED
    BY <1>1, <2>1, <2>2, SMTT(30)
<1>7. Numbers'
  <2>1. validated \in Nat
    BY NumbersTyped
  <2> QED
    BY <1>1, <1>3, <1>4, <1>6, <2>1, SMTT(30) DEF Numbers
<1> QED
  BY <1>1, <1>5, <1>7, ReturnStep

\* A barrier goes behind the queued ledgers.
LEMMA BarrierQueued ==
  ASSUME Typed, Queued, rot.pc = "floor", rot'.pc = "flush", queue' = Append(queue, 0),
         UNCHANGED <<validated, history, step, notify>>
  PROVE  /\ Queued' /\ queue' \in Seq(Int) /\ Owned' = Owned
         /\ \A i \in DOMAIN queue : i \in DOMAIN queue' /\ queue'[i] = queue[i]
         /\ \A i \in DOMAIN queue' : queue'[i] \in Int /\ (queue'[i] # 0 => i \in DOMAIN queue)
<1> DEFINE n == Len(queue) + 1
<1>1. /\ queue' # << >> /\ Len(queue) \in Nat /\ queue' \in Seq(Int)
      /\ DOMAIN queue = 1..Len(queue) /\ DOMAIN queue' = 1..n
      /\ \A i \in DOMAIN queue : i \in DOMAIN queue' /\ queue'[i] = queue[i]
      /\ queue'[n] = 0
  BY AppendIs, SMTT(30) DEF Typed
<1>2. /\ \A i \in DOMAIN queue' : (i \in DOMAIN queue \/ i = n) /\ ~ (i > n) /\ i \in Nat /\ queue'[i] \in Int
      /\ \A i \in DOMAIN queue : i \in Nat /\ queue[i] \in Int
  BY <1>1, QueueTyped, SMTT(30)
<1> HIDE DEF n
<1>3. \A i \in DOMAIN queue : queue[i] # 0
  BY DEF Queued, Barrier
<1>4. ~(0 > 0) /\ ~(0 < 0)
  BY SMTT(30)
<1>5. \A i \in DOMAIN queue' : queue'[i] > 0 \/ queue'[i] < 0 => i \in DOMAIN queue
  BY <1>1, <1>2, <1>4
<1>6. Running'
  <2>1. rot.pc # "idle"
    OBVIOUS
  <2>2. queue # << >> => 1 \in DOMAIN queue
    BY QueueTyped
  <2> QED
    BY <1>1, <2>1, <2>2 DEF Queued, Running
<1>7. Jobs'
  <2>1. \A i \in DOMAIN queue' : queue'[i] > 0 => queue'[i] <= validated
    BY <1>1, <1>5 DEF Queued, Jobs
  <2>2. \A i \in DOMAIN queue', h \in history : queue'[i] > 0 /\ h <= queue'[i] => queue'[i] \in history
    BY <1>1, <1>5 DEF Queued, Jobs
  <2>3. \A i, j \in DOMAIN queue' : i < j /\ queue'[i] > 0 /\ queue'[j] > 0 => queue'[i] < queue'[j]
    BY <1>1, <1>5 DEF Queued, Jobs
  <2> QED
    BY <2>1, <2>2, <2>3 DEF Jobs
<1>8. Cleaning'
  <2> SUFFICES ASSUME NEW i \in DOMAIN queue', queue'[i] < 0
               PROVE  /\ -queue'[i] <= validated /\ -queue'[i] \notin history
                      /\ \A j \in DOMAIN queue' : j > i => queue'[j] # -queue'[i]
    BY DEF Cleaning
  <2>1. i \in DOMAIN queue /\ queue'[i] = queue[i] /\ queue[i] \in Int
    BY <1>1, <1>2, <1>5
  <2>2. /\ -queue[i] <= validated /\ -queue[i] \notin history
        /\ \A j \in DOMAIN queue : j > i => queue[j] # -queue[i]
    BY <2>1 DEF Queued, Cleaning
  <2>3. 0 # -queue[i]
    BY <2>1, SMTT(30)
  <2> QED
    BY <1>1, <1>2, <2>1, <2>2, <2>3
<1>9. Barrier'
  <2> SUFFICES ASSUME NEW i \in DOMAIN queue', queue'[i] = 0
               PROVE  \A j \in DOMAIN queue' : (queue'[j] = 0 => i = j) /\ (j > i /\ queue'[j] > 0 => queue'[j] > rot'.target)
    BY DEF Barrier
  <2>1. \A j \in DOMAIN queue' : queue'[j] = 0 => j = n
    BY <1>1, <1>2, <1>3
  <2> QED
    BY <1>2, <2>1
<1>10. Owned' = Owned
  <2>1. \A x \in 1..MaxSeq : InQueue(x)' <=> InQueue(x)
    <3>1. \A x \in 1..MaxSeq : x # 0
      BY Sizes, SMTT(30)
    <3> QED
      BY <1>1, <1>2, <3>1 DEF InQueue
  <2> QED
    BY <2>1 DEF Owned
<1> QED
  BY <1>1, <1>2, <1>6, <1>7, <1>8, <1>9, <1>10 DEF Queued

\* The floor is advanced before anything is deleted.
LEMMA FloorStep ==
  ASSUME Inv, SetFloor
  PROVE  Inv'
<1> USE DEF Inv
<1> DEFINE min == Max({floor, rot.boundary + 1})
<1>1. /\ rot.pc = "floor"
      /\ UNCHANGED <<height, tree, validated, history, dirty, step, rows,
                     gens, tips, manifest, manifests, notify, crashes>>
  BY DEF SetFloor, chain, store
<1>2. PICK o \in Outcomes :
         /\ Update(0, min, o)
         /\ floor' = IF o = "ok" THEN min ELSE floor
         /\ IF o = "ok" THEN Flush ELSE Return /\ UNCHANGED queue
  BY DEF SetFloor
<1>3. Manifests' = Manifests /\ manifest \in Manifests
  BY <1>1 DEF Manifests
<1>4. /\ file.last \in Nat /\ file.min \in Nat /\ manifest.last \in Nat /\ manifest.min \in Nat
      /\ floor \in Nat /\ validated \in Nat /\ rot.target \in Nat /\ rot.boundary \in Nat /\ rot \in Rotations
  BY NumbersTyped DEF Typed
<1>5. /\ manifest.min <= floor /\ floor <= file.min /\ file.min <= file.last + 1
      /\ rot.boundary = file.last /\ manifest.last <= file.last
  BY <1>1 DEF Numbers
<1>6. min \in Nat /\ min >= floor /\ min >= rot.boundary + 1 /\ (min = floor \/ min = rot.boundary + 1)
  BY <1>4, MaxPair, SMTT(30)
<1> HIDE DEF min
<1>7. min <= file.last + 1
  BY <1>4, <1>5, <1>6, SMTT(30)
<1>8. /\ \A f \in {file'} \cup files' : f.min <= f.last + 1
      /\ floor <= file'.min /\ manifest.last <= file'.last
      /\ \A f \in {file'} \cup files', m \in Manifests : f.min = 0 /\ m.min = 0 => 1 \in rows
  BY <1>2, <1>5, <1>6, <1>7, UpdateNumbers
<1>9. /\ file' \in Advice /\ files' \subseteq Advice
      /\ file'.last >= file.last /\ (file'.last = file.last \/ file'.last = 0)
      /\ o # "fail" => file'.min >= min
  BY <1>2, <1>6, UpdateIs
<1>10. file'.last \in Nat /\ file'.min \in Nat
  BY <1>9 DEF Advice
<1>11. file'.last = file.last
  BY <1>4, <1>9, <1>10, SMTT(30)
<1>12. Kept
  BY <1>1, SameKept DEF store
<1>13. CASE o # "ok"
  <2>1. rot' = Idle /\ queue' = queue /\ floor' = floor
    BY <1>2, <1>13 DEF Return
  <2>2. Idle \in Rotations /\ Idle.pc = "idle" /\ Idle.target = 0
    BY DEF Idle, Rotations, Steps
  <2>3. Typed'
    BY <1>1, <1>9, <2>1, <2>2 DEF Typed
  <2>4. Numbers'
    BY <1>1, <1>3, <1>4, <1>5, <1>8, <2>1, <2>2, SMTT(30) DEF Numbers
  <2>5. Quiet
    BY <1>1, <2>1 DEF Quiet
  <2> QED
    BY <1>1, <2>1, <2>3, <2>4, <2>5, ReturnStep
<1>14. CASE o = "ok"
  <2>1. floor' = min /\ queue' = Append(queue, 0) /\ rot' = [rot EXCEPT !.pc = "flush"]
    BY <1>2, <1>14 DEF Flush, Goto
  <2>2. /\ rot' \in Rotations /\ rot'.pc = "flush" /\ rot'.boundary = rot.boundary
        /\ rot'.target = rot.target /\ rot'.pass = rot.pass /\ rot'.preserved = rot.preserved
    BY <1>4, <2>1 DEF Rotations, Steps
  <2>3. /\ queue' \in Seq(Int) /\ Len(queue) \in Nat /\ DOMAIN queue = 1..Len(queue)
        /\ DOMAIN queue' = 1..(Len(queue) + 1)
        /\ \A i \in DOMAIN queue : i \in DOMAIN queue' /\ queue'[i] = queue[i]
        /\ queue'[Len(queue) + 1] = 0
    BY <2>1, AppendIs, SMTT(30) DEF Typed
  <2>4. Typed'
    BY <1>1, <1>6, <1>9, <2>1, <2>2, <2>3 DEF Typed
  <2>5. Numbers'
    <3>1. min <= file'.min
      BY <1>9, <1>14
    <3>2. rot.boundary < min /\ manifest.min <= min
      BY <1>4, <1>5, <1>6, SMTT(30)
    <3>3. rot.boundary + Interval <= rot.target /\ rot.target <= validated /\ notify <= validated
      BY <1>1 DEF Numbers
    <3>4. /\ rot'.boundary = file'.last /\ rot'.boundary + Interval <= rot'.target
          /\ rot'.target <= validated' /\ notify' <= validated' /\ rot'.boundary < floor'
          /\ manifest'.min <= floor' /\ floor' <= file'.min /\ manifest'.last <= file'.last
      BY <1>1, <1>5, <1>8, <1>11, <2>1, <2>2, <3>1, <3>2, <3>3
    <3>5. \A m \in Manifests' : m.min <= m.last + 1
      BY <1>3 DEF Numbers
    <3> QED
      BY <1>1, <1>3, <1>8, <2>2, <3>4, <3>5 DEF Numbers
  <2>6. /\ Queued' /\ Owned' = Owned
        /\ \A i \in DOMAIN queue' : queue'[i] \in Int /\ (queue'[i] # 0 => i \in DOMAIN queue)
    BY <1>1, <2>1, <2>2, BarrierQueued
  <2>7. Settled => Settled'
    BY <1>1, <2>6, SettledFrame
  <2>8. Pending'
    <3>1. (InQueue(rot.target) => InQueue(rot.target)') /\ (InQueue(notify) => InQueue(notify)')
      BY <1>1, <2>2, <2>3 DEF InQueue
    <3>2. step = 4 => queue'[1] = queue[1]
      <4>1. step = 4 => step # 0
        BY SMTT(30)
      <4> QED
        BY <2>3, <4>1, QueueTyped DEF Queued, Running
    <3> QED
      BY <1>1, <2>2, <2>7, <3>1, <3>2 DEF Pending
  <2>9. Retaining'
    BY <1>1, <2>2 DEF Retaining
  <2>10. Present'
    BY <1>12, <2>2, KeptPresent
  <2>11. TipsPast'
    <3>1. ~(0 > 0) /\ height \in Nat /\ height >= height
      BY HistoryTyped, SMTT(30)
    <3>2. DOMAIN gens' = DOMAIN gens
      BY <1>1
    <3> QED
      BY <1>1, <2>3, <2>6, <3>1, <3>2, PastFrame
  <2>12. Visible(manifest) \subseteq Visible(manifest)'
    BY <1>12, KeptIs
  <2>13. Stored'
    <3>1. step \in {2, 3, 4} => step # 0
      BY SMTT(30)
    <3>2. step \in {2, 3, 4} => queue'[1] = queue[1]
      BY <2>3, <3>1, QueueTyped DEF Queued, Running
    <3> QED
      BY <1>1, <2>12, <3>2, StoredFrame
  <2>14. TipComplete'
    BY <1>1, <1>12, <2>6, SameTipComplete
  <2>15. LiveComplete'
    <3>1. \A x \in Owned' : x \in Owned /\ tree'[x] = tree[x]
      BY <1>1, <2>6
    <3> QED
      BY <1>1, <2>12, <3>1, LiveFrame
  <2> QED
    BY <2>4, <2>5, <2>6, <2>8, <2>9, <2>10, <2>11, <2>13, <2>14, <2>15
<1> QED
  BY <1>13, <1>14

-----------------------------------------------------------------------------
(* The rotator: state retention *)

\* Steps of the retention, which store nodes and headers.
LEMMA RetainStep ==
  ASSUME Inv, Kept, rot.pc \in {"collect", "preserve"}, rot'.pc \in {"collect", "preserve", "prepared"},
         UNCHANGED <<height, tree, validated, history, queue, step, rows, tips,
                     file, files, floor, notify, crashes>>,
         dirty' \subseteq dirty,
         \A x : \A n : <<x, n>> \in dirty => <<x, n>> \in dirty' \/ Node(n) \in Visible(manifest)',
         rot' \in Rotations, rot'.boundary = rot.boundary,
         rot'.target >= rot.target, rot'.target <= validated,
         \A s \in rot'.preserved : s <= rot'.target /\ Saved(s)',
         rot'.pc = "preserve" => \A s \in rot'.roots : s <= rot'.target /\ Header(s) \in gens'[manifest.writable]
  PROVE  Inv'
<1>0. /\ Typed /\ Present /\ Queued /\ TipsPast /\ Numbers /\ Retaining /\ Stored
      /\ TipComplete /\ LiveComplete
  BY DEF Inv
<1>1. Manifests' = Manifests /\ manifest' = manifest /\ manifests' = manifests /\ DOMAIN gens' = DOMAIN gens
  BY <1>0, KeptIs DEF Kept
<1>2. Owned' = Owned
  BY DEF Owned, InQueue
<1>3. Typed'
  BY <1>0, <1>1 DEF Typed, Kept
<1>4. Present'
  BY <1>0, KeptPresent
<1>5. Queued'
  <2>1. Running' /\ Jobs' /\ Cleaning'
    BY <1>0 DEF Queued, Running, Jobs, Cleaning
  <2>2. Barrier'
    BY <1>0 DEF Queued, Barrier
  <2> QED
    BY <2>1, <2>2 DEF Queued
<1>6. TipsPast'
  BY <1>0, <1>1 DEF TipsPast
<1>7. Numbers'
  <2>1. /\ rot.boundary + Interval <= rot.target /\ rot.boundary \in Nat /\ Interval \in Nat
        /\ rot.target \in Nat /\ rot'.target \in Nat
    BY <1>0, <1>3, NumbersTyped DEF Numbers, Typed, Rotations
  <2>2. rot'.boundary + Interval <= rot'.target
    BY <2>1, SMTT(30)
  <2> QED
    BY <1>0, <1>1, <2>2 DEF Numbers
<1>8. Settled'
  <2>1. Settled
    BY <1>0 DEF Retaining
  <2> QED
    BY <1>0, <1>1, <1>2, <2>1, SettledFrame
<1>9. Pending'
  BY <1>0, <1>1, <1>8 DEF Pending, Inv
<1>10. Retaining'
  BY <1>1, <1>8 DEF Retaining
<1>11. Visible(manifest) \subseteq Visible(manifest)'
  BY <1>0, KeptIs
<1>12. Stored'
  BY <1>0, <1>11, StoredFrame
<1>13. TipComplete'
  BY <1>0, <1>2, SameTipComplete
<1>14. LiveComplete'
  BY <1>0, <1>2, <1>11, LiveFrame
<1> QED
  BY <1>3, <1>4, <1>5, <1>6, <1>7, <1>9, <1>10, <1>12, <1>13, <1>14 DEF Inv

\* What was saved stays saved.
LEMMA SavedKept ==
  ASSUME Typed, Present, Kept, UNCHANGED tree, NEW s, Saved(s)
  PROVE  Saved(s)'
<1>1. gens[manifest.writable] \subseteq gens'[manifest.writable] /\ manifest' = manifest
  BY KeptIs
<1> QED
  BY <1>1 DEF Saved

LEMMA CollectStep ==
  ASSUME Inv, Collect
  PROVE  Inv'
<1>0. Typed /\ Present /\ Queued /\ Numbers /\ Retaining
  BY DEF Inv
<1>1. /\ rot.pc = "collect"
      /\ UNCHANGED <<height, tree, validated, history, queue, step, rows, tips, manifest, manifests,
                     file, files, floor, notify, crashes>>
  BY DEF Collect, chain, advice
<1>2. Owned \in SUBSET Int
  BY <1>0, OwnedIs, SMTT(30)
<1>3. PICK H : H = {Header(s) : s \in Owned}
  OBVIOUS
<1>4. Put({Node(d[2]) : d \in Unstored(Owned)} \cup H) /\ dirty' = dirty \ Unstored(Owned)
  BY <1>3 DEF Collect
<1>5. /\ Kept /\ H \subseteq gens'[manifest.writable]
      /\ \A x : \A n : <<x, n>> \in dirty => <<x, n>> \in dirty' \/ Node(n) \in Visible(manifest)'
      /\ dirty' \subseteq dirty
  BY <1>0, <1>1, <1>2, <1>4, StoreDirty
<1>6. /\ rot.pass \in Nat /\ rot.target \in Nat /\ validated \in Nat /\ rot \in Rotations /\ rot.target <= validated
  BY <1>0, NumbersTyped DEF Typed, Numbers
<1>7. PICK p : p = rot.pass + 1
  OBVIOUS
<1>8. PICK O : O = Owned
  OBVIOUS
<1>9. p \in Nat /\ O \in SUBSET (Nat \ {0})
  <2>1. \A s \in Owned : s \in Nat \ {0}
    BY <1>0, OwnedIs, SMTT(30)
  <2> QED
    BY <1>6, <1>7, <1>8, <2>1, SMTT(30)
<1>10. rot' = [rot EXCEPT !.pc = "preserve", !.target = validated, !.pass = p, !.roots = O]
  BY <1>7, <1>8 DEF Collect
<1>11. /\ rot' \in Rotations /\ rot'.pc = "preserve" /\ rot'.target = validated
       /\ rot'.roots = O /\ rot'.boundary = rot.boundary /\ rot'.preserved = rot.preserved
  BY <1>6, <1>9, <1>10 DEF Rotations, Steps
<1>12. rot'.target >= rot.target /\ rot'.target <= validated
  BY <1>6, <1>11, SMTT(30)
<1>13. \A s \in rot'.preserved : s <= rot'.target /\ Saved(s)'
  <2>1. \A s \in rot.preserved : s <= rot.target /\ Saved(s) /\ s \in Nat
    BY <1>0, <1>1 DEF Retaining, Typed, Rotations
  <2>2. \A s \in rot.preserved : s <= validated
    BY <1>6, <2>1, SMTT(30)
  <2>3. \A s \in rot.preserved : Saved(s)'
    BY <1>0, <1>1, <1>5, <2>1, SavedKept
  <2> QED
    BY <1>11, <2>2, <2>3
<1>14. \A s \in rot'.roots : s <= rot'.target /\ Header(s) \in gens'[manifest.writable]
  <2>1. \A s \in Owned : s <= validated /\ Header(s) \in H
    BY <1>0, <1>3, OwnedIs
  <2> QED
    BY <1>5, <1>8, <1>11, <2>1
<1> QED
  BY <1>1, <1>5, <1>11, <1>12, <1>13, <1>14, RetainStep

LEMMA PreserveStep ==
  ASSUME Inv, Preserve
  PROVE  Inv'
<1>0. Typed /\ Present /\ Queued /\ Numbers /\ Retaining
  BY DEF Inv
<1>1. /\ rot.pc = "preserve"
      /\ UNCHANGED <<height, tree, validated, history, dirty, queue, step, rows, tips, manifest, manifests,
                     file, files, floor, notify, crashes>>
  BY DEF Preserve, chain, service, advice
<1>2. /\ rot.target \in Nat /\ validated \in Nat /\ rot \in Rotations /\ rot.target <= validated
  BY <1>0, NumbersTyped DEF Typed, Numbers
<1>3. ASSUME rot' = Idle, gens' = gens
      PROVE  Inv'
  <2>1. Idle \in Rotations /\ Idle.pc = "idle" /\ Idle.target = 0
    BY DEF Idle, Rotations, Steps
  <2>2. Typed'
    BY <1>0, <1>1, <1>3, <2>1 DEF Typed
  <2>3. Manifests' = Manifests
    BY <1>1 DEF Manifests
  <2>4. Numbers'
    BY <1>0, <1>1, <1>2, <1>3, <2>1, <2>3, SMTT(30) DEF Numbers
  <2>5. Quiet
    BY <1>1, <1>3 DEF Quiet
  <2> QED
    BY <1>1, <1>3, <2>2, <2>4, <2>5, ReturnStep
<1>4. ASSUME CopyTrees, NEW p \in {"prepared", "collect"},
             rot' = [rot EXCEPT !.pc = p, !.preserved = @ \cup rot.roots, !.roots = {}]
      PROVE  Inv'
  <2>1. PICK R : R = UNION {StateNodes(s) : s \in rot.roots}
    OBVIOUS
  <2>2. Put(R)
    BY <1>4, <2>1 DEF CopyTrees
  <2>3. \A s \in rot.roots : \A n \in tree[s] : Node(n) \in R
    <3>1. \A s \in rot.roots : StateNodes(s) \subseteq R
      BY <2>1
    <3>2. \A s : \A n \in tree[s] : Node(n) \in StateNodes(s)
      BY DEF StateNodes
    <3> QED
      BY <3>1, <3>2
  <2>4. Kept /\ gens'[manifest.writable] = gens[manifest.writable] \cup R
    BY <1>0, <1>1, <2>2, PutIs
  <2>5. /\ rot' \in Rotations /\ rot'.pc = p
        /\ rot'.preserved = rot.preserved \cup rot.roots
        /\ rot'.target = rot.target /\ rot'.boundary = rot.boundary
    BY <1>2, <1>4 DEF Rotations, Steps
  <2>6. rot'.target >= rot.target /\ rot'.target <= validated
    BY <1>2, <2>5, SMTT(30)
  <2>7. \A s \in rot.preserved : s <= rot.target /\ Saved(s)'
    BY <1>0, <1>1, <2>4, SavedKept DEF Retaining
  <2>8. \A s \in rot.roots : s <= rot.target /\ Saved(s)'
    BY <1>0, <1>1, <2>3, <2>4 DEF Retaining, Saved
  <2>9. \A s \in rot'.preserved : s <= rot'.target /\ Saved(s)'
    BY <2>5, <2>7, <2>8
  <2>10. rot.pc \in {"collect", "preserve"} /\ rot'.pc \in {"collect", "preserve", "prepared"} /\ rot'.pc # "preserve"
    BY <1>1, <2>5
  <2> QED
    BY <1>1, <2>4, <2>5, <2>6, <2>9, <2>10, RetainStep
<1> QED
  BY <1>3, <1>4 DEF Preserve, Return

-----------------------------------------------------------------------------
(* The rotator: the swap *)

\* The new directory has a number of its own.
LEMMA NewGeneration ==
  ASSUME Maxima, Typed, Present
  PROVE  LET new == Max(DOMAIN gens) + 1
         IN  new \in Nat /\ new \notin DOMAIN gens /\ Bounded(DOMAIN gens \cup {new})
<1> DEFINE D == DOMAIN gens
<1>1. PICK n \in Nat : D \subseteq 0..n
  BY DEF Typed, IsStore, Bounded
<1>2. D # {} /\ D \in SUBSET (0..n)
  BY <1>1 DEF Present, Manifests
<1>3. Max(D) \in D /\ \A y \in D : y <= Max(D)
  BY <1>2 DEF Maxima
<1>4. Max(D) \in Nat /\ Max(D) <= n
  BY <1>1, <1>3, SMTT(30)
<1>5. Max(D) + 1 \in Nat /\ Max(D) + 1 \notin D
  BY <1>3, <1>4, SMTT(30)
<1>6. D \cup {Max(D) + 1} \subseteq 0..(n + 1) /\ n + 1 \in Nat
  BY <1>1, <1>4, SMTT(30)
<1>7. Bounded(D \cup {Max(D) + 1})
  BY <1>6 DEF Bounded
<1> QED
  BY <1>5, <1>7

\* The old manifests read what they read before; the new one finds the tip of the
\* generation that is now its archive.
LEMMA RotateReads ==
  ASSUME Maxima, Typed, Present, NEW o \in Outcomes, Rotate(o)
  PROVE  /\ IsStore(gens', tips') /\ DOMAIN gens' = DOMAIN gens \cup {manifest'.writable}
         /\ manifest'.writable \notin DOMAIN gens /\ manifest'.archive = manifest.writable
         /\ manifest' \in Generations /\ manifest'.last = rot.target /\ manifest'.min = floor
         /\ \A g \in DOMAIN gens : gens'[g] = gens[g] /\ tips'[g] = tips[g]
         /\ tips'[manifest'.writable] = NoTip
         /\ tips[manifest.writable] = NoTip => TipOf(manifest)' = 0
         /\ tips[manifest.writable] # NoTip => TipOf(manifest)' = TipOf(manifest)
         /\ \A m \in Manifests : TipOf(m)' = TipOf(m) /\ Visible(m)' = Visible(m)
<1> DEFINE new == Max(DOMAIN gens) + 1
           w == manifest.writable
<1>1. new \in Nat /\ new \notin DOMAIN gens /\ Bounded(DOMAIN gens \cup {new})
  BY NewGeneration
<1>2. /\ gens' = [g \in DOMAIN gens \cup {new} |-> IF g = new THEN {} ELSE gens[g]]
      /\ tips' = [g \in DOMAIN gens \cup {new} |-> IF g = new THEN NoTip ELSE tips[g]]
      /\ manifest' = [writable |-> new, archive |-> w, last |-> rot.target, min |-> floor]
  BY DEF Rotate
<1> HIDE DEF new
<1>3. /\ DOMAIN gens' = DOMAIN gens \cup {new} /\ tips'[new] = NoTip
      /\ \A g \in DOMAIN gens : gens'[g] = gens[g] /\ tips'[g] = tips[g]
  BY <1>1, <1>2
<1>4. IsStore(gens', tips')
  <2>1. gens' = [g \in DOMAIN gens' |-> gens'[g]]
    BY <1>2
  <2>2. DOMAIN gens' \subseteq Nat
    BY <1>1, <1>3 DEF Typed, IsStore
  <2>3. NoTip \in -1..MaxSeq
    BY Sizes, SMTT(30) DEF NoTip
  <2>4. \A g \in DOMAIN gens : tips[g] \in -1..MaxSeq
    BY DEF Typed, IsStore
  <2>5. tips' \in [DOMAIN gens' -> -1..MaxSeq]
    BY <1>2, <1>3, <2>3, <2>4
  <2> QED
    BY <1>1, <1>3, <2>1, <2>2, <2>5 DEF IsStore
<1>5. /\ manifest'.writable = new /\ manifest'.archive = w
      /\ manifest' \in Generations /\ manifest'.last = rot.target /\ manifest'.min = floor
  <2>1. w \in Nat
    BY DEF Typed, Generations
  <2> QED
    BY <1>1, <1>2, <2>1, NumbersTyped DEF Generations
<1>6. \A m \in Manifests : m.writable \in DOMAIN gens /\ m.archive \in DOMAIN gens
  BY DEF Present
<1>7. \A m \in Manifests : TipOf(m)' = TipOf(m) /\ Visible(m)' = Visible(m)
  <2>1. \A m \in Manifests : /\ gens'[m.writable] = gens[m.writable] /\ gens'[m.archive] = gens[m.archive]
                             /\ tips'[m.writable] = tips[m.writable] /\ tips'[m.archive] = tips[m.archive]
    BY <1>3, <1>6
  <2> QED
    BY <2>1 DEF Visible, TipOf
<1>8. w \in DOMAIN gens
  BY <1>6 DEF Manifests
<1>9. TipOf(manifest)' = IF tips[w] = NoTip THEN 0 ELSE tips[w]
  BY <1>3, <1>5, <1>8 DEF TipOf
<1>10. tips[w] # NoTip => TipOf(manifest) = tips[w]
  BY DEF TipOf
<1> QED
  BY <1>1, <1>3, <1>4, <1>5, <1>7, <1>9, <1>10

\* Every ledger in use is complete in the generation that becomes the archive.
LEMMA RotateComplete ==
  ASSUME Maxima, Inv, rot.pc = "prepared", Admitted, NEW o \in Outcomes, Rotate(o),
         UNCHANGED <<tree, history, queue, dirty>>
  PROVE  /\ TipComplete' /\ LiveComplete'
         /\ \A s \in Owned : Header(s) \in Visible(manifest)'
<1>0. Typed /\ Present /\ Queued /\ Retaining /\ TipComplete
  BY DEF Inv
<1> DEFINE w == manifest.writable
<1>1. \A s \in Owned : Saved(s)
  BY <1>0 DEF Retaining, Admitted
<1>2. /\ DOMAIN gens' = DOMAIN gens \cup {manifest'.writable}
      /\ manifest'.archive = w
      /\ \A g \in DOMAIN gens : gens'[g] = gens[g]
      /\ \A m \in Manifests : TipOf(m)' = TipOf(m) /\ Visible(m)' = Visible(m)
  BY <1>0, RotateReads
<1>3. w \in DOMAIN gens
  BY <1>0 DEF Present, Manifests
<1>4. gens[w] \subseteq Visible(manifest)'
  BY <1>2, <1>3 DEF Visible
<1>5. \A s \in Owned : Header(s) \in Visible(manifest)' /\ \A n \in tree[s] : Node(n) \in Visible(manifest)'
  BY <1>1, <1>4 DEF Saved
<1>6. Owned' = Owned
  BY DEF Owned, InQueue
<1>7. LiveComplete'
  BY <1>5, <1>6 DEF LiveComplete
<1>8. ASSUME NEW m \in Manifests
      PROVE  /\ {m.writable, m.archive} \subseteq DOMAIN gens'
             /\ TipOf(m)' \in Owned' => Complete(m, TipOf(m))'
  <2>1. {m.writable, m.archive} \subseteq DOMAIN gens'
    BY <1>0, <1>2 DEF Present
  <2>2. TipOf(m) \in Owned => Complete(m, TipOf(m))
    BY <1>0 DEF TipComplete
  <2>3. TipOf(m) \in Owned => Header(TipOf(m)) \in Visible(m) /\ \A n \in tree[TipOf(m)] : Node(n) \in Visible(m)
    BY <2>2, CompleteIs
  <2>4. TipOf(m)' \in Owned' => Header(TipOf(m)') \in Visible(m)' /\ \A n \in tree'[TipOf(m)'] : Node(n) \in Visible(m)'
    BY <1>2, <1>6, <2>3
  <2> QED
    BY <2>1, <2>4 DEF Complete, StateNodes
<1>9. ASSUME NEW m \in Manifests', m = manifest'
      PROVE  /\ {m.writable, m.archive} \subseteq DOMAIN gens'
             /\ TipOf(m)' \in Owned' => Complete(m, TipOf(m))'
  <2>1. Visible(m)' = Visible(manifest)'
    BY <1>9 DEF Visible
  <2>2. TipOf(m)' \in Owned' => Header(TipOf(m)') \in Visible(m)' /\ \A n \in tree'[TipOf(m)'] : Node(n) \in Visible(m)'
    BY <1>5, <1>6, <2>1
  <2>3. TipOf(m)' \in Owned' => Complete(m, TipOf(m))'
    BY <2>2 DEF Complete, StateNodes
  <2> QED
    BY <1>2, <1>3, <1>9, <2>3
<1>10. \A m \in Manifests' : m = manifest' \/ m \in Manifests
  BY DEF Manifests, Rotate
<1>11. TipComplete'
  BY <1>8, <1>9, <1>10 DEF TipComplete
<1> QED
  BY <1>5, <1>7, <1>11

\* The swap keeps the invariant: nothing in use depends on the old archive.
LEMMA SwapStep ==
  ASSUME Maxima, Inv, Swap
  PROVE  Inv'
<1> USE DEF Inv
<1> DEFINE w == manifest.writable
<1>1. /\ rot.pc = "prepared"
      /\ UNCHANGED <<height, tree, validated, history, dirty, queue, step, rows,
                     file, files, floor, notify, crashes>>
  BY DEF Swap, chain, service, advice
<1>2. /\ rot \in Rotations /\ rot.target \in Nat /\ rot.boundary \in Nat /\ floor \in Nat /\ notify \in Nat
      /\ validated \in Nat /\ file.last \in Nat /\ file.min \in Nat /\ Interval \in Nat /\ Interval > 0
  BY NumbersTyped DEF Typed
<1>3. ASSUME rot' = Idle, UNCHANGED store
      PROVE  Inv'
  <2>1. Idle \in Rotations /\ Idle.pc = "idle" /\ Idle.target = 0
    BY DEF Idle, Rotations, Steps
  <2>2. Typed'
    BY <1>1, <1>3, <2>1 DEF Typed, store
  <2>3. Manifests' = Manifests /\ manifest' = manifest
    BY <1>3 DEF Manifests, store
  <2>4. Numbers'
    BY <1>1, <1>2, <1>3, <2>1, <2>3, SMTT(30) DEF Numbers
  <2>5. Quiet
    BY <1>1, <1>3 DEF Quiet, store
  <2> QED
    BY <1>1, <1>3, <2>2, <2>4, <2>5, ReturnStep
<1>4. ASSUME Admitted, NEW o \in Outcomes, Rotate(o)
      PROVE  Inv'
  <2>1. \A s \in Owned : s <= rot.target
    BY <1>1, <1>4 DEF Retaining, Admitted
  <2>2. /\ IsStore(gens', tips') /\ DOMAIN gens' = DOMAIN gens \cup {manifest'.writable}
        /\ manifest'.writable \notin DOMAIN gens /\ manifest'.archive = w
        /\ manifest' \in Generations /\ manifest'.last = rot.target /\ manifest'.min = floor
        /\ \A g \in DOMAIN gens : gens'[g] = gens[g] /\ tips'[g] = tips[g]
        /\ tips'[manifest'.writable] = NoTip
    BY <1>4, RotateReads
  <2>3. /\ manifests' \subseteq Manifests
        /\ o = "ok" => manifests' = {}
    BY <1>4 DEF Rotate, Manifests
  <2>4. \A m \in Manifests' : m = manifest' \/ m \in Manifests
    BY <2>3 DEF Manifests
  <2>5. /\ rot' \in Rotations /\ (rot'.pc = "retire" \/ rot'.pc = "record")
        /\ rot'.target = rot.target /\ rot'.boundary = rot.boundary
        /\ rot'.pc = "retire" => o = "ok" /\ rot'.doomed = manifest.archive
    <3>1. manifest.archive \in Nat
      BY DEF Typed, Generations
    <3>2. CASE o = "ok"
      <4>1. rot' = [rot EXCEPT !.pc = "retire", !.doomed = manifest.archive]
        BY <1>4, <3>2 DEF Rotate, AfterSwap
      <4> QED
        BY <1>2, <3>1, <3>2, <4>1 DEF Rotations, Steps
    <3>3. CASE o # "ok"
      <4>1. rot' = [rot EXCEPT !.pc = "record"]
        BY <1>4, <3>3 DEF Rotate, AfterSwap
      <4> QED
        BY <1>2, <4>1 DEF Rotations, Steps
    <3> QED
      BY <3>2, <3>3
  <2>6. Typed'
    <3>1. manifests' \subseteq Generations
      BY <2>3 DEF Typed, Manifests
    <3> QED
      BY <1>1, <2>2, <2>5, <3>1 DEF Typed
  <2>7. w \in DOMAIN gens /\ manifest.archive \in DOMAIN gens /\ w # manifest.archive
    BY DEF Present, Manifests
  <2>8. Present'
    <3>1. \A m \in Manifests : {m.writable, m.archive} \subseteq DOMAIN gens /\ m.writable # m.archive
      BY DEF Present
    <3>2. \A m \in Manifests' : {m.writable, m.archive} \subseteq DOMAIN gens' /\ m.writable # m.archive
      BY <2>2, <2>4, <2>7, <3>1
    <3>3. \A m \in manifests' : manifest'.writable \notin {m.writable, m.archive}
      BY <2>2, <2>3, <3>1
    <3>4. rot'.pc = "retire" => manifests' = {} /\ rot'.doomed \notin {manifest'.writable, manifest'.archive}
      BY <2>2, <2>3, <2>5, <2>7
    <3> QED
      BY <3>2, <3>3, <3>4 DEF Present
  <2>9. Queued'
    <3>1. Running' /\ Jobs' /\ Cleaning'
      BY <1>1 DEF Queued, Running, Jobs, Cleaning
    <3>2. Barrier'
      BY <1>1 DEF Queued, Barrier
    <3> QED
      BY <3>1, <3>2 DEF Queued
  <2>10. TipsPast'
    <3>1. NoTip <= height /\ \A i \in DOMAIN queue : queue[i] > 0 => NoTip <= queue[i] /\ NoTip # queue[i]
      BY HistoryTyped, QueueTyped, SMTT(30) DEF NoTip
    <3> SUFFICES ASSUME NEW g \in DOMAIN gens'
                 PROVE  /\ tips'[g] <= height
                        /\ \A i \in DOMAIN queue : queue[i] > 0 =>
                             tips'[g] <= queue[i] /\ (tips'[g] = queue[i] => i = 1 /\ step = 4)
      BY <1>1 DEF TipsPast
    <3>2. CASE g \in DOMAIN gens
      <4>1. tips'[g] = tips[g]
        BY <2>2, <3>2
      <4> QED
        BY <3>2, <4>1 DEF TipsPast
    <3>3. CASE g = manifest'.writable
      BY <2>2, <3>1, <3>3
    <3> QED
      BY <2>2, <3>2, <3>3
  <2>11. /\ rot.boundary = file.last /\ rot.boundary + Interval <= rot.target /\ rot.boundary < floor
         /\ floor <= file.min /\ file.min <= file.last + 1
    BY <1>1 DEF Numbers
  <2>12. Numbers'
    <3>1. manifest'.min <= manifest'.last + 1 /\ manifest'.min # 0 /\ manifest'.min <= floor
      BY <1>2, <2>2, <2>11, SMTT(30)
    <3>2. \A m \in Manifests' : m.min <= m.last + 1
      BY <2>4, <3>1 DEF Numbers
    <3>3. \A f \in {file} \cup files, m \in Manifests' : f.min = 0 /\ m.min = 0 => 1 \in rows
      BY <2>4, <3>1 DEF Numbers
    <3> QED
      BY <1>1, <2>5, <2>11, <3>1, <3>2, <3>3 DEF Numbers
  <2>13. Pending'
    <3>1. validated # 0 /\ notify <= validated
      BY <1>1 DEF Queued, Running, Numbers
    <3>2. validated <= rot.target
      BY <2>1, <3>1, OwnedIs
    <3>3. ~ (notify' >= manifest'.last + Interval)
      BY <1>1, <1>2, <2>2, <3>1, <3>2, SMTT(30)
    <3>4. step' = 4 => queue'[1] <= manifest'.last
      <4>1. step = 4 => step # 0
        BY SMTT(30)
      <4>2. step = 4 => queue[1] \in Owned
        BY <4>1, QueueTyped, OwnedIs DEF Queued, Running
      <4> QED
        BY <1>1, <2>1, <2>2, <4>2
    <3> QED
      BY <2>5, <3>3, <3>4 DEF Pending
  <2>14. Retaining'
    BY <2>5 DEF Retaining
  <2>15. TipComplete' /\ LiveComplete' /\ \A s \in Owned : Header(s) \in Visible(manifest)'
    BY <1>1, <1>4, RotateComplete
  <2>16. Stored'
    <3>1. step \in {2, 3, 4} => step # 0
      BY SMTT(30)
    <3>2. step \in {2, 3, 4} => queue[1] \in Owned
      BY <3>1, QueueTyped, OwnedIs DEF Queued, Running
    <3> QED
      BY <1>1, <2>15, <3>2 DEF Stored
  <2> QED
    BY <2>6, <2>8, <2>9, <2>10, <2>12, <2>13, <2>14, <2>15, <2>16
<1> QED
  BY <1>3, <1>4 DEF Swap, Return, store

\* Removing the old archive takes nothing from the readers of the manifest.
LEMMA RetireReads ==
  ASSUME Typed, Present, Retire
  PROVE  /\ IsStore(gens', tips') /\ DOMAIN gens' \subseteq DOMAIN gens
         /\ Manifests = {manifest} /\ Manifests' = Manifests /\ manifest' = manifest
         /\ {manifest.writable, manifest.archive} \subseteq DOMAIN gens'
         /\ \A g \in DOMAIN gens' : gens'[g] = gens[g] /\ tips'[g] = tips[g]
         /\ TipOf(manifest)' = TipOf(manifest) /\ Visible(manifest)' = Visible(manifest)
<1>1. /\ rot.pc = "retire" /\ gens' = [g \in DOMAIN gens \ {rot.doomed} |-> gens[g]]
      /\ tips' = [g \in DOMAIN gens \ {rot.doomed} |-> tips[g]]
      /\ UNCHANGED <<manifest, manifests>>
  BY DEF Retire
<1>2. manifests = {} /\ rot.doomed \notin {manifest.writable, manifest.archive}
  BY <1>1 DEF Present
<1>3. /\ Manifests = {manifest} /\ Manifests' = Manifests /\ manifest' = manifest
  BY <1>1, <1>2 DEF Manifests
<1>4. DOMAIN gens' = DOMAIN gens \ {rot.doomed} /\ \A g \in DOMAIN gens' : gens'[g] = gens[g] /\ tips'[g] = tips[g]
  BY <1>1
<1>5. {manifest.writable, manifest.archive} \subseteq DOMAIN gens'
  BY <1>2, <1>4 DEF Present, Manifests
<1>6. IsStore(gens', tips')
  <2>1. gens' = [g \in DOMAIN gens' |-> gens'[g]]
    BY <1>1
  <2>2. Bounded(DOMAIN gens') /\ DOMAIN gens' \subseteq Nat
    BY <1>4 DEF Typed, IsStore, Bounded
  <2>3. \A g \in DOMAIN gens : tips[g] \in -1..MaxSeq
    BY DEF Typed, IsStore
  <2>4. tips' \in [DOMAIN gens' -> -1..MaxSeq]
    BY <1>1, <1>4, <2>3
  <2> QED
    BY <2>1, <2>2, <2>4 DEF IsStore
<1>7. Visible(manifest)' = Visible(manifest) /\ TipOf(manifest)' = TipOf(manifest)
  BY <1>3, <1>4, <1>5 DEF Visible, TipOf
<1> QED
  BY <1>3, <1>4, <1>5, <1>6, <1>7

\* The old archive is removed.
LEMMA RetireStep ==
  ASSUME Inv, Retire
  PROVE  Inv'
<1>0. /\ Typed /\ Present /\ Queued /\ TipsPast /\ Numbers /\ Pending /\ Retaining /\ Stored
      /\ TipComplete /\ LiveComplete
  BY DEF Inv
<1>1. /\ rot.pc = "retire" /\ rot' = [rot EXCEPT !.pc = "record"]
      /\ UNCHANGED <<height, tree, validated, history, dirty, queue, step, rows, manifest, manifests,
                     file, files, floor, notify, crashes>>
  BY DEF Retire, Goto, chain, service, advice
<1>2. /\ IsStore(gens', tips') /\ DOMAIN gens' \subseteq DOMAIN gens
      /\ Manifests = {manifest} /\ Manifests' = Manifests /\ manifest' = manifest
      /\ {manifest.writable, manifest.archive} \subseteq DOMAIN gens'
      /\ \A g \in DOMAIN gens' : gens'[g] = gens[g] /\ tips'[g] = tips[g]
      /\ TipOf(manifest)' = TipOf(manifest) /\ Visible(manifest)' = Visible(manifest)
  BY <1>0, RetireReads
<1>3. /\ rot \in Rotations /\ rot' \in Rotations /\ rot'.pc = "record"
      /\ rot'.target = rot.target /\ rot'.boundary = rot.boundary
  BY <1>0, <1>1 DEF Typed, Rotations, Steps
<1>4. Typed'
  BY <1>0, <1>1, <1>2, <1>3 DEF Typed
<1>5. Present'
  BY <1>0, <1>1, <1>2, <1>3 DEF Present
<1>6. Queued'
  <2>1. Running' /\ Jobs' /\ Cleaning'
    BY <1>0, <1>1 DEF Queued, Running, Jobs, Cleaning
  <2>2. Barrier'
    BY <1>0, <1>1 DEF Queued, Barrier
  <2> QED
    BY <2>1, <2>2 DEF Queued
<1>7. TipsPast'
  <2> SUFFICES ASSUME NEW g \in DOMAIN gens'
               PROVE  /\ tips'[g] <= height'
                      /\ \A i \in DOMAIN queue' : queue'[i] > 0 =>
                           tips'[g] <= queue'[i] /\ (tips'[g] = queue'[i] => i = 1 /\ step' = 4)
    BY DEF TipsPast
  <2>1. g \in DOMAIN gens /\ tips'[g] = tips[g] /\ height' = height /\ queue' = queue /\ step' = step
    BY <1>1, <1>2
  <2> QED
    BY <1>0, <2>1 DEF TipsPast
<1>8. Numbers'
  BY <1>0, <1>1, <1>2, <1>3 DEF Numbers
<1>9. Owned' = Owned
  BY <1>1 DEF Owned, InQueue
<1>10. tips'[manifest'.writable] = tips[manifest.writable]
  BY <1>2
<1>11. Settled => Settled'
  BY <1>2, <1>9, <1>10 DEF Settled
<1>12. Pending'
  <2>1. InQueue(notify) => InQueue(notify)'
    BY <1>1 DEF InQueue
  <2>2. notify' # 0 /\ notify' >= manifest'.last + Interval => InQueue(notify)' \/ Settled'
    BY <1>0, <1>1, <1>11, <2>1 DEF Pending
  <2>3. step' = 4 => tips'[manifest'.writable] # NoTip \/ queue'[1] <= manifest'.last
    BY <1>0, <1>1, <1>10 DEF Pending
  <2> QED
    BY <1>3, <2>2, <2>3 DEF Pending
<1>13. Retaining'
  BY <1>3 DEF Retaining
<1>14. Stored'
  BY <1>0, <1>1, <1>2 DEF Stored
<1>15. TipComplete'
  <2> SUFFICES ASSUME NEW m \in Manifests'
               PROVE  /\ {m.writable, m.archive} \subseteq DOMAIN gens'
                      /\ TipOf(m)' \in Owned' => Complete(m, TipOf(m))'
    BY DEF TipComplete
  <2>1. m = manifest /\ m \in Manifests
    BY <1>2
  <2>2. TipOf(m)' = TipOf(m) /\ Visible(m)' = Visible(m)
    BY <1>2, <2>1 DEF TipOf, Visible
  <2>3. TipOf(m) \in Owned => Complete(m, TipOf(m))
    BY <1>0, <2>1 DEF TipComplete
  <2>4. TipOf(m) \in Owned => Header(TipOf(m)) \in Visible(m) /\ \A n \in tree[TipOf(m)] : Node(n) \in Visible(m)
    BY <2>3, CompleteIs
  <2>5. TipOf(m)' \in Owned' => Header(TipOf(m)') \in Visible(m)' /\ \A n \in tree'[TipOf(m)'] : Node(n) \in Visible(m)'
    BY <1>1, <1>9, <2>2, <2>4
  <2> QED
    BY <1>2, <2>1, <2>5 DEF Complete, StateNodes
<1>16. LiveComplete'
  BY <1>0, <1>1, <1>2, <1>9 DEF LiveComplete
<1> QED
  BY <1>4, <1>5, <1>6, <1>7, <1>8, <1>12, <1>13, <1>14, <1>15, <1>16 DEF Inv

-----------------------------------------------------------------------------
(* Crash and restart *)

\* The file a restart finds is reconciled with the manifest.
LEMMA ReconciledIs ==
  ASSUME Inv, NEW m \in Manifests, NEW f \in {file} \cup files
  PROVE  LET r == Reconciled(f, m)
         IN  /\ r \in Advice /\ r.min <= r.last + 1 /\ m.min <= r.min
             /\ r.min = 0 => 1 \in rows
<1> USE DEF Inv
<1> DEFINE low == Max({f.min, m.min})
           last == Max({f.last, m.last})
           min == IF low = 0 /\ rows # {} THEN Min(rows) ELSE low
<1>1. f.min \in Nat /\ m.min \in Nat /\ f.last \in Nat /\ m.last \in Nat
  BY NumbersTyped
<1>2. f.min <= f.last + 1 /\ m.min <= m.last + 1 /\ (f.min = 0 /\ m.min = 0 => 1 \in rows)
  BY DEF Numbers
<1>3. /\ low \in Nat /\ low >= f.min /\ low >= m.min /\ (low = f.min \/ low = m.min)
      /\ last \in Nat /\ last >= f.last /\ last >= m.last
  BY <1>1, MaxPair
<1>4. Reconciled(f, m) = [last |-> last, min |-> min]
  BY DEF Reconciled
<1> HIDE DEF low, last
<1>5. low = 0 => 1 \in rows
  BY <1>1, <1>2, <1>3, SMTT(30)
<1>6. 1 \in rows => Min(rows) = 1
  <2>1. rows \in SUBSET (Nat \ {0})
    <3>1. rows \subseteq 1..height /\ height \in Nat
      BY HistoryTyped DEF Typed
    <3> QED
      BY <3>1, SMTT(30)
  <2> QED
    BY <2>1, MinOne
<1>7. (low = 0 => min = 1) /\ (low # 0 => min = low)
  BY <1>5, <1>6
<1> HIDE DEF min
<1>8. min \in Nat /\ min <= last + 1 /\ m.min <= min /\ min # 0
  BY <1>1, <1>2, <1>3, <1>7, SMTT(30)
<1>9. [last |-> last, min |-> min] \in Advice
  BY <1>3, <1>8 DEF Advice
<1> QED
  BY <1>4, <1>8, <1>9, SMTT(30)

\* A restart reads what the manifest it finds named.
LEMMA RestartReads ==
  ASSUME Typed, Present, NEW m \in Manifests, manifest' = m, manifests' = {},
         gens' = [g \in {m.writable, m.archive} |-> gens[g]],
         tips' = [g \in {m.writable, m.archive} |-> tips[g]]
  PROVE  /\ IsStore(gens', tips') /\ Manifests' = {m} /\ m \in Generations /\ m.writable # m.archive
         /\ DOMAIN gens' = {m.writable, m.archive} /\ DOMAIN gens' \subseteq DOMAIN gens
         /\ \A g \in DOMAIN gens' : gens'[g] = gens[g] /\ tips'[g] = tips[g]
         /\ TipOf(m)' = TipOf(m) /\ Visible(m)' = Visible(m) /\ Visible(manifest)' = Visible(m)
<1>1. {m.writable, m.archive} \subseteq DOMAIN gens /\ m.writable # m.archive
  BY DEF Present
<1>2. /\ DOMAIN gens' = {m.writable, m.archive}
      /\ \A g \in DOMAIN gens' : gens'[g] = gens[g] /\ tips'[g] = tips[g]
  OBVIOUS
<1>3. IsStore(gens', tips')
  <2>1. gens' = [g \in DOMAIN gens' |-> gens'[g]]
    BY <1>2
  <2>2. Bounded(DOMAIN gens') /\ DOMAIN gens' \subseteq Nat
    BY <1>1, <1>2 DEF Typed, IsStore, Bounded
  <2>3. \A g \in {m.writable, m.archive} : tips[g] \in -1..MaxSeq
    BY <1>1 DEF Typed, IsStore
  <2>4. tips' \in [DOMAIN gens' -> -1..MaxSeq]
    BY <1>2, <2>3
  <2> QED
    BY <2>1, <2>2, <2>4 DEF IsStore
<1>4. m.writable \in DOMAIN gens' /\ m.archive \in DOMAIN gens'
  BY <1>2
<1>5. TipOf(m)' = TipOf(m)
  BY <1>2, <1>4 DEF TipOf
<1>6. Visible(m)' = Visible(m) /\ Visible(manifest)' = Visible(m)
  BY <1>2, <1>4 DEF Visible
<1>7. Manifests' = {m} /\ m \in Generations
  BY DEF Manifests, Typed
<1> QED
  BY <1>1, <1>2, <1>3, <1>5, <1>6, <1>7

\* A restart keeps the invariant, whichever manifest and file it finds.
LEMMA RestartStep ==
  ASSUME Inv, Restart
  PROVE  Inv'
<1> USE DEF Inv
<1>1. PICK m \in Manifests, f \in {file} \cup files :
         /\ manifest' = m
         /\ gens' = [g \in {m.writable, m.archive} |-> gens[g]]
         /\ tips' = [g \in {m.writable, m.archive} |-> tips[g]]
         /\ file' = Reconciled(f, m)
         /\ validated' = IF Loadable(m) THEN TipOf(m) ELSE 0
         /\ history' = {validated'} \ {0}
  BY DEF Restart, Manifests
<1>2. /\ manifests' = {} /\ files' = {} /\ floor' = file'.min
      /\ dirty' = {} /\ queue' = << >> /\ step' = 0 /\ notify' = 0 /\ rot' = Idle
      /\ UNCHANGED <<height, tree, rows>> /\ crashes' = crashes + 1
  BY DEF Restart, chain
<1>3. /\ file' \in Advice /\ file'.min <= file'.last + 1 /\ m.min <= file'.min
      /\ file'.min = 0 => 1 \in rows
  BY <1>1, ReconciledIs
<1>4. /\ IsStore(gens', tips') /\ Manifests' = {m} /\ m \in Generations /\ m.writable # m.archive
      /\ DOMAIN gens' = {m.writable, m.archive} /\ DOMAIN gens' \subseteq DOMAIN gens
      /\ \A g \in DOMAIN gens' : gens'[g] = gens[g] /\ tips'[g] = tips[g]
      /\ TipOf(m)' = TipOf(m) /\ Visible(m)' = Visible(m) /\ Visible(manifest)' = Visible(m)
  BY <1>1, <1>2, RestartReads
<1>5. TipOf(m) \in 0..height /\ height \in Nat
  BY TipBound, HistoryTyped
<1>6. validated' \in 0..height /\ (validated' = TipOf(m) \/ validated' = 0)
  BY <1>1, <1>5, SMTT(30)
<1>7. /\ Idle \in Rotations /\ Idle.pc = "idle" /\ Idle.target = 0
  BY DEF Idle, Rotations, Steps
<1>8. DOMAIN queue' = {} /\ queue' \in Seq(Int)
  BY <1>2, SMTT(30)
<1>9. Typed'
  <2>1. history' \subseteq 1..validated'
    BY <1>1, <1>5, <1>6, SMTT(30)
  <2>2. floor' \in Nat /\ notify' \in Nat /\ crashes' \in Nat /\ step' \in 0..4
    BY <1>2, <1>3, SMTT(30) DEF Advice, Typed
  <2>3. height' \in 1..MaxSeq /\ validated' \in 0..height' /\ tree' \in [1..MaxSeq -> States] /\ rows' \subseteq 1..height'
    BY <1>2, <1>6 DEF Typed
  <2>4. file' \in Advice /\ files' \subseteq Advice /\ manifest' \in Generations /\ manifests' \subseteq Generations
    BY <1>1, <1>2, <1>3, <1>4
  <2>5. rot' \in Rotations
    BY <1>2, <1>7
  <2> QED
    BY <1>4, <1>8, <2>1, <2>2, <2>3, <2>4, <2>5 DEF Typed
<1>10. Present'
  BY <1>1, <1>2, <1>4, <1>7 DEF Present
<1>11. Queued'
  <2>1. Running'
    BY <1>1, <1>2, <1>7 DEF Running
  <2> QED
    BY <1>8, <2>1 DEF Queued, Jobs, Cleaning, Barrier
<1>12. TipsPast'
  <2>1. \A g \in DOMAIN gens' : tips'[g] <= height'
    BY <1>2, <1>4 DEF TipsPast
  <2> QED
    BY <1>8, <2>1 DEF TipsPast
<1>13. Numbers'
  <2>1. \A x \in Manifests' : x.min <= x.last + 1
    BY <1>4 DEF Numbers
  <2>2. floor' <= file'.min /\ manifest'.min <= floor'
    <3>1. file'.min \in Nat
      BY <1>3 DEF Advice
    <3> QED
      BY <1>1, <1>2, <1>3, <3>1, SMTT(30)
  <2>3. \A x \in {file'} \cup files' : x = file'
    BY <1>2
  <2>4. notify' <= validated' /\ rot'.target <= validated'
    BY <1>2, <1>5, <1>6, <1>7, SMTT(30)
  <2> QED
    BY <1>2, <1>3, <1>7, <2>1, <2>2, <2>3, <2>4 DEF Numbers
<1>14. Pending'
  BY <1>2, <1>7, SMTT(30) DEF Pending
<1>15. Retaining'
  BY <1>2, <1>7 DEF Retaining
<1>16. Stored'
  BY <1>2, SMTT(30) DEF Stored
<1>20. ASSUME NEW x \in Owned'
      PROVE  x = TipOf(m) /\ Header(x) \in Visible(m) /\ \A n \in tree[x] : Node(n) \in Visible(m)
  <2>1. x \in history'
    BY <1>8 DEF Owned, InQueue
  <2>2. x = TipOf(m) /\ Loadable(m)
    BY <1>1, <2>1
  <2> QED
    BY <2>2 DEF Loadable, StateNodes
<1>17. TipComplete'
  <2> SUFFICES ASSUME NEW x \in Manifests'
               PROVE  /\ {x.writable, x.archive} \subseteq DOMAIN gens'
                      /\ TipOf(x)' \in Owned' => Complete(x, TipOf(x))'
    BY DEF TipComplete
  <2>1. x = m
    BY <1>4
  <2>2. TipOf(x)' = TipOf(m) /\ Visible(x)' = Visible(m)
    <3>1. TipOf(x)' = TipOf(m)' /\ Visible(x)' = Visible(m)'
      BY <2>1 DEF TipOf, Visible
    <3> QED
      BY <1>4, <3>1
  <2>3. TipOf(x)' \in Owned' => Header(TipOf(x)') \in Visible(x)' /\ \A n \in tree'[TipOf(x)'] : Node(n) \in Visible(x)'
    BY <1>2, <1>20, <2>2
  <2> QED
    BY <1>4, <2>1, <2>3 DEF Complete, StateNodes
<1>18. LiveComplete'
  BY <1>2, <1>4, <1>20 DEF LiveComplete
<1> QED
  BY <1>9, <1>10, <1>11, <1>12, <1>13, <1>14, <1>15, <1>16, <1>17, <1>18

-----------------------------------------------------------------------------
(* The invariant *)

\* The first ledger is stored, and its tip has settled.
LEMMA InvInit ==
  Init => Inv
<1> SUFFICES ASSUME Init PROVE Inv
  OBVIOUS
<1>1. /\ height = 1 /\ validated = 1 /\ history = {1} /\ dirty = {} /\ queue = << >> /\ step = 0
      /\ rows = {1} /\ manifests = {} /\ files = {} /\ floor = 0 /\ notify = 1 /\ rot = Idle /\ crashes = 0
      /\ manifest = [writable |-> 1, archive |-> 0, last |-> 0, min |-> 0]
      /\ file = [last |-> 0, min |-> 0]
      /\ gens = [g \in 0..1 |-> IF g = 1 THEN StateNodes(1) \cup {Header(1)} ELSE {}]
      /\ tips = [g \in 0..1 |-> IF g = 1 THEN 1 ELSE NoTip]
  BY DEF Init
<1>2. MaxSeq \in Nat /\ 1 \in 1..MaxSeq
  BY BoundsAssumption, SMTT(30)
<1>3. /\ manifest.writable = 1 /\ manifest.archive = 0 /\ manifest.last = 0 /\ manifest.min = 0
      /\ manifest \in Generations /\ file.last = 0 /\ file.min = 0 /\ file \in Advice
  BY <1>1 DEF Generations, Advice
<1>4. Idle \in Rotations /\ Idle.pc = "idle" /\ Idle.target = 0
  BY DEF Idle, Rotations, Steps
<1>5. /\ DOMAIN gens = 0..1 /\ gens[1] = StateNodes(1) \cup {Header(1)} /\ gens[0] = {}
  BY <1>1, SMTT(30)
<1>6. DOMAIN queue = {} /\ queue \in Seq(Int) /\ Manifests = {manifest}
  BY <1>1, SMTT(30) DEF Manifests
<1>7. DOMAIN tips = 0..1 /\ tips[1] = 1 /\ tips[0] = -1 /\ NoTip = -1 /\ 1 # -1
  BY <1>1, SMTT(30) DEF NoTip
<1>8. TipOf(manifest) = 1
  BY <1>3, <1>7 DEF TipOf
<1>9. Typed
  <2>1. tree \in [1..MaxSeq -> States]
    BY DEF Init, States
  <2>2. IsStore(gens, tips)
    <3>1. Bounded(DOMAIN gens) /\ DOMAIN gens \subseteq Nat
      <4>1. DOMAIN gens \subseteq 0..1 /\ 1 \in Nat
        BY <1>5
      <4> QED
        BY <4>1, SMTT(30) DEF Bounded
    <3>2. gens = [g \in DOMAIN gens |-> gens[g]]
      BY <1>1
    <3>3. tips \in [0..1 -> -1..MaxSeq]
      BY <1>1, <1>2, SMTT(30) DEF NoTip
    <3> QED
      BY <1>5, <3>1, <3>2, <3>3 DEF IsStore
  <2>3. /\ height \in 1..MaxSeq /\ validated \in 0..height
        /\ history \subseteq 1..validated /\ rows \subseteq 1..height /\ step \in 0..4
        /\ floor \in Nat /\ notify \in Nat /\ crashes \in Nat
    BY <1>1, <1>2, SMTT(30)
  <2>4. manifests \subseteq Generations /\ files \subseteq Advice /\ rot \in Rotations
    BY <1>1, <1>4
  <2> QED
    BY <1>3, <1>6, <2>1, <2>2, <2>3, <2>4 DEF Typed
<1>10. Present
  BY <1>1, <1>3, <1>4, <1>5, <1>6, SMTT(30) DEF Present
<1>11. Queued
  <2>1. Running
    BY <1>1, <1>4, SMTT(30) DEF Running
  <2> QED
    BY <1>6, <2>1 DEF Queued, Jobs, Cleaning, Barrier
<1>12. TipsPast
  <2>1. \A g \in DOMAIN gens : tips[g] <= height
    BY <1>1, <1>5, SMTT(30) DEF NoTip
  <2> QED
    BY <1>6, <2>1 DEF TipsPast
<1>13. Numbers
  BY <1>1, <1>3, <1>4, <1>6, SMTT(30) DEF Numbers
<1>14. Settled
  BY <1>3, <1>7 DEF Settled
<1>15. Pending
  BY <1>1, <1>14, SMTT(30) DEF Pending
<1>16. Retaining
  BY <1>1, <1>4 DEF Retaining
<1>17. Stored
  BY <1>1, SMTT(30) DEF Stored
<1>18. StateNodes(1) \cup {Header(1)} \subseteq Visible(manifest)
  BY <1>3, <1>5 DEF Visible
<1>19. TipComplete
  <2>1. {manifest.writable, manifest.archive} \subseteq DOMAIN gens
    BY <1>3, <1>5, SMTT(30)
  <2> QED
    BY <1>6, <1>8, <1>18, <2>1 DEF TipComplete, Complete
<1>20. LiveComplete
  <2>1. Owned = {1}
    BY <1>1, <1>2, <1>6 DEF Owned, InQueue
  <2> QED
    BY <1>18, <2>1 DEF LiveComplete, StateNodes
<1> QED
  BY <1>9, <1>10, <1>11, <1>12, <1>13, <1>15, <1>16, <1>17, <1>19, <1>20 DEF Inv

\* A step that changes nothing.
LEMMA StutterStep ==
  ASSUME Inv, UNCHANGED vars
  PROVE  Inv'
<1>0. /\ Typed /\ Present /\ Queued /\ TipsPast /\ Numbers /\ Pending /\ Retaining /\ Stored
      /\ TipComplete /\ LiveComplete
  BY DEF Inv
<1>1. /\ UNCHANGED <<height, tree, validated, history, dirty, queue, step, rows, gens, tips, manifest, manifests>>
      /\ UNCHANGED <<file, files, floor, notify, rot, crashes>>
  BY DEF vars, chain, service, store, advice
<1>2. Manifests' = Manifests
  BY <1>1 DEF Manifests
<1>3. Owned' = Owned /\ (Settled' <=> Settled) /\ \A x : InQueue(x)' <=> InQueue(x)
  BY <1>1, QuietIs DEF Quiet
<1>4. Typed' /\ TipsPast' /\ Stored'
  <2>1. Visible(manifest)' = Visible(manifest)
    BY <1>1 DEF Visible
  <2>2. Stored'
    BY <1>0, <1>1, <2>1 DEF Stored
  <2> QED
    BY <1>0, <1>1, <2>2 DEF Typed, TipsPast
<1>5. Present'
  BY <1>0, <1>1, <1>2 DEF Present
<1>6. Queued'
  BY <1>0, <1>1 DEF Queued, Running, Jobs, Cleaning, Barrier
<1>7. Numbers'
  BY <1>0, <1>1, <1>2 DEF Numbers
<1>8. Pending'
  BY <1>0, <1>1, <1>3 DEF Pending
<1>9. Retaining'
  BY <1>0, <1>1, <1>3 DEF Retaining, Saved
<1>10. TipComplete'
  <2> SUFFICES ASSUME NEW m \in Manifests'
               PROVE  /\ {m.writable, m.archive} \subseteq DOMAIN gens'
                      /\ TipOf(m)' \in Owned' => Complete(m, TipOf(m))'
    BY DEF TipComplete
  <2>1. TipOf(m)' = TipOf(m) /\ Visible(m)' = Visible(m)
    BY <1>1 DEF TipOf, Visible
  <2>2. StateNodes(TipOf(m))' = StateNodes(TipOf(m))
    BY <1>1, <2>1 DEF StateNodes
  <2> QED
    BY <1>0, <1>1, <1>2, <1>3, <2>1, <2>2 DEF TipComplete, Complete
<1>11. LiveComplete'
  <2>1. Visible(manifest)' = Visible(manifest)
    BY <1>1 DEF Visible
  <2> QED
    BY <1>0, <1>1, <1>3, <2>1 DEF LiveComplete
<1> QED
  BY <1>4, <1>5, <1>6, <1>7, <1>8, <1>9, <1>10, <1>11 DEF Inv

\* Every step keeps the invariant.
LEMMA InvStep ==
  ASSUME Maxima, Inv, [Next]_vars
  PROVE  Inv'
<1>1. CASE UNCHANGED vars
  BY <1>1, StutterStep
<1>2. CASE CloseLedger \/ AdoptLedger
  BY <1>2, CloseStep, AdoptStep
<1>3. CASE Persistence
  BY <1>3, TakeStep, NodesStep, RowStep, TipStep, FinishStep, CleanStep, BarrierStep DEF Persistence
<1>4. CASE Rotation
  BY <1>4, ReconcileStep, CheckStep, FloorStep, CollectStep, PreserveStep, SwapStep,
     RetireStep, RecordStep, RowsStep DEF Rotation
<1>5. CASE Restart
  BY <1>5, RestartStep
<1> QED
  BY <1>1, <1>2, <1>3, <1>4, <1>5 DEF Next

-----------------------------------------------------------------------------
(* What no step may do *)

\* The validated tip of the manifest never goes back without a crash while its
\* ledger is owned.
LEMMA TipAdvances ==
  ASSUME Maxima, Inv, Next, crashes' = crashes, TipOf(manifest) \in Owned
  PROVE  TipOf(manifest)' >= TipOf(manifest)
<1>0. /\ Typed /\ Present /\ Queued /\ TipsPast /\ Retaining /\ manifest \in Manifests
  BY DEF Inv, Manifests
<1>1. TipOf(manifest) \in Nat
  BY <1>0, TipOfIs
<1>2. ASSUME TipOf(manifest)' = TipOf(manifest) PROVE TipOf(manifest)' >= TipOf(manifest)
  BY <1>1, <1>2, SMTT(30)
<1>3. ASSUME UNCHANGED <<tips, manifest>> PROVE TipOf(manifest)' >= TipOf(manifest)
  BY <1>2, <1>3 DEF TipOf
<1>4. CASE CloseLedger \/ AdoptLedger
  BY <1>3, <1>4 DEF CloseLedger, AdoptLedger, Validate
<1>5. CASE TakeJob \/ PersistNodes \/ PersistRow \/ FinishJob \/ PassBarrier
  BY <1>3, <1>5 DEF TakeJob, PersistNodes, PersistRow, FinishJob, PassBarrier, store
<1>6. CASE PersistTip
  <2>1. UNCHANGED <<gens, manifest, manifests>>
    BY <1>6 DEF PersistTip
  <2>2. CASE TipOf(manifest) < Job
    <3>1. step = 3 /\ PutTip(Job)
      BY <1>6, <2>2 DEF PersistTip
    <3>2. step # 0
      BY <3>1, SMTT(30)
    <3>3. Job = queue[1] /\ 1 \in DOMAIN queue /\ queue[1] > 0
      BY <1>0, <3>2, HeadIs
    <3>4. Job \in Owned
      BY <1>0, <3>3, OwnedIs
    <3>5. Job \in 0..MaxSeq /\ Job \in Nat /\ Job # NoTip
      <4>1. Job \in 1..MaxSeq /\ MaxSeq \in Nat
        BY <1>0, <3>4, OwnedIs, BoundsAssumption
      <4> QED
        BY <4>1, SMTT(30) DEF NoTip
    <3>6. tips'[manifest.writable] = Job
      BY <1>0, <2>1, <3>1, <3>5, PutTipIs
    <3>7. TipOf(manifest)' = Job
      BY <2>1, <3>5, <3>6 DEF TipOf
    <3> QED
      BY <1>1, <2>2, <3>5, <3>7, SMTT(30)
  <2>3. CASE ~ (TipOf(manifest) < Job)
    BY <1>3, <1>6, <2>3 DEF PersistTip
  <2> QED
    BY <2>2, <2>3
<1>7. CASE CleanTip
  <2>1. Job < 0 /\ Job = queue[1] /\ 1 \in DOMAIN queue
    BY <1>0, <1>7, HeadIs DEF CleanTip
  <2>2. -Job \notin history /\ \A j \in DOMAIN queue : j > 1 => queue[j] # -Job
    BY <1>0, <2>1 DEF Queued, Cleaning
  <2>3. \A j \in DOMAIN queue : j = 1 \/ j > 1
    BY <1>0, SMTT(30) DEF Typed
  <2>4. queue[1] # -Job
    <3>1. queue[1] \in Int
      BY <1>0, <2>1, QueueTyped
    <3> QED
      BY <2>1, <3>1, SMTT(30)
  <2>5. -Job \notin Owned
    BY <2>2, <2>3, <2>4 DEF Owned, InQueue
  <2>6. TipOf(manifest) # -Job
    BY <2>5
  <2> QED
    BY <1>3, <1>7, <2>6 DEF CleanTip
<1>8. CASE Reconcile \/ Check \/ SetFloor \/ Collect \/ Preserve \/ RecordRotation \/ DeleteRelational
  BY <1>3, <1>8 DEF Reconcile, Check, SetFloor, Collect, Preserve, RecordRotation, DeleteRelational, store
<1>9. CASE Swap
  <2>1. CASE UNCHANGED store
    BY <1>3, <2>1 DEF store
  <2>2. CASE \E o \in Outcomes : Rotate(o)
    <3>1. tips[manifest.writable] # NoTip
      BY <1>0, <1>9 DEF Retaining, Swap, Settled
    <3>2. TipOf(manifest)' = TipOf(manifest)
      BY <1>0, <2>2, <3>1, RotateReads
    <3> QED
      BY <1>2, <3>2
  <2> QED
    BY <1>9, <2>1, <2>2 DEF Swap
<1>10. CASE Retire
  BY <1>0, <1>2, <1>10, RetireReads
<1>11. ~ Restart
  BY <1>0, SMTT(30) DEF Restart, Typed
<1> QED
  BY <1>4, <1>5, <1>6, <1>7, <1>8, <1>9, <1>10, <1>11 DEF Next, Persistence, Rotation

\* Rows go only in DeleteRelational, below a floor that every restart finds.
LEMMA RowsKept ==
  ASSUME Inv, Next, NEW s \in rows \ rows', NEW m \in Manifests, NEW f \in {file} \cup files
  PROVE  s < Max({f.min, m.min})
<1> USE DEF Inv
<1>1. DeleteRelational
  <2>1. ~ (CloseLedger \/ AdoptLedger \/ Restart)
    BY DEF CloseLedger, AdoptLedger, Validate, Restart
  <2>2. ~ Persistence
    BY DEF Persistence, TakeJob, PersistNodes, PersistRow, PersistTip, FinishJob, CleanTip, PassBarrier
  <2>3. ~ (Reconcile \/ Check \/ SetFloor \/ Collect \/ Preserve \/ Swap \/ Retire \/ RecordRotation)
    BY DEF Reconcile, Check, SetFloor, Collect, Preserve, Swap, Retire, RecordRotation, service
  <2> QED
    BY <2>1, <2>2, <2>3 DEF Next, Rotation
<1>2. rot.pc = "rows" /\ ~ (s >= rot.boundary)
  BY <1>1 DEF DeleteRelational
<1>3. files = {} /\ rot.boundary < file.min
  BY <1>2 DEF Numbers
<1>4. f = file
  BY <1>3
<1>5. s \in Nat /\ rot.boundary \in Nat /\ f.min \in Nat /\ m.min \in Nat
  <2>1. rows \subseteq 1..height /\ height \in Nat
    BY HistoryTyped DEF Typed
  <2> QED
    BY <2>1, NumbersTyped, SMTT(30)
<1>6. Max({f.min, m.min}) \in Nat /\ Max({f.min, m.min}) >= f.min
  BY <1>5, MaxPair
<1> QED
  BY <1>2, <1>3, <1>4, <1>5, <1>6, SMTT(30)

-----------------------------------------------------------------------------
(* Theorems *)

LOCAL INSTANCE InductionLemmas

\* A bounded set of numbers has a maximum.
LEMMA MaximaExist == Maxima
<1> SUFFICES ASSUME NEW n \in Nat, NEW S \in SUBSET (0..n), S # {}
             PROVE  Max(S) \in S /\ \A y \in S : y <= Max(S)
  BY DEF Maxima
<1>1. PICK x \in S : \A y \in S : y <= x
  BY GreatestNumber
<1>2. \A y \in S : x >= y
  <2>1. S \subseteq 0..n
    OBVIOUS
  <2> QED
    BY <1>1, <2>1
<1>3. Max(S) \in S /\ \A y \in S : Max(S) >= y
  BY <1>2 DEF Max
<1>4. S \subseteq 0..n
  OBVIOUS
<1> QED
  BY <1>3, <1>4

\* The invariant holds in every state of every run.
LEMMA InvCorrect == Spec => []Inv
<1>1. Init => Inv
  BY InvInit
<1>2. Inv /\ [Next]_vars => Inv'
  BY InvStep, MaximaExist
<1> QED
  BY <1>1, <1>2, PTL DEF Spec

\* No rotation takes a node from under a ledger of the history or of the persistence
\* queue, whatever ledgers arrive while the trees are copied (PrepareStateRetention,
\* stateRetentionGuard, RotateWithRetirement).
THEOREM LiveCorrect == Spec => []LiveComplete
<1>1. Inv => LiveComplete
  BY DEF Inv
<1> QED
  BY InvCorrect, <1>1, PTL

\* Whatever manifest a crash leaves, its generations are there and the validated tip
\* found in it is a complete ledger, unless the service has let go of that ledger
\* (persistToNodeStore before persistValidatedTipLocked; state retention before the
\* swap; the manifest before the removal of the old archive).
THEOREM TipCompleteCorrect == Spec => []TipComplete
<1>1. Inv => TipComplete
  BY DEF Inv
<1> QED
  BY InvCorrect, <1>1, PTL

\* A prepared rotation is never refused for its boundaries (RotateWithRetirement).
THEOREM AdmissibleCorrect == Spec => []RotationAdmissible
<1>1. Inv => RotationAdmissible
  <2> SUFFICES ASSUME Inv, rot.pc = "prepared"
               PROVE  rot.target > manifest.last /\ floor >= manifest.min /\ floor <= rot.target
    BY DEF RotationAdmissible
  <2>1. /\ manifest.last <= file.last /\ rot.boundary = file.last /\ rot.boundary + Interval <= rot.target
        /\ manifest.min <= floor /\ floor <= file.min /\ file.min <= file.last + 1
    BY DEF Inv, Numbers
  <2>2. /\ file.last \in Nat /\ file.min \in Nat /\ manifest.last \in Nat /\ manifest.min \in Nat
        /\ floor \in Nat /\ rot.target \in Nat /\ Interval \in Nat /\ Interval > 0
    BY NumbersTyped DEF Inv
  <2> QED
    BY <2>1, <2>2, SMTT(30)
<1> QED
  BY InvCorrect, <1>1, PTL

\* Nothing but a crash takes back the validated tip of an owned ledger: a rotation
\* never leaves it in the generation that goes (flushPersists before the first pass),
\* and no cleanup is for it (invalidateEvictedValidatedTip).
THEOREM SurvivesCorrect == Spec => TipSurvives
<1>1. Inv /\ [Next]_vars => [crashes' = crashes /\ TipOf(manifest) \in Owned => TipOf(manifest)' >= TipOf(manifest)]_vars
  BY TipAdvances, MaximaExist
<1> QED
  BY InvCorrect, <1>1, PTL DEF Spec, TipSurvives

\* Rows are deleted only below the floor that a restart finds, whichever manifest and
\* file the crash leaves (SetMinimumOnlineFloor and SetRotation before
\* DeleteLedgersBefore).
THEOREM RowsCorrect == Spec => RowsAboveFloor
<1>1. Inv /\ [Next]_vars => [\A s \in rows \ rows', m \in Manifests, f \in {file} \cup files :
                                s < Max({f.min, m.min})]_vars
  BY RowsKept
<1> QED
  BY InvCorrect, <1>1, PTL DEF Spec, RowsAboveFloor

=============================================================================
