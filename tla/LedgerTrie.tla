----------------------------- MODULE LedgerTrie -----------------------------
(***************************************************************************)
(* The ancestry trie of internal/consensus/ledgertrie: a compressed trie   *)
(* of ledger histories that answers which ledger the network prefers.      *)
(* The actions are the calls the validation tracker makes under its lock:  *)
(* insertTipLocked, removeTipLocked (validations_trie.go) and              *)
(* GetPreferred, which reorders children while it reads.                   *)
(*                                                                         *)
(* A ledger is a positive number, ordered as the code orders hashes; 0 is  *)
(* the zero hash and also names the genesis sentinel of the root.  Support *)
(* is a count of validators, so its uint32 limits are never met.           *)
(***************************************************************************)
EXTENDS Integers, Sequences, FiniteSets, FiniteSetsExt, SequencesExt

CONSTANTS
    Validators,  \* validators that contribute a tip
    History,     \* History[l][s]: ancestor of ledger l at sequence s; the last is l
    Window,      \* ancestors a ledger remembers (256 in the code)
    Issued       \* values of largestIssued

Ledgers == DOMAIN History
LedgerSeq(l) == IF l = 0 THEN 0 ELSE Len(History[l])
TopSeq == Max({LedgerSeq(l) : l \in Ledgers})
MinSeq(l) == IF l = 0 THEN 0 ELSE Max({1, LedgerSeq(l) - Window})

Ancestor(l, s) == IF l # 0 /\ s \in MinSeq(l)..LedgerSeq(l) THEN History[l][s] ELSE 0

\* Unique history: ledgers that agree at a sequence agree below it.
ASSUME UniqueHistory ==
    \A l \in Ledgers : \A s \in 1..Len(History[l]) :
        /\ History[l][s] \in Ledgers \ {0}
        /\ History[History[l][s]] = SubSeq(History[l], 1, s)

VARIABLES
    nodes,       \* id -> [start, end, led, tip, branch, up, kids]
    seqSupport,  \* sequence -> number of tips there
    trieTips     \* the tracker's index: validator -> its tip, 0 if none

vars == <<nodes, seqSupport, trieTips>>

Root == 0
NoNode == -1

-----------------------------------------------------------------------------
(* Spans and lookups *)

Clamp(n, s) == IF s < n.start THEN n.start ELSE IF s > n.end THEN n.end ELSE s

\* The binary search finds the first disagreement of the overlap.
Mismatch(a, b) ==
    LET lower == Max({MinSeq(a), MinSeq(b)})
        upper == Min({LedgerSeq(a), LedgerSeq(b)})
        first == Min({s \in lower..upper : Ancestor(a, s) # Ancestor(b, s)} \cup {upper + 1})
    IN  IF lower > upper \/ first = lower THEN 1 ELSE first

Diff(n, l) == Clamp(n, Mismatch(n.led, l))
TipID(n) == Ancestor(n.led, n.end - 1)
StartID(n) == Ancestor(n.led, n.start)

RECURSIVE PathTo(_, _)
PathTo(T, i) == IF i = NoNode THEN {} ELSE {i} \cup PathTo(T, T[i].up)

\* find: descend from a node matched to its end into the first child that
\* matches further.
RECURSIVE FindFrom(_, _, _)
FindFrom(T, i, l) ==
    LET next == SelectInSeq(T[i].kids, LAMBDA c : Diff(T[c], l) > T[i].end)
    IN  IF Diff(T[i], l) = T[i].end /\ next # 0 THEN FindFrom(T, T[i].kids[next], l) ELSE i

Find(T, l) == FindFrom(T, Root, l)

RECURSIVE Preorder(_, _)
Preorder(T, i) == <<i>> \o FlattenSeq([k \in DOMAIN T[i].kids |-> Preorder(T, T[i].kids[k])])

\* Nodes are pointers in the code.  Here a node is named by its place in the
\* depth-first walk, so that equal tries are equal states.
Renumber(T) ==
    LET walk == Preorder(T, Root)
        new == [i \in DOMAIN T |-> SelectInSeq(walk, LAMBDA j : j = i) - 1]
    IN  [k \in 0..(Len(walk) - 1) |->
            LET n == T[walk[k + 1]]
            IN  [n EXCEPT !.up = IF @ = NoNode THEN NoNode ELSE new[@],
                          !.kids = [c \in DOMAIN @ |-> new[@[c]]]]]

\* findByIDWalk: the first node of the walk whose tip is l.
FindByLedgerID(T, l) ==
    LET hits == {i \in DOMAIN T : TipID(T[i]) = l}
    IN  IF hits = {} THEN NoNode ELSE Min(hits)

-----------------------------------------------------------------------------
(* Insert and Remove of one unit of support *)

Fresh(T) == CHOOSE i \in 0..Cardinality(DOMAIN T) : i \notin DOMAIN T

\* Mutant: only the node itself is counted.
AddBranchHere(T, i, count) == [T EXCEPT ![i].branch = @ + count]

AddBranch(T, i, count) ==
    [j \in DOMAIN T |-> IF j \in PathTo(T, i)
                        THEN [T[j] EXCEPT !.branch = @ + count] ELSE T[j]]

\* The part of node i from diffSeq on becomes a child that inherits everything.
SplitNode(T, i, diffSeq) ==
    LET sfx == Fresh(T)
    IN  [j \in DOMAIN T \cup {sfx} |->
            CASE j = sfx -> [T[i] EXCEPT !.start = diffSeq, !.up = i]
              [] j = i -> [T[i] EXCEPT !.end = diffSeq, !.tip = 0, !.kids = <<sfx>>]
              [] OTHER -> IF T[j].up = i THEN [T[j] EXCEPT !.up = sfx] ELSE T[j]]

NewLeaf(T, i, diffSeq, l) ==
    LET nn == Fresh(T)
    IN  [j \in DOMAIN T \cup {nn} |->
            CASE j = nn -> [start |-> diffSeq, end |-> LedgerSeq(l) + 1, led |-> l,
                            tip |-> 0, branch |-> 0, up |-> i, kids |-> <<>>]
              [] j = i -> [T[i] EXCEPT !.kids = Append(@, nn)]
              [] OTHER -> T[j]]

InsertLedger(T, l) ==
    LET loc == Find(T, l)
        diffSeq == Diff(T[loc], l)
        split == IF diffSeq < T[loc].end THEN SplitNode(T, loc, diffSeq) ELSE T
        hasNew == diffSeq <= LedgerSeq(l)
        grown == IF hasNew THEN NewLeaf(split, loc, diffSeq, l) ELSE split
        inc == IF hasNew THEN Fresh(split) ELSE loc
    IN  AddBranch([grown EXCEPT ![inc].tip = @ + 1], inc, 1)

\* eraseChild: the last child takes the place of the erased one.
EraseChild(kids, c) ==
    LET at == SelectInSeq(kids, LAMBDA k : k = c)
    IN  Front([kids EXCEPT ![at] = Last(kids)])

Drop(T, i) ==
    [j \in DOMAIN T \ {i} |->
        IF j = T[i].up THEN [T[j] EXCEPT !.kids = EraseChild(@, i)] ELSE T[j]]

\* Empty nodes go: a childless one is erased, an only child absorbs its parent.
RECURSIVE Compact(_, _)
Compact(T, i) ==
    LET n == T[i]
        c == n.kids[1]
    IN  IF i = Root \/ n.tip # 0 \/ Len(n.kids) > 1 THEN T
        ELSE IF n.kids = <<>> THEN Compact(Drop(T, i), n.up)
        ELSE Compact(Drop([T EXCEPT ![c].start = n.start, ![c].up = n.up,
                                    ![n.up].kids = Append(@, c)], i), n.up)

\* Remove answers FALSE, and takes nothing, for a ledger that carries no tip.
Removes(T, l) == FindByLedgerID(T, l) # NoNode /\ T[FindByLedgerID(T, l)].tip > 0

RemoveLedger(T, l) ==
    LET i == FindByLedgerID(T, l)
    IN  IF ~Removes(T, l) THEN T
        ELSE Compact(AddBranch([T EXCEPT ![i].tip = @ - 1], i, -1), i)

SupportAfter(l) ==
    [seqSupport EXCEPT ![LedgerSeq(l)] = IF Removes(nodes, l) THEN @ - 1 ELSE @]

InsertTip(v, l) ==
    LET prev == trieTips[v]
        T == IF prev = 0 THEN nodes ELSE RemoveLedger(nodes, prev)
        S == IF prev = 0 THEN seqSupport ELSE SupportAfter(prev)
    IN  /\ nodes' = Renumber(InsertLedger(T, l))
        /\ seqSupport' = [S EXCEPT ![LedgerSeq(l)] = @ + 1]
        /\ trieTips' = [trieTips EXCEPT ![v] = l]

RemoveTip(v) ==
    /\ trieTips[v] # 0
    /\ nodes' = Renumber(RemoveLedger(nodes, trieTips[v]))
    /\ seqSupport' = SupportAfter(trieTips[v])
    /\ trieTips' = [trieTips EXCEPT ![v] = 0]

-----------------------------------------------------------------------------
(* Queries *)

TipSupport(T, l) ==
    LET i == FindByLedgerID(T, l) IN IF i = NoNode THEN 0 ELSE T[i].tip

\* Mutant: a ledger that leaves the span early is taken for one inside it.
BranchSupportLoose(T, l) ==
    LET i == FindByLedgerID(T, l)
        j == Find(T, l)
    IN  IF i # NoNode THEN T[i].branch
        ELSE IF LedgerSeq(l) < T[j].end THEN T[j].branch
        ELSE 0

\* The node that ends at l, else the one whose span l lies inside.
BranchSupport(T, l) ==
    LET i == FindByLedgerID(T, l)
        j == Find(T, l)
    IN  IF i # NoNode THEN T[i].branch
        ELSE IF Diff(T[j], l) > LedgerSeq(l) /\ LedgerSeq(l) < T[j].end THEN T[j].branch
        ELSE 0

\* seqKeys is absorbed in order, so the uncommitted support is all the support
\* below the sequence `upto` reached so far.
Uncommitted(S, upto) ==
    FoldSet(LAMBDA s, acc : acc + S[s], 0, {s \in DOMAIN S : s < upto})

\* The loop over one span: <<nextSeq, upto>> when it stops.
RECURSIVE WalkSpan(_, _, _, _)
WalkSpan(S, n, nextSeq, upto) ==
    LET left == {s \in DOMAIN S : S[s] > 0 /\ s >= upto /\ s < n.end} IN
    IF nextSeq >= n.end \/ n.branch <= Uncommitted(S, upto) THEN <<nextSeq, upto>>
    ELSE IF left = {} THEN <<n.end, upto>>
    ELSE WalkSpan(S, n, Min(left) + 1, Min(left) + 1)

Outranks(a, b) ==
    \/ a.branch > b.branch
    \/ a.branch = b.branch /\ StartID(a) > StartID(b)

\* Positions of the best and the second best child: of equals the earlier one.
BestAt(T, kids, among) ==
    CHOOSE b \in among : \A k \in among \ {b} :
        \/ Outranks(T[kids[b]], T[kids[k]])
        \/ b < k /\ ~Outranks(T[kids[k]], T[kids[b]])

Swap(kids, a, b) == [kids EXCEPT ![a] = kids[b], ![b] = kids[a]]

\* The best child moves to the front and the second best behind it.
Ranked(T, kids) ==
    IF Len(kids) < 2 THEN kids
    ELSE LET b == BestAt(T, kids, DOMAIN kids)
             second == kids[BestAt(T, kids, DOMAIN kids \ {b})]
             front == Swap(kids, 1, b)
         IN  Swap(front, 2, SelectInSeq(front, LAMBDA c : c = second))

\* Mutant: no tie break by hash.
MarginNoTie(T, kids) ==
    IF Len(kids) = 1 THEN T[kids[1]].branch ELSE T[kids[1]].branch - T[kids[2]].branch

Margin(T, kids) ==
    IF Len(kids) = 1 THEN T[kids[1]].branch
    ELSE T[kids[1]].branch - T[kids[2]].branch
         + (IF StartID(T[kids[1]]) > StartID(T[kids[2]]) THEN 1 ELSE 0)

\* GetPreferred from node i: the answer and the trie with its children reordered.
RECURSIVE PreferredFrom(_, _, _, _, _)
PreferredFrom(T, S, i, largestIssued, upto) ==
    LET n == T[i]
        walked == WalkSpan(S, n, n.start + 1, Max({upto, largestIssued, n.start + 1}))
        u == Uncommitted(S, walked[2])
        kids == Ranked(T, n.kids)
        R == [T EXCEPT ![i].kids = kids]
    IN  IF walked[1] < n.end THEN [id |-> Ancestor(n.led, walked[1] - 1), trie |-> T]
        ELSE IF kids # <<>> /\ (Margin(T, kids) > u \/ u = 0)
             THEN PreferredFrom(R, S, kids[1], largestIssued, walked[2])
             ELSE [id |-> TipID(n), trie |-> R]

Preferred(T, S, largestIssued) == PreferredFrom(T, S, Root, largestIssued, 0)

GetPreferred(largestIssued) ==
    /\ nodes[Root].branch > 0
    /\ nodes' = Renumber(Preferred(nodes, seqSupport, largestIssued).trie)
    /\ UNCHANGED <<seqSupport, trieTips>>

-----------------------------------------------------------------------------

Init ==
    /\ nodes = [i \in {Root} |-> [start |-> 0, end |-> 1, led |-> 0, tip |-> 0, branch |-> 0,
                                  up |-> NoNode, kids |-> <<>>]]
    /\ seqSupport = [s \in 1..TopSeq |-> 0]
    /\ trieTips = [v \in Validators |-> 0]

Next ==
    \/ \E v \in Validators, l \in Ledgers : InsertTip(v, l)
    \/ \E v \in Validators : RemoveTip(v)
    \/ \E s \in Issued : GetPreferred(s)

Spec == Init /\ [][Next]_vars

-----------------------------------------------------------------------------
(* What the trie stands for, in terms of the validators' tips alone *)

IsAncestor(a, l) == a = 0 \/ (LedgerSeq(a) <= LedgerSeq(l) /\ History[l][LedgerSeq(a)] = a)
Tipped == {v \in Validators : trieTips[v] # 0}
Backers(a) == {v \in Tipped : IsAncestor(a, trieTips[v])}
Behind(s) == {v \in Tipped : LedgerSeq(trieTips[v]) < s}

\* The preferred ledger, one ledger at a time: from a go to the child whose lead
\* over every rival cannot be overturned by the validators not yet past a.
RECURSIVE StepwisePreferred(_, _)
StepwisePreferred(a, largestIssued) ==
    LET kids == {l \in Ledgers : LedgerSeq(l) = LedgerSeq(a) + 1 /\ IsAncestor(a, l) /\ Backers(l) # {}}
        votes(l) == Cardinality(Backers(l))
        beats(l, k) == votes(l) > votes(k) \/ (votes(l) = votes(k) /\ l > k)
        open == Cardinality(Behind(Max({largestIssued, LedgerSeq(a) + 1})))
        lead(l, k) == votes(l) - votes(k) + (IF l > k THEN 1 ELSE 0)
        safe(l) == \/ open = 0
                   \/ votes(l) > open /\ \A k \in kids \ {l} : lead(l, k) > open
        won == {l \in kids : safe(l) /\ \A k \in kids \ {l} : beats(l, k)}
    IN  IF won = {} THEN a ELSE StepwisePreferred(CHOOSE l \in won : TRUE, largestIssued)

-----------------------------------------------------------------------------
(* Properties *)

SumOver(f(_), D) == FoldSet(LAMBDA i, acc : f(i) + acc, 0, D)

\* The trie's own consistency check (CheckInvariants) holds after any sequence of
\* insertions, removals and reorderings: no useless node survives compaction, branch
\* support is conserved along every edge, parents and children agree, spans are
\* contiguous, and the sequence counters add up to the tips that end there.
CheckInvariants ==
    /\ \A i \in DOMAIN nodes : LET n == nodes[i] IN
        /\ n.start < n.end
        /\ i # Root => /\ n.tip > 0 \/ Len(n.kids) >= 2
                       /\ n.start = nodes[n.up].end
        /\ ToSet(n.kids) = {c \in DOMAIN nodes : nodes[c].up = i}
        /\ n.branch = n.tip + SumOver(LAMBDA k : nodes[n.kids[k]].branch, DOMAIN n.kids)
    /\ \A s \in DOMAIN seqSupport :
        seqSupport[s] = SumOver(LAMBDA i : nodes[i].tip, {i \in DOMAIN nodes : nodes[i].end = s + 1})

\* TipSupport and BranchSupport count the validators at and beyond every ledger,
\* whichever splits, merges and reorderings led to the present shape of the trie.
SupportExact ==
    \A l \in Ledgers :
        /\ TipSupport(nodes, l) = Cardinality({v \in Tipped : trieTips[v] = l})
        /\ BranchSupport(nodes, l) = Cardinality(Backers(l))

\* GetPreferred on the compressed trie answers what the ledger-by-ledger walk over
\* the plain set of tips answers, for every largest issued sequence.
PreferredExact ==
    Tipped # {} =>
        \A s \in 0..(TopSeq + 1) : Preferred(nodes, seqSupport, s).id = StepwisePreferred(0, s)
=============================================================================
