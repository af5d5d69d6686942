------------------------ MODULE MCValidationTracker ------------------------
(* Instances of ValidationTracker.  Each group of definitions is one instance: *)
(* it drives the part of the tracker its run is about and leaves out inputs    *)
(* that only multiply states.                                                  *)
EXTENDS ValidationTracker, TLC

Vote(n, l, sign) ==
    [node |-> n, ledger |-> l, seq |-> LedgerSeq[l], sign |-> sign,
     full |-> TRUE, cookie |-> 0]
Config(trusted, quorum, negUNL) ==
    [trusted |-> trusted, quorum |-> quorum, negUNL |-> negUNL]
ThreadSymmetry == Permutations(Threads)

\* Finality: one ledger.  In one configuration the first validator decides, in the
\* other it is on the negative UNL and the second one, newly trusted, decides.
FinSeq == <<2>>
FinHash == <<[s \in {2} |-> 1]>>
FinMessages == {Vote(1, 1, 2), Vote(2, 1, 2)}
FinConfigs == {Config({1}, 1, {}), Config({1, 2}, 1, {1})}

\* Double signing: validator 1 signs two ledgers of sequence 2, within and beyond
\* the life of its sequence floor; validator 2 does so in two signing windows.
DblSeq == <<2, 2>>
DblHash == [l \in 1..2 |-> [s \in {2} |-> l]]
DblMessages == {Vote(1, 1, 1), Vote(1, 2, 2), Vote(1, 2, 7), Vote(2, 1, 1), Vote(2, 2, 4)}
DblConfigs == {Config({}, 1, {})}

\* Retention: sequence 2 falls below the floor of sequence 3's callback while its
\* set is pinned, hot or cold; one validation claims a wrong sequence for its ledger.
\* Ledger 2, whose publication is attempted, conflicts with ledger 1 at both.
RetSeq == <<2, 3>>
RetHash == [l \in 1..2 |-> [s \in {2, 3} |-> l]]
RetMessages == {Vote(1, 1, 1), Vote(1, 2, 4), [Vote(1, 1, 1) EXCEPT !.seq = 3]}
RetConfigs == {Config({1}, 1, {})}
RetPins == {<<2, 3>>, <<0, 0>>}
=============================================================================
