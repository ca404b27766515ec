--------------------------- MODULE MCVotingSync ----------------------------
(* Small instances of VotingSync for TLC. *)
EXTENDS VotingSync, MCVoting, SequencesExt

B1      == [hash |-> <<{t1, t2}>>, index |-> 1]
B2      == [hash |-> <<{t1, t2}, {t1, t3}>>, index |-> 2]
B2Other == [hash |-> <<{t1, t2}, {t2, t3}>>, index |-> 2]

\* Discovery still reports d, which is down, or has dropped it, or reports
\* nobody else.
ExpiringViews == {Peers, Peers \ Down, {c}}

\* c is new; a and b have committed one or two blocks, the second not always
\* the same (the other cases exchange a and b, or t1 and t2).  They have
\* restarted since.
Joining ==
    /\ known = [p \in Peers |-> Peers \ {p}]
    /\ votings = [p \in Peers |-> << >>]
    /\ \E chains \in {<<<<B1>>, <<B1>>>>, <<<<B1>>, <<B1, B2>>>>,
                       <<<<B1, B2>>, <<B1, B2>>>>, <<<<B1, B2>>, <<B1, B2Other>>>>} :
          store = [p \in Peers |-> OpenStore(CASE p = a -> chains[1]
                                               [] p = b -> chains[2]
                                               [] OTHER -> << >>)]
    /\ lastCompleted = [p \in Peers |-> EmptyHash]
    /\ msgs = {}
    /\ submissions = 0
    /\ sync = [p \in Peers |-> NoSync]
    /\ restarts = 0

JoiningSpec == Joining /\ [][SyncNext]_syncVars /\ SyncFairness(c)

\* The blocks that all other running peers have at the same place.
Available(p) ==
    LET others == Peers \ (Down \cup {p})
        q      == CHOOSE r \in others : TRUE
        same   == {i \in DOMAIN store[q].chain :
                      \A r \in others : /\ i \in DOMAIN store[r].chain
                                       /\ store[r].chain[i] = store[q].chain[i]}
    IN  SubSeq(store[q].chain, 1,
               Max({i \in 0 .. Len(store[q].chain) : 1 .. i \subseteq same}))

\* p retrieves the blocks it misses, whatever rounds failed before: if from some
\* time on p sees the other running peers and only those, did not panic and has
\* not committed blocks of its own instead, it gets every block all the others
\* have.
CatchesUp(p) ==
    <>[](/\ known[p] = Peers \ (Down \cup {p})
         /\ sync[p].phase # "panicked"
         /\ \/ IsPrefix(store[p].chain, Available(p))
            \/ IsPrefix(Available(p), store[p].chain))
        => <>[]IsPrefix(Available(p), store[p].chain)

\* The peer that joins catches up (check_and_retrieve_missing_blocks).
JoinerCatchesUp == CatchesUp(c)
=============================================================================
