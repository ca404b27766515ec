----------------------------- MODULE DecidedLog ----------------------------
(***************************************************************************)
(* What consensus promises, without terms, votes, leaders or messages: the *)
(* peers agree on one sequence of entries.  The sequence only grows; every *)
(* peer knows some beginning of it, and what a peer knows it never takes   *)
(* back.                                                                   *)
(***************************************************************************)
EXTENDS Integers, SequencesExt

CONSTANTS Peers, Entry

VARIABLES
    decided,   \* the sequence
    learned    \* the beginning of it each peer knows

vars == <<decided, learned>>

Init ==
    /\ decided = << >>
    /\ learned = [p \in Peers |-> << >>]

\* Entries are decided, and p is the first to know.
Decide(p) ==
    /\ decided' \in Seq(Entry)
    /\ IsStrictPrefix(decided, decided')
    /\ learned' = [learned EXCEPT ![p] = decided']

\* p learns of entries decided before.
Learn(p) ==
    /\ \E n \in Len(learned[p]) + 1 .. Len(decided) :
          learned' = [learned EXCEPT ![p] = SubSeq(decided, 1, n)]
    /\ UNCHANGED decided

Next == \E p \in Peers : Decide(p) \/ Learn(p)

Spec == Init /\ [][Next]_vars
=============================================================================
