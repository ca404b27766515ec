---------------------------- MODULE RaftRestart ----------------------------
(***************************************************************************)
(* Raft with peers that crash and start again.  The log and the commit     *)
(* index are on disk (raft_log_store.rs), saved inside the handler that    *)
(* changes them and before its effects run; so are the block files.  All   *)
(* else is gone: term, vote, participants, match indexes, the mempool, the *)
(* staged blocks and the applied transactions.                             *)
(***************************************************************************)
EXTENDS Raft

CONSTANT MaxRestarts   \* bound: crashes of all peers together

VARIABLE restarts

ASSUME MaxRestartsAssumption == MaxRestarts \in Nat

restartVars == <<vars, restarts>>

RestartInit == Init /\ restarts = 0

\* run_peer builds the engine with new_with_log from the saved state.
Reboot(p) ==
    /\ restarts < MaxRestarts
    /\ restarts' = restarts + 1
    /\ participants' = [participants EXCEPT ![p] = {p}]
    /\ currentTerm' = [currentTerm EXCEPT ![p] = 0]
    /\ votedFor' = [votedFor EXCEPT ![p] = None]
    /\ leaderId' = [leaderId EXCEPT ![p] = None]
    /\ role' = [role EXCEPT ![p] = "Follower"]
    /\ votesReceived' = [votesReceived EXCEPT ![p] = {}]
    /\ matchIndexes' = [matchIndexes EXCEPT ![p] = [q \in Peers |-> 0]]
    /\ UNCHANGED known

\* A crash between two handlers.
Restart(p) ==
    /\ Reboot(p)
    /\ store' = [store EXCEPT ![p] = OpenStore(store[p].chain)]
    /\ UNCHANGED <<log, commitIndex, msgs>>

\* Faulty variant: the commit index is saved after the effects.
CrashBeforeSave(p, m, lg, commit, s) ==
    /\ Reboot(p)
    /\ log' = [log EXCEPT ![p] = lg]
    /\ \E n \in Len(store[p].chain) .. Len(s.chain) :
          store' = [store EXCEPT ![p] = OpenStore(SubSeq(s.chain, 1, n))]
    /\ Exchange({m}, {})
    /\ UNCHANGED commitIndex

\* A crash after the handler saved lg and commit, when some first part of its
\* CommitBlock effects had written their files.  s is a store all effects
\* could have led to.
CrashInEffects(p, m, lg, commit, s) ==
    /\ Reboot(p)
    /\ log' = [log EXCEPT ![p] = lg]
    /\ commitIndex' = [commitIndex EXCEPT ![p] = commit]
    /\ \E n \in Len(store[p].chain) .. Len(s.chain) :
          store' = [store EXCEPT ![p] = OpenStore(SubSeq(s.chain, 1, n))]
    /\ Exchange({m}, {})

\* A follower crashes while it takes entries; the answer was not sent.
CrashInAppend(p, m) ==
    LET lg     == AppendedLog(log[p], m)
        commit == FollowerCommit(p, m, lg)
    IN  /\ m.type = "AppendEntries"
        /\ m.to = p
        /\ \E timedOut \in BOOLEAN : AcceptsLeader(p, m, timedOut)
        /\ CanAppend(p, m)
        /\ \E s \in FollowerEffects(p, m, lg, commit) :
              CrashInEffects(p, m, lg, commit, s)

\* A leader crashes while it commits what an answer completed.
CrashInCommit(p, m) ==
    LET match  == [matchIndexes[p] EXCEPT ![m.from] = MaxOf(@, m.matchIndex)]
        commit == AdvancedCommitIndex(p, participants[p], currentTerm[p],
                                      log[p], match)
    IN  /\ m.type = "AppendEntriesResponse"
        /\ m.to = p
        /\ CountsAnswer(p, m)
        /\ m.success
        /\ CrashInEffects(p, m, log[p], commit,
               ExecuteCommits(store[p],
                   BlocksBetween(log[p], commitIndex[p], commit)))

RestartNext ==
    \/ Next /\ UNCHANGED restarts
    \/ \E p \in Peers :
          \/ Restart(p)
          \/ \E m \in msgs : CrashInAppend(p, m) \/ CrashInCommit(p, m)

RestartSpec == RestartInit /\ [][RestartNext]_restartVars
----------------------------------------------------------------------------
\* A crash takes back no commit either: no peer forgets or replaces an entry
\* it saved as committed, although after a restart it may follow a leader of
\* an older term than before, or vote twice in one.
CommitsSurvive ==
    [][\A p \in Peers :
          /\ commitIndex'[p] >= commitIndex[p]
          /\ SubSeq(log'[p], 1, commitIndex[p]) =
                SubSeq(log[p], 1, commitIndex[p])]_restartVars

\* A block file is on disk only if the saved log records its block as
\* committed: the log is saved before the file is written.
FilesAreRecorded ==
    \A p \in Peers : \A i \in DOMAIN store[p].chain :
        \E j \in 1 .. commitIndex[p] : log[p][j].hash = store[p].chain[i].hash
=============================================================================
