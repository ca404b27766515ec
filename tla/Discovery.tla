----------------------------- MODULE Discovery -----------------------------
(***************************************************************************)
(* How peers come to know each other: the discovery server                 *)
(* (src/src/bin/discovery.rs) and the network task of every peer, which    *)
(* registers and asks for the peers once per interval (RestNetwork::run in *)
(* src/src/network/rest_network.rs).                                       *)
(*                                                                         *)
(* Time passes in intervals of TICK_DURATION.  A task does one check per   *)
(* interval, and is done with it when the interval ends unless a request   *)
(* got no answer.  An Instant of the server is the intervals passed since, *)
(* counted up to KeepAlive.                                                *)
(***************************************************************************)
EXTENDS Integers, FiniteSets

CONSTANTS
    Peers,
    KeepAlive,           \* KEEP_ALIVE in intervals: 20 s, 4 intervals
    NetworkCheckTries,   \* NETWORK_CHECK_TRIES: 5 in the code
    MaxFaults,           \* bound: crashes, server restarts and lost requests
    Steady               \* successful checks in a row that make a peer steady

VARIABLES
    registry,   \* known_peers of the server: the age of each registration
    net,        \* the network of each peer
    due,        \* peers whose interval has ticked
    streak,     \* history: each peer's successful checks in a row, up to Steady
    faults      \* crashes, server restarts and lost requests so far

vars == <<registry, net, due, streak, faults>>

ASSUME DiscoveryAssumption ==
    /\ KeepAlive \in Nat \ {0}
    /\ NetworkCheckTries \in Nat \ {0}
    /\ MaxFaults \in Nat
    /\ Steady \in Nat

IsRegistry(reg) ==
    DOMAIN reg \subseteq Peers /\ \A p \in DOMAIN reg : reg[p] \in 0 .. KeepAlive

\* task: of run, "down" when the peer is not running; check: how far it has
\* come; copy: what the get_peers handler is to write back; answer: the peers
\* the handler answers.
NewNetwork ==
    [task |-> "running", check |-> "none", copy |-> << >>, answer |-> {},
     known |-> {}, failedChecks |-> 0]

\* The peers whose network task is at work.
Active == {p \in Peers : net[p].task = "running"}

Init ==
    /\ registry = << >>
    /\ net = [p \in Peers |-> NewNetwork]
    /\ due = Peers
    /\ streak = [p \in Peers |-> 0]
    /\ faults = 0

\* An interval passes; every task but those waiting for a lost request has
\* done its check.
Tick ==
    /\ \A p \in Active : \/ net[p].check = "lost"
                         \/ net[p].check = "none" /\ p \notin due
    /\ registry' = [p \in DOMAIN registry |->
          IF registry[p] < KeepAlive THEN registry[p] + 1 ELSE KeepAlive]
    /\ due' = Active
    /\ UNCHANGED <<net, streak, faults>>

\* The interval of p ticks and run goes on to a check.
MayCheck(p) ==
    /\ p \in Active \cap due
    /\ net[p].check = "none"
    /\ net[p].failedChecks < NetworkCheckTries

\* Faulty variant: the first registration counts.
RegisterOnce(p) ==
    /\ MayCheck(p)
    /\ registry' = [q \in DOMAIN registry \cup {p} |->
          IF q \in DOMAIN registry THEN registry[q] ELSE 0]
    /\ due' = due \ {p}
    /\ net' = [net EXCEPT ![p].check = "registered"]
    /\ UNCHANGED <<streak, faults>>

\* register_peer
RegisterPeer(p) ==
    /\ MayCheck(p)
    /\ registry' = [q \in DOMAIN registry \cup {p} |->
          IF q = p THEN 0 ELSE registry[q]]
    /\ due' = due \ {p}
    /\ net' = [net EXCEPT ![p].check = "registered"]
    /\ UNCHANGED <<streak, faults>>

\* Faulty variant: all of them.
Unfiltered == registry

\* The registrations get_peers keeps.
Filtered ==
    [q \in {r \in DOMAIN registry : registry[r] < KeepAlive} |-> registry[q]]

\* get_peers under the read lock.  It comes back for the write lock if some
\* registration has expired.
GetPeers(p) ==
    LET clean == DOMAIN Filtered = DOMAIN registry
    IN  /\ net[p].check = "registered"
        /\ net' = [net EXCEPT ![p].check = IF clean THEN "answered" ELSE "writing",
                              ![p].copy = IF clean THEN << >> ELSE Filtered,
                              ![p].answer = DOMAIN Filtered]
        /\ UNCHANGED <<registry, due, streak, faults>>

\* get_peers under the write lock: the copy replaces whatever is there.
WriteBack(p) ==
    /\ net[p].check = "writing"
    /\ registry' = net[p].copy
    /\ net' = [net EXCEPT ![p].check = "answered", ![p].copy = << >>]
    /\ UNCHANGED <<due, streak, faults>>

\* Faulty variant: a peer may know itself.
UpdatePeersAndSelf(p) ==
    /\ net[p].check = "answered"
    /\ net' = [net EXCEPT ![p] = [NewNetwork EXCEPT !.known = net[p].answer]]
    /\ streak' = [streak EXCEPT ![p] = IF @ < Steady THEN @ + 1 ELSE Steady]
    /\ UNCHANGED <<registry, due, faults>>

\* update_peers, and the Ok branch of run.
UpdatePeers(p) ==
    /\ net[p].check = "answered"
    /\ net' = [net EXCEPT ![p] =
          [NewNetwork EXCEPT !.known = net[p].answer \ {p}]]
    /\ streak' = [streak EXCEPT ![p] = IF @ < Steady THEN @ + 1 ELSE Steady]
    /\ UNCHANGED <<registry, due, faults>>

\* A request to the server, or its answer, gets lost.  A handler whose client
\* has gone is dropped.
LoseRequest(p) ==
    /\ MayCheck(p) \/ net[p].check \in {"registered", "writing", "answered"}
    /\ faults < MaxFaults
    /\ faults' = faults + 1
    /\ net' = [net EXCEPT ![p].check = "lost", ![p].copy = << >>, ![p].answer = {}]
    /\ due' = due \ {p}
    /\ streak' = [streak EXCEPT ![p] = 0]
    /\ UNCHANGED registry

\* The Err branch of run, any number of intervals later: REQUEST_TIMEOUT is
\* longer than KEEP_ALIVE.
FailCheck(p) ==
    /\ net[p].check = "lost"
    /\ net' = [net EXCEPT ![p].check = "none", ![p].failedChecks = @ + 1]
    /\ UNCHANGED <<registry, due, streak, faults>>

\* run returns; the rest of the peer goes on without it.
GiveUp(p) ==
    /\ p \in Active \cap due
    /\ net[p].check = "none"
    /\ net[p].failedChecks >= NetworkCheckTries
    /\ net' = [net EXCEPT ![p].task = "stopped"]
    /\ due' = due \ {p}
    /\ UNCHANGED <<registry, streak, faults>>
----------------------------------------------------------------------------
(* Crashes.                                                                *)

\* The process of p ends, and with it all p knew.
Crash(p) ==
    /\ net[p].task # "down"
    /\ faults < MaxFaults
    /\ faults' = faults + 1
    /\ net' = [net EXCEPT ![p] = [NewNetwork EXCEPT !.task = "down"]]
    /\ due' = due \ {p}
    /\ streak' = [streak EXCEPT ![p] = 0]
    /\ UNCHANGED registry

\* The first tick of an interval is at once.
Start(p) ==
    /\ net[p].task = "down"
    /\ net' = [net EXCEPT ![p] = NewNetwork]
    /\ due' = due \cup {p}
    /\ UNCHANGED <<registry, streak, faults>>

\* The server comes back empty; its handlers are gone.
RestartServer ==
    /\ faults < MaxFaults
    /\ faults' = faults + 1
    /\ registry' = << >>
    /\ net' = [p \in Peers |->
          IF net[p].check = "writing"
          THEN [net[p] EXCEPT !.check = "lost", !.copy = << >>, !.answer = {}]
          ELSE net[p]]
    /\ streak' = [p \in Peers |-> 0]
    /\ UNCHANGED due

TaskStep(p) ==
    \/ RegisterPeer(p)
    \/ GetPeers(p)
    \/ WriteBack(p)
    \/ UpdatePeers(p)
    \/ FailCheck(p)
    \/ GiveUp(p)

Next ==
    \/ Tick
    \/ RestartServer
    \/ \E p \in Peers : TaskStep(p) \/ LoseRequest(p) \/ Crash(p) \/ Start(p)

\* Time passes, and tasks go on.  Whether a crashed peer is started again is left
\* open.
Fairness == WF_vars(Tick) /\ \A p \in Peers : WF_vars(TaskStep(p))

Spec == Init /\ [][Next]_vars /\ Fairness
----------------------------------------------------------------------------
(* Properties.                                                             *)

\* Every variable keeps its type; only a task that is at work has a tick to
\* use or a check under way.
TypeOK ==
    /\ IsRegistry(registry)
    /\ due \subseteq Active
    /\ streak \in [Peers -> 0 .. Steady]
    /\ DOMAIN net = Peers
    /\ \A p \in Peers :
          /\ net[p].task \in {"running", "stopped", "down"}
          /\ net[p].check \in {"none", "registered", "writing", "answered", "lost"}
          /\ net[p].check # "none" => net[p].task = "running"
          /\ IsRegistry(net[p].copy)
          /\ net[p].answer \subseteq Peers
          /\ net[p].known \subseteq Peers \ {p}
          /\ net[p].failedChecks \in 0 .. NetworkCheckTries

\* Only inactive peers expire: a peer whose last checks succeeded, Steady of
\* them, is dropped from nobody's known peers, although a get_peers that finds
\* some other registration expired writes back a copy older than the
\* registrations made meanwhile.  Every peer that expires may cost another one
\* such registration, and an answer under way may miss one more.
ActivePeersStayKnown ==
    [][\A p, q \in Peers :
          q \in net[p].known \ net'[p].known =>
              net'[p].task = "down" \/ streak[q] < Steady]_vars

\* When crashes and losses stop, the views settle: every peer whose network
\* task is at work knows exactly the other such peers, so all count majorities
\* of one set again.
ViewsSettle ==
    <>[](\A p \in Active : net[p].known = Active \ {p})
=============================================================================
