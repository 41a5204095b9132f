-------------------------------- MODULE MCNode --------------------------------
(***************************************************************************)
(* Small instances of Node.  A behaviour follows one scenario: what each   *)
(* client may send in turn, and whether pings and the shutdown signal      *)
(* occur.  The origin of a relayed transaction is the client that sent it. *)
(***************************************************************************)
EXTENDS NodeProperties, TLC

CONSTANTS
  p1, p2,
  Scenarios    \* the scenarios of a run

VARIABLE scenario

MCPeer == {p1, p2}
OnePeer == {p1}

Query(known) == [type |-> "GetAccountState", known |-> known]
Relay(p)     == [type |-> "Transactions", origin |-> p]
Requests     == {Msg("NewBlock"), Query(TRUE), Msg("GetChainHead")}

\* One client works with the node while another one is connected and
\* silent.
Working ==
  [script |-> (p1 :> <<{Status(TRUE)}, Requests, Requests,
                       Requests \ {Msg("NewBlock")}>>)
           @@ (p2 :> << >>),
   ticks |-> 0, stop |-> FALSE]

\* A client that may break the protocol, and one that relays.
Unruly ==
  [script |-> (p1 :> <<{Status(TRUE), Status(FALSE), Msg("Ping")},
                       {Status(TRUE), Msg("Undecodable"), Msg("Ping"),
                        Relay(p1)}>>)
           @@ (p2 :> <<{Status(TRUE)}, {Relay(p2), Msg("Undecodable")}>>),
   ticks |-> 1, stop |-> FALSE]

\* Shutdown while a request is under way.
Stopping ==
  [script |-> (p1 :> <<{Status(TRUE)}, {Msg("NewBlock"), Query(TRUE)}>>)
           @@ (p2 :> <<{Status(TRUE)}>>),
   ticks |-> 0, stop |-> TRUE]

\* A single client that reads all its answers.
Asking ==
  [script |-> p1 :> <<{Status(TRUE)},
                      {Msg("NewBlock"), Query(TRUE), Query(FALSE)},
                      {Msg("GetChainHead"), Query(TRUE), Msg("Ignored")},
                      {Msg("Ping"), Query(TRUE)}>>,
   ticks |-> 0, stop |-> FALSE]

\* As Stopping, with a second client that says nothing.
Leaving ==
  [script |-> (p1 :> <<{Status(TRUE)}, {Msg("NewBlock"), Query(TRUE)}>>)
           @@ (p2 :> << >>),
   ticks |-> 0, stop |-> TRUE]

\* One client that sends more than the channels of one place hold.
Pressing ==
  [script |-> p1 :> <<{Status(TRUE)}>> \o [i \in 1..4 |-> {Msg("GetChainHead")}],
   ticks |-> 0, stop |-> TRUE]

\* One client that says hello and stays.
Staying ==
  [script |-> p1 :> <<{Status(TRUE)}>>, ticks |-> 0, stop |-> TRUE]

Safety   == {Working, Unruly, Stopping}
Progress == {Asking, Leaving}
Pressure == {Pressing}
Patience == {Staying}

\* What some scenario lets a client send.
MCScript ==
  [p \in Peer |->
     [i \in 1..5 |-> UNION {s.script[p][i] : s \in
        {t \in Scenarios : p \in DOMAIN t.script /\ i <= Len(t.script[p])}}]]

\* Only clients that have a script connect.
Follows ==
  /\ ticks <= scenario.ticks
  /\ shutdown => scenario.stop
  /\ \A p \in Peer : client[p] # "absent" =>
       /\ p \in DOMAIN scenario.script
       /\ Len(sent[p]) <= Len(scenario.script[p])
       /\ \A i \in DOMAIN sent[p] : sent[p][i] \in scenario.script[p][i]

MCInit == Init /\ scenario \in Scenarios
MCNext == Next /\ UNCHANGED scenario /\ Follows'
MCSpec == MCInit /\ [][MCNext]_<<vars, scenario>>

\* Tasks that are polled and clients that read; no scenario withholds their
\* steps.
MCReaders == MCSpec /\ TaskFairness /\ \A p \in Peer : WF_vars(Reads(p))

\* Where the node is to stop, its clients close some time.
MCLeavers ==
  MCReaders /\ \A p \in Peer : WF_vars(scenario.stop /\ Closes(p))

=============================================================================
