--------------------------- MODULE MCPeerManager ---------------------------
EXTENDS PeerManager

Caps(connections, range) ==
    [max_connections |-> connections, max_per_ip_range |-> range, peers |-> Peers,
     sessions |-> Sessions, time |-> 0, events |-> 0, crashes |-> 0, rewrites |-> FALSE]
One == {CHOOSE p \in Peers : TRUE}

\* Handshakes of two identities race for the last slot; two sessions of one
\* identity that misbehaves; one session, with a restart and a second writer of
\* network.json; the ladder of bans over time.
MCLimits ==
    {Caps(1, 2), Caps(2, 1),
     [Caps(2, 2) EXCEPT !.peers = One, !.events = 2],
     [Caps(2, 2) EXCEPT !.peers = One, !.sessions = {1}, !.time = 1, !.events = 2,
                        !.crashes = 1, !.rewrites = TRUE],
     [Caps(2, 2) EXCEPT !.peers = One, !.sessions = {}, !.time = 3, !.events = 4]}
=============================================================================
