--------------------------- MODULE MCPeerLedger ----------------------------
(* Small instances of PeerLedger for TLC. *)
EXTENDS PeerLedger

CONSTANTS alice, bob, carol, btc, usdt

AddCoin(id, user, amount, asset) ==
    [id |-> id, operation |-> "AddCoin", from |-> user, to |-> user,
     amount |-> amount, asset |-> asset]

Send(id, user, to, amount, asset) ==
    [id |-> id, operation |-> "Send", from |-> user, to |-> to,
     amount |-> amount, asset |-> asset]

\* Coins for alice go to bob and on to carol, and bob gets another asset.  The
\* ids do not follow the order in which the transactions depend on each other.
ChainedTxs ==
    {AddCoin(3, alice, 2, btc), Send(1, alice, bob, 2, btc),
     Send(2, bob, carol, 1, btc), AddCoin(4, bob, 1, usdt)}
=============================================================================
