----------------------------- MODULE MCTcpChannel -----------------------------
\* Small instances of TcpChannel for TLC.
EXTENDS TcpChannel, TLC

CONSTANTS ServerMessages, ClientMessages

MessagesMade ==
    [e \in Endpoint |-> IF e = Server THEN ServerMessages ELSE ClientMessages]

\* Clients are told apart by nothing but their address.
Symmetric == Permutations(Client)
=============================================================================
