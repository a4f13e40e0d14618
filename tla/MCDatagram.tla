------------------------------ MODULE MCDatagram ------------------------------
EXTENDS Datagram

\* Nobody is at the first address of the remote (as at its IPv6 address when the
\* server was bound with AF_INET), the server at the second.
MCAddresses == <<9, 0>>
=============================================================================
