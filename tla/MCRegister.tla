----------------------------- MODULE MCRegister -----------------------------
(* An instance of Register for TLC. *)
EXTENDS Register, TLC

CONSTANTS w1, ip1, ip2, lo

Address(ip) == [ip |-> ip, loopback |-> FALSE, v4 |-> TRUE]
Loopback == [ip |-> lo, loopback |-> TRUE, v4 |-> TRUE]
IPv6(ip) == [ip |-> ip, loopback |-> FALSE, v4 |-> FALSE]

\* The cards of the worker: the loopback, an IPv6 address, two IPv4 addresses.
Single == w1 :> <<Loopback, IPv6(ip2), Address(ip1), Address(ip2)>>
=============================================================================
