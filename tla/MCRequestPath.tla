---------------------------- MODULE MCRequestPath ----------------------------
EXTENDS RequestPath, TLC

CONSTANTS a, b, f, t1, t2, q1, q2

\* A capacity above one, none asked for or refused, and one TLS does not send;
\* a service the firewall forbids; and two taps at a time.
ModelSetups == {
    [proto |-> "udp", fallback |-> None, capacities |-> {2},
     actors |-> {a, t1}, others |-> {}],
    [proto |-> "tcp", fallback |-> f, capacities |-> {-1, 0},
     actors |-> {a, t1}, others |-> {b}],
    [proto |-> "tls", fallback |-> None, capacities |-> {2},
     actors |-> {a}, others |-> {}],
    [proto |-> "tls", fallback |-> None, capacities |-> {},
     actors |-> {t1}, others |-> {a, b}],
    [proto |-> "tcp", fallback |-> None, capacities |-> {},
     actors |-> {t1, t2}, others |-> {a}]}

CallNames == Permutations(Calls)
=============================================================================
