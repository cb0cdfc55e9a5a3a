---------------------------- MODULE MCTCPSocket -----------------------------
(* Small instances of TCPSocket for TLC. *)
EXTENDS TCPSocket, TLC

CONSTANTS s1, s2

OneSocket  == {s1}
TwoSockets == {s1, s2}

OneFd    == {3}
TwoFds   == {3, 4}
ThreeFds == {3, 4, 5}

\* The two sockets are interchangeable.
SocketSymmetry == Permutations(TwoSockets)
=============================================================================
