----------------------------- MODULE MCSessions -----------------------------
(* A small instance of Sessions; requests, passwords and addresses are     *)
(* interchangeable, and one address fills the table of attempts.           *)
EXTENDS Sessions, TLC

Symmetry ==
    Permutations(Requests) \cup Permutations(Passwords) \cup Permutations(Addrs)
=============================================================================
