---- MODULE MCPrimes ----
(* Every bound from below zero to beyond the squares of the first divisors. *)
EXTENDS Primes

MCBounds == -2..IntMax
=============================================================================
