---------------------------- MODULE MCJwkIndex ----------------------------
(* JwkIndex for TLC. *)
EXTENDS JwkIndex

CONSTANTS k1, k2

Jwk(kid, use, ops, alg, kty, valid) ==
    [kid |-> kid, use |-> use, ops |-> ops, alg |-> alg, kty |-> kty, valid |-> valid]

\* Keys that only kid, alg, type and validity tell apart, and for one kid the
\* ones that their metadata keeps from being used, or lets through.
SomeJwks ==
    {Jwk(kid, Null, Null, alg, "RSA", valid) :
        kid \in {k1, k2}, alg \in {Null, "PS256"}, valid \in BOOLEAN}
    \cup {Jwk(k1, Null, Null, Null, "EC", valid) : valid \in BOOLEAN}
    \cup {Jwk(Null, Null, Null, Null, "RSA", FALSE),
          Jwk(k1, "enc", Null, Null, "RSA", FALSE),
          Jwk(k1, Null, {"sign"}, Null, "RSA", FALSE),
          Jwk(k1, "sig", {"sign", "verify"}, "RS256", "RSA", TRUE),
          Jwk(k1, Null, Null, "other", "RSA", FALSE),
          Jwk(k1, Null, Null, Null, "oct", FALSE)}
===========================================================================
