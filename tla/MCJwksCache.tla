---------------------------- MODULE MCJwksCache ----------------------------
(* JwksCache for TLC. *)
EXTENDS JwksCache, TLC

\* One good token per key, living one and two units; one with a signature
\* that does not verify, one that has expired and one that lives too long.
Token(k, signer, iat, exp) == [kid |-> k, signer |-> signer, iat |-> iat, exp |-> exp]

OneKey == CHOOSE k \in Keys : TRUE

AllTokens ==
    {Token(k, k, 0, 1) : k \in Keys}
    \cup {Token(OneKey, k, 0, 1) : k \in Keys \ {OneKey}}
    \cup {Token(OneKey, OneKey, -3, -2), Token(OneKey, OneKey, -1, 2)}

GoodTokens == {Token(k, k, 0, 1) : k \in Keys}

Symmetry == Permutations(Requests)
============================================================================
