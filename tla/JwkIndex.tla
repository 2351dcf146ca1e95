----------------------------- MODULE JwkIndex -----------------------------
(***************************************************************************)
(* The index of verification keys: parse_algorithms, index_keys and        *)
(* key_is_usable of src/src/infrastructure/oidc/mod.rs.                    *)
(*                                                                         *)
(* index_keys walks the provider's document in order and, for each key,    *)
(* the allowed algorithms in the order of a HashSet, which is any order.   *)
(* A key is decoded when it is first needed; one that cannot be decoded    *)
(* fails the whole document.  Here a step is one turn of the inner loop.   *)
(* A decoded key is known by its position in the document.                 *)
(***************************************************************************)
EXTENDS Naturals, Sequences

CONSTANTS
    Null,           \* a member the JWK does not have
    Kids,           \* non-empty key ids
    Jwks,           \* keys a provider may publish
    Configurable,   \* names OIDC_ALLOWED_ALGORITHMS may hold
    MaxKeys         \* BOUND: length of a document

VARIABLES
    allowed,        \* the HashSet<Algorithm>
    doc,            \* JwkSet.keys
    pos,            \* the key the outer loop is at; 0 before it
    todo,           \* algorithms the inner loop has not seen
    decoded,        \* decoding_key is Some
    index,          \* algorithm -> kid -> position of its key, 0 if none
    result          \* of index_keys

vars == <<allowed, doc, pos, todo, decoded, index, result>>

ASSUME IndexConstants ==
    /\ Null \notin Kids
    /\ MaxKeys \in Nat
    /\ \A key \in Jwks : key.kid \in Kids \cup {Null}

-----------------------------------------------------------------------------
Asymmetric == {"RS256", "RS384", "RS512", "PS256", "PS384", "PS512", "ES256", "ES384", "EdDSA"}

\* An unsupported or symmetric name refuses the list, and so does an empty one:
\* {} stands for the error.
ParseAlgorithms(values) == IF values \subseteq Asymmetric THEN values ELSE {}

TypeFor(algorithm) ==
    CASE algorithm \in {"ES256", "ES384"} -> "EC"
      [] algorithm = "EdDSA"              -> "OKP"
      [] OTHER                            -> "RSA"

KeyIsUsable(key, algorithm) ==
    /\ key.use \in {Null, "sig"}
    /\ key.ops = Null \/ "verify" \in key.ops
    /\ key.alg \in {Null, algorithm}
    /\ key.kty = TypeFor(algorithm)

-----------------------------------------------------------------------------
Key == doc[pos]

Documents == UNION {[1 .. n -> Jwks] : n \in 0 .. MaxKeys}

Init ==
    /\ \E values \in SUBSET Configurable : allowed = ParseAlgorithms(values)
    /\ allowed # {}
    /\ doc \in Documents
    /\ pos = 0
    /\ todo = {}
    /\ decoded = FALSE
    /\ index = [a \in allowed |-> [k \in Kids |-> 0]]
    /\ result = "running"

\* The outer loop turns to the next key; one without a kid is skipped.
NextKey ==
    /\ result = "running" /\ todo = {} /\ pos < Len(doc)
    /\ pos' = pos + 1
    /\ todo' = IF doc[pos + 1].kid = Null THEN {} ELSE allowed
    /\ decoded' = FALSE
    /\ UNCHANGED <<allowed, doc, index, result>>

\* MUTANT of Selects: a later key replaces an earlier one.
SelectsLast(a) == KeyIsUsable(Key, a)

\* First match: an earlier key with this kid shadows the key for algorithm a.
Selects(a) == KeyIsUsable(Key, a) /\ index[a][Key.kid] = 0

\* MUTANT of NeedsDecoding: every key that is looked at is decoded.
NeedsDecodingAlways(a) == ~decoded

\* DecodingKey::from_jwk runs once, for a key that some algorithm selects.
NeedsDecoding(a) == Selects(a) /\ ~decoded

\* One turn of the inner loop.
TryAlgorithm(a) ==
    /\ result = "running" /\ a \in todo
    /\ IF NeedsDecoding(a) /\ ~Key.valid
       THEN /\ result' = "invalid"
            /\ UNCHANGED <<todo, decoded, index>>
       ELSE /\ todo' = todo \ {a}
            /\ decoded' = (decoded \/ NeedsDecoding(a))
            /\ index' = IF Selects(a) THEN [index EXCEPT ![a][Key.kid] = pos] ELSE index
            /\ UNCHANGED result
    /\ UNCHANGED <<allowed, doc, pos>>

\* ensure!(!index.is_empty()).
Finish ==
    /\ result = "running" /\ todo = {} /\ pos = Len(doc)
    /\ result' = IF \A a \in allowed, k \in Kids : index[a][k] = 0 THEN "empty" ELSE "ok"
    /\ UNCHANGED <<allowed, doc, pos, todo, decoded, index>>

\* The caller has its answer.
Returned == result # "running" /\ UNCHANGED vars

Next == NextKey \/ (\E a \in todo : TryAlgorithm(a)) \/ Finish \/ Returned

Spec == Init /\ [][Next]_vars

-----------------------------------------------------------------------------
(* Properties. *)

\* TYPE.  No symmetric algorithm gets in.
TypeOK ==
    /\ allowed \subseteq Asymmetric
    /\ doc \in Seq(Jwks)
    /\ pos \in 0 .. Len(doc)
    /\ todo \subseteq allowed
    /\ decoded \in BOOLEAN
    /\ index \in [allowed -> [Kids -> 0 .. Len(doc)]]
    /\ result \in {"running", "ok", "invalid", "empty"}

\* The reference: the keys of the document that match (algorithm, kid).
Matches(a, k) == {p \in 1 .. Len(doc) : doc[p].kid = k /\ KeyIsUsable(doc[p], a)}

First(S) == IF S = {} THEN 0 ELSE CHOOSE p \in S : \A q \in S : p <= q

\* index_keys: the index holds, for each algorithm and kid, the first key of
\* the document that matches both, in whatever order the HashSet iterates.
IndexIsFirstMatch ==
    result = "ok" => \A a \in allowed, k \in Kids : index[a][k] = First(Matches(a, k))

Chosen == {First(Matches(a, k)) : a \in allowed, k \in Kids} \ {0}

\* index_keys: whether a document is refused, and why, does not depend on the
\* HashSet's order either.  It is invalid exactly if a key that would be used
\* cannot be decoded: a bad key that is unusable or shadowed is harmless.
VerdictIsOrderFree ==
    result # "running" =>
        result = IF \E p \in Chosen : ~doc[p].valid THEN "invalid"
                 ELSE IF Chosen = {} THEN "empty" ELSE "ok"
=============================================================================
