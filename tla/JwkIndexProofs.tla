-------------------------- MODULE JwkIndexProofs --------------------------
(***************************************************************************)
(* Proofs about JwkIndex, for any document and any list of algorithms: the *)
(* index and the verdict of index_keys are functions of the document, in   *)
(* whatever order the HashSet iterates.                                    *)
(***************************************************************************)
EXTENDS JwkIndex, Integers, TLAPS

-----------------------------------------------------------------------------
(* The invariant.  For every algorithm and kid the index is right about    *)
(* the part of the document that algorithm has seen; what it holds was     *)
(* decoded.                                                                *)

\* The last position algorithm a has seen.
Upto(a) == IF a \in todo THEN pos - 1 ELSE pos

Seen(a, k) == {p \in Matches(a, k) : p <= Upto(a)}

IsFirst(n, S) == IF S = {} THEN n = 0 ELSE n \in S /\ \A p \in S : n <= p

Turn == todo # {} => pos > 0 /\ Key.kid \in Kids

FirstSoFar == \A a \in allowed, k \in Kids : IsFirst(index[a][k], Seen(a, k))

AllDecoded ==
    /\ decoded => pos > 0 /\ Key.valid
    /\ \A a \in allowed, k \in Kids : index[a][k] # 0 => doc[index[a][k]].valid

\* What the result says.
Over ==
    /\ result \in {"ok", "empty"} => pos = Len(doc) /\ todo = {}
    /\ result = "ok" => \E a \in allowed, k \in Kids : index[a][k] # 0
    /\ result = "empty" => \A a \in allowed, k \in Kids : index[a][k] = 0
    /\ result = "invalid" =>
          \E a \in allowed, k \in Kids, p \in 1 .. Len(doc) :
              IsFirst(p, Matches(a, k)) /\ ~doc[p].valid

IInv == TypeOK /\ Turn /\ FirstSoFar /\ AllDecoded /\ Over

-----------------------------------------------------------------------------
(* First, and the document. *)

LEMMA FirstIs ==
    ASSUME NEW S \in SUBSET Nat, NEW n, IsFirst(n, S)
    PROVE  First(S) = n
<1>1. CASE S = {}
  BY <1>1 DEF First, IsFirst
<1>2. CASE S # {}
  <2>1. n \in S /\ \A p \in S : n <= p
    BY <1>2 DEF IsFirst
  <2>2. \A m \in S : (\A p \in S : m <= p) => m = n
    BY <2>1
  <2> QED
    BY <1>2, <2>1, <2>2 DEF First
<1> QED
  BY <1>1, <1>2

LEMMA MatchesAre ==
    ASSUME TypeOK, NEW a, NEW k
    PROVE  Matches(a, k) \subseteq 1 .. Len(doc) /\ Len(doc) \in Nat
BY DEF Matches, TypeOK

LEMMA DocumentsAre == Documents \subseteq Seq(Jwks)
BY IndexConstants DEF Documents

-----------------------------------------------------------------------------
(* Every step keeps the invariant. *)

LEMMA InitInv == Init => IInv
<1> SUFFICES ASSUME Init PROVE IInv
  OBVIOUS
<1>1. doc \in Seq(Jwks) /\ Len(doc) \in Nat /\ pos = 0 /\ todo = {}
  BY DocumentsAre DEF Init
<1>2. TypeOK
  <2>1. allowed \subseteq Asymmetric
    BY DEF Init, ParseAlgorithms
  <2>2. index \in [allowed -> [Kids -> 0 .. Len(doc)]]
    BY <1>1 DEF Init
  <2>3. decoded \in BOOLEAN /\ result = "running"
    BY DEF Init
  <2> QED
    BY <1>1, <2>1, <2>2, <2>3 DEF TypeOK
<1>3. \A a \in allowed, k \in Kids : index[a][k] = 0 /\ Seen(a, k) = {}
  BY <1>1, <1>2, MatchesAre DEF Init, Seen, Upto
<1>4. FirstSoFar
  BY <1>3 DEF FirstSoFar, IsFirst
<1> QED
  BY <1>1, <1>2, <1>3, <1>4 DEF IInv, Init, Turn, AllDecoded, Over

LEMMA NextKeyKeeps ==
    ASSUME IInv, NextKey
    PROVE  IInv'
<1> USE DEF IInv
<1>1. /\ result = "running" /\ todo = {} /\ pos' = pos + 1 /\ ~decoded'
      /\ pos \in Nat /\ pos + 1 \in 1 .. Len(doc) /\ Len(doc) \in Nat
      /\ doc[pos + 1] \in Jwks
      /\ todo' = IF doc[pos + 1].kid = Null THEN {} ELSE allowed
      /\ UNCHANGED <<allowed, doc, index, result>>
  BY DEF NextKey, TypeOK
<1>2. TypeOK'
  <2>1. decoded' \in BOOLEAN
    BY DEF NextKey
  <2>2. todo' \subseteq allowed
    BY <1>1
  <2>3. pos' \in 0 .. Len(doc)
    BY <1>1
  <2> QED
    BY <1>1, <2>1, <2>2, <2>3 DEF TypeOK
<1>3. Turn'
  BY <1>1, IndexConstants DEF Turn, Key
\* An algorithm that does not look at the key has no match there.
<1>4. FirstSoFar'
  <2> SUFFICES ASSUME NEW a \in allowed, NEW k \in Kids
               PROVE  Seen(a, k)' = Seen(a, k)
    BY <1>1 DEF FirstSoFar, IsFirst
  <2>1. Matches(a, k)' = Matches(a, k)
    BY <1>1 DEF Matches
  <2>2. CASE doc[pos + 1].kid = Null
    <3>1. pos + 1 \notin Matches(a, k)
      BY <2>2, IndexConstants DEF Matches
    <3>2. Upto(a) = pos /\ Upto(a)' = pos + 1
      BY <1>1, <2>2 DEF Upto
    <3> QED
      BY <1>1, <2>1, <3>1, <3>2, MatchesAre DEF Seen
  <2>3. CASE doc[pos + 1].kid # Null
    <3>1. Upto(a) = pos /\ Upto(a)' = pos
      BY <1>1, <2>3 DEF Upto
    <3> QED
      BY <2>1, <3>1 DEF Seen
  <2> QED
    BY <2>2, <2>3
<1>5. AllDecoded' /\ Over'
  BY <1>1 DEF AllDecoded, Over
<1> QED
  BY <1>2, <1>3, <1>4, <1>5

\* A key that has no earlier match is selected, and is then the first match.
LEMMA SelectedIsFirst ==
    ASSUME IInv, NEW a \in todo, Selects(a)
    PROVE  /\ a \in allowed /\ Key.kid \in Kids /\ pos \in 1 .. Len(doc)
           /\ IsFirst(pos, Matches(a, Key.kid)) /\ Seen(a, Key.kid) = {}
<1> DEFINE k == Key.kid
<1>1. /\ a \in allowed /\ k \in Kids /\ pos \in 1 .. Len(doc) /\ Len(doc) \in Nat
  BY DEF IInv, TypeOK, Turn
<1>2. index[a][k] = 0 /\ pos \in Matches(a, k) /\ Matches(a, k) \subseteq 1 .. Len(doc)
  BY <1>1 DEF Selects, Matches, Key
<1> HIDE DEF k
<1>3. Seen(a, k) = {}
  <2>1. IsFirst(0, Seen(a, k))
    BY <1>1, <1>2 DEF IInv, FirstSoFar
  <2>2. 0 \notin Seen(a, k)
    BY <1>1, <1>2 DEF Seen
  <2> QED
    BY <2>1, <2>2 DEF IsFirst
<1>4. \A p \in Matches(a, k) : pos <= p
  BY <1>1, <1>2, <1>3 DEF Seen, Upto
<1> QED
  BY <1>1, <1>2, <1>3, <1>4 DEF IsFirst, k

\* A step that only sets the result leaves the walk as it is.
LEMMA WalkUnchanged ==
    ASSUME IInv, UNCHANGED <<allowed, doc, pos, todo, decoded, index>>
    PROVE  Turn' /\ FirstSoFar' /\ AllDecoded'
<1>1. Turn'
  BY DEF IInv, Turn, Key
<1>2. FirstSoFar'
  <2> SUFFICES ASSUME NEW a \in allowed, NEW k \in Kids
               PROVE  IsFirst(index[a][k], Seen(a, k)')
    BY DEF FirstSoFar, IsFirst
  <2>1. Upto(a)' = Upto(a)
    BY DEF Upto
  <2>2. Matches(a, k)' = Matches(a, k)
    BY DEF Matches
  <2>3. Seen(a, k)' = Seen(a, k)
    BY <2>1, <2>2 DEF Seen
  <2> QED
    BY <2>3 DEF IInv, FirstSoFar
<1>3. AllDecoded'
  BY DEF IInv, AllDecoded, Key
<1> QED
  BY <1>1, <1>2, <1>3

\* The key cannot be decoded, and is one that the index would use.
LEMMA RefuseKeeps ==
    ASSUME IInv, NEW a \in todo, NeedsDecoding(a), ~Key.valid, result' = "invalid",
           UNCHANGED <<allowed, doc, pos, todo, decoded, index>>
    PROVE  IInv'
<1> USE DEF IInv
<1>1. /\ a \in allowed /\ Key.kid \in Kids /\ pos \in 1 .. Len(doc)
      /\ IsFirst(pos, Matches(a, Key.kid)) /\ ~doc[pos].valid
  BY SelectedIsFirst DEF NeedsDecoding, Key
<1>2. TypeOK'
  BY DEF TypeOK
<1>3. Turn' /\ FirstSoFar' /\ AllDecoded'
  BY WalkUnchanged
<1>4. PICK k \in Kids : k = Key.kid /\ IsFirst(pos, Matches(a, k))
  BY <1>1
<1>5. Over'
  BY <1>1, <1>4 DEF Over, Matches
<1> QED
  BY <1>2, <1>3, <1>5

\* The algorithm has seen the key.
LEMMA AdvanceKeeps ==
    ASSUME IInv, NEW a \in todo, ~(NeedsDecoding(a) /\ ~Key.valid), result = "running",
           todo' = todo \ {a}, decoded' = (decoded \/ NeedsDecoding(a)),
           index' = IF Selects(a) THEN [index EXCEPT ![a][Key.kid] = pos] ELSE index,
           UNCHANGED <<allowed, doc, pos, result>>
    PROVE  IInv'
<1> USE DEF IInv
<1>1. /\ a \in allowed /\ Key.kid \in Kids /\ pos \in 1 .. Len(doc) /\ Len(doc) \in Nat
      /\ index \in [allowed -> [Kids -> 0 .. Len(doc)]]
      /\ todo \subseteq allowed
  BY DEF TypeOK, Turn
<1>2. \A b \in allowed, k \in Kids :
         index'[b][k] = IF Selects(a) /\ b = a /\ k = Key.kid THEN pos ELSE index[b][k]
  BY <1>1
<1>3. TypeOK'
  <2>1. index' \in [allowed -> [Kids -> 0 .. Len(doc)]]
    BY <1>1
  <2>2. decoded' \in BOOLEAN
    OBVIOUS
  <2>3. todo' \subseteq allowed
    BY <1>1
  <2> QED
    BY <2>1, <2>2, <2>3 DEF TypeOK
<1>4. Turn'
  BY DEF Turn, Key
<1>5. FirstSoFar'
  <2> SUFFICES ASSUME NEW b \in allowed, NEW k \in Kids
               PROVE  IsFirst(index'[b][k], Seen(b, k)')
    BY DEF FirstSoFar, IsFirst
  <2>1. Matches(b, k)' = Matches(b, k) /\ Matches(b, k) \subseteq 1 .. Len(doc)
    BY DEF Matches
  <2>2. IsFirst(index[b][k], Seen(b, k))
    BY DEF FirstSoFar
  <2>3. CASE b # a
    <3>1. Upto(b)' = Upto(b)
      BY <2>3 DEF Upto
    <3>2. Seen(b, k)' = Seen(b, k)
      BY <2>1, <3>1 DEF Seen
    <3> QED
      BY <1>2, <2>2, <2>3, <3>2
  <2>4. CASE b = a /\ pos \notin Matches(b, k)
    <3>1. Seen(b, k)' = Seen(b, k)
      BY <1>1, <2>1, <2>4 DEF Seen, Upto
    <3>2. ~(Selects(a) /\ k = Key.kid)
      BY <1>1, <2>4 DEF Selects, Matches, Key
    <3> QED
      BY <1>2, <2>2, <3>1, <3>2
  <2>5. CASE b = a /\ pos \in Matches(b, k)
    <3>1. Seen(b, k)' = Seen(b, k) \cup {pos} /\ \A p \in Seen(b, k) : p < pos
      BY <1>1, <2>1, <2>5 DEF Seen, Upto
    <3>2. k = Key.kid /\ KeyIsUsable(Key, a)
      BY <2>5 DEF Matches, Key
    <3>3. CASE Selects(a)
      <4>1. Seen(b, k) = {} /\ index'[b][k] = pos
        BY <1>2, <2>5, <3>2, <3>3, SelectedIsFirst
      <4> QED
        BY <1>1, <3>1, <4>1 DEF IsFirst
    <3>4. CASE ~Selects(a)
      <4>1. index[b][k] # 0 /\ index'[b][k] = index[b][k]
        BY <1>2, <2>5, <3>2, <3>4 DEF Selects
      <4> QED
        BY <1>1, <2>2, <3>1, <4>1 DEF IsFirst
    <3> QED
      BY <3>3, <3>4
  <2> QED
    BY <2>3, <2>4, <2>5
<1>6. AllDecoded'
  <2>1. decoded' => Key.valid
    BY DEF AllDecoded
  <2>2. Selects(a) => Key.valid
    BY DEF NeedsDecoding, AllDecoded
  <2> QED
    BY <1>1, <1>2, <2>1, <2>2 DEF AllDecoded, Key
<1>7. Over'
  BY DEF Over
<1> QED
  BY <1>3, <1>4, <1>5, <1>6, <1>7

LEMMA FinishKeeps ==
    ASSUME IInv, Finish
    PROVE  IInv'
<1> USE DEF IInv
<1>1. TypeOK'
  BY DEF Finish, TypeOK
<1>2. Turn' /\ FirstSoFar' /\ AllDecoded'
  BY WalkUnchanged DEF Finish
<1>3. Over'
  BY DEF Finish, Over
<1> QED
  BY <1>1, <1>2, <1>3

LEMMA Inductive ==
    ASSUME IInv, [Next]_vars
    PROVE  IInv'
<1>1. CASE UNCHANGED vars
  <2>1. TypeOK' /\ Over'
    BY <1>1 DEF vars, IInv, TypeOK, Over, Matches
  <2> QED
    BY <1>1, <2>1, WalkUnchanged DEF vars, IInv
<1>2. ASSUME NEW a \in todo, TryAlgorithm(a) PROVE IInv'
  <2>1. CASE NeedsDecoding(a) /\ ~Key.valid
    BY <1>2, <2>1, RefuseKeeps DEF TryAlgorithm
  <2>2. CASE ~(NeedsDecoding(a) /\ ~Key.valid)
    BY <1>2, <2>2, AdvanceKeeps DEF TryAlgorithm
  <2> QED
    BY <2>1, <2>2
<1> QED
  BY <1>1, <1>2, NextKeyKeeps, FinishKeeps DEF Next, Returned

LEMMA Invariant == Spec => []IInv
<1>1. IInv /\ [Next]_vars => IInv'
  BY Inductive
<1> QED
  BY InitInv, <1>1, PTL DEF Spec

-----------------------------------------------------------------------------
(* Theorems. *)

LEMMA FirstMatches ==
    ASSUME IInv, todo = {}, pos = Len(doc), NEW a \in allowed, NEW k \in Kids
    PROVE  First(Matches(a, k)) = index[a][k]
<1>1. Matches(a, k) \subseteq 1 .. Len(doc) /\ Len(doc) \in Nat
  BY MatchesAre DEF IInv
<1>2. Seen(a, k) = Matches(a, k)
  BY <1>1 DEF Seen, Upto
<1>3. IsFirst(index[a][k], Matches(a, k))
  BY <1>2 DEF IInv, FirstSoFar
<1>4. Matches(a, k) \in SUBSET Nat
  BY <1>1
<1> QED
  BY <1>3, <1>4, FirstIs

\* index_keys returns, for every document, the first key of each (algorithm,
\* kid), although it walks the algorithms in the order of a HashSet.
THEOREM IndexHoldsFirstMatches == Spec => []IndexIsFirstMatch
<1>1. ASSUME IInv PROVE IndexIsFirstMatch
  BY <1>1, FirstMatches DEF IInv, Over, IndexIsFirstMatch
<1> QED
  BY <1>1, Invariant, PTL

\* index_keys fails exactly on the documents of which it would use a key that
\* cannot be decoded, and on those it would use no key of.
THEOREM VerdictOfDocument == Spec => []VerdictIsOrderFree
<1>1. ASSUME IInv PROVE VerdictIsOrderFree
  <2>0. result \in {"running", "ok", "invalid", "empty"}
    BY <1>1 DEF IInv, TypeOK
  <2>1. CASE result = "invalid"
    <3>1. PICK a \in allowed, k \in Kids, p \in 1 .. Len(doc) :
             IsFirst(p, Matches(a, k)) /\ ~doc[p].valid
      BY <1>1, <2>1 DEF IInv, Over
    <3>2. Matches(a, k) \in SUBSET Nat
      BY <1>1, MatchesAre DEF IInv
    <3>3. First(Matches(a, k)) = p /\ p # 0
      BY <3>1, <3>2, FirstIs
    <3>4. p \in Chosen
      BY <3>3 DEF Chosen
    <3> QED
      BY <2>1, <3>1, <3>4 DEF VerdictIsOrderFree
  <2>2. CASE result \in {"ok", "empty"}
    <3>1. pos = Len(doc) /\ todo = {}
      BY <1>1, <2>2 DEF IInv, Over
    <3>2. Chosen = {index[a][k] : a \in allowed, k \in Kids} \ {0}
      BY <1>1, <3>1, FirstMatches DEF Chosen
    <3>3. \A p \in Chosen : doc[p].valid
      BY <1>1, <3>2 DEF IInv, AllDecoded
    <3>4. result = IF Chosen = {} THEN "empty" ELSE "ok"
      <4>1. CASE result = "ok"
        <5>1. PICK a \in allowed, k \in Kids : index[a][k] # 0
          BY <1>1, <4>1 DEF IInv, Over
        <5>2. index[a][k] \in Chosen
          BY <3>2, <5>1
        <5> QED
          BY <4>1, <5>2
      <4>2. CASE result = "empty"
        <5>1. \A a \in allowed, k \in Kids : index[a][k] = 0
          BY <1>1, <4>2 DEF IInv, Over
        <5>2. Chosen = {}
          BY <3>2, <5>1
        <5> QED
          BY <4>2, <5>2
      <4> QED
        BY <2>2, <4>1, <4>2
    <3> QED
      BY <3>3, <3>4 DEF VerdictIsOrderFree
  <2>3. CASE result = "running"
    BY <2>3 DEF VerdictIsOrderFree
  <2> QED
    BY <2>0, <2>1, <2>2, <2>3
<1> QED
  BY <1>1, Invariant, PTL

===========================================================================
