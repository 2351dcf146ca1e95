------------------------------ MODULE Scaffold ------------------------------
(***************************************************************************)
(* skeleton-new (src/scaffold/src): processes that each generate the       *)
(* project of ProjectDisk.tla from a checkout of the skeleton.             *)
(***************************************************************************)
EXTENDS ProjectDisk, SequencesExt

CONSTANTS
    Generators,   \* processes that run skeleton-new
    LockNames,    \* BOUND: package names of the lockfiles tried, as numbers
    LockLength    \* BOUND: dependencies of the lockfiles tried

ASSUME LockConstants == LockNames \subseteq Nat /\ LockLength \in Nat

VARIABLES
    generator,    \* process -> its progress
    checkouts,    \* processes that own a temporary directory
    alone         \* HISTORY: running processes no other generator overlapped

svars == <<generator, checkouts, alone>>

Generating == {"clone", "copy", "format"}

GeneratorType ==
    [pc       : Generating \cup {"ok", "err"},
     revision : Revisions \cup {"none"},
     todo     : (UNION {{SubSeq(Tracked[r], i, Len(Tracked[r])) :
                           i \in 1..Len(Tracked[r]) + 1} : r \in Revisions}) \cup {<<>>}]

GRest(result) == [pc |-> result, revision |-> "none", todo |-> <<>>]

Running(g) == generator[g].pc \in Generating

\* Checkout::drop.  A directory that cannot be removed, or whose process was
\* killed, stays under a name nobody uses again: it is not followed further.
DropCheckout(g) == checkouts' = checkouts \ {g}

Ends(g, result) ==
    /\ generator' = [generator EXCEPT ![g] = GRest(result)]
    /\ alone' = alone \ {g}

Fails(g) == Ends(g, "err") /\ DropCheckout(g)

-----------------------------------------------------------------------------
\* MUTANT of EmptyTarget: an existing directory is taken as it is.
EmptyTargetAny == TRUE

\* ensure_empty_target
EmptyTarget == \A p \in Paths : ~There(p)

\* The name is valid, the target is not there or empty, and the temporary
\* directory is created; otherwise main returns the error.
StartGenerate(g) ==
    /\ ~Running(g)
    /\ UNCHANGED disk
    /\ \/ /\ generator' = [generator EXCEPT ![g] = GRest("err")]
          /\ UNCHANGED <<checkouts, alone>>
       \/ /\ EmptyTarget
          /\ generator' = [generator EXCEPT ![g] = GRest("clone")]
          /\ checkouts' = checkouts \cup {g}
          /\ alone' = IF \E h \in Generators : Running(h)
                      THEN {} ELSE {g}

\* git clone, rev-parse and ls-files.
Fetched(g, r) ==
    /\ generator[g].pc = "clone"
    /\ generator' = [generator EXCEPT ![g] =
                        [pc |-> "copy", revision |-> r, todo |-> Tracked[r]]]
    /\ UNCHANGED <<disk, checkouts, alone>>

\* MUTANT of FetchFails: the guard exists only once the clone has succeeded.
FetchFailsUnguarded(g) ==
    /\ generator[g].pc = "clone"
    /\ Ends(g, "err")
    /\ UNCHANGED <<disk, checkouts>>

\* One of them fails.
FetchFails(g) ==
    /\ generator[g].pc = "clone"
    /\ Fails(g)
    /\ UNCHANGED disk

\* One file is read, rendered, written and given its permissions.
CopyFile(g) ==
    /\ generator[g].pc = "copy" /\ generator[g].todo # <<>>
    /\ Put(Head(generator[g].todo), generator[g].revision)
    /\ generator' = [generator EXCEPT ![g].todo = Tail(@)]
    /\ UNCHANGED <<checkouts, alone>>

\* ... or is not, in whole or in part.
CopyFails(g) ==
    /\ generator[g].pc = "copy" /\ generator[g].todo # <<>>
    /\ LET p == Head(generator[g].todo)
       IN  \E content \in {disk[p], "partial", generator[g].revision} : Put(p, content)
    /\ Fails(g)

\* generate returns and drops the checkout; nothing but scaffold/ is an error.
Copied(g) ==
    /\ generator[g].pc = "copy" /\ generator[g].todo = <<>>
    /\ UNCHANGED disk
    /\ IF Tracked[generator[g].revision] = <<>>
       THEN Fails(g)
       ELSE /\ generator' = [generator EXCEPT ![g].pc = "format"]
            /\ DropCheckout(g)
            /\ UNCHANGED alone

\* format_project: cargo fmt succeeds, or the project stays unformatted.
Format(g) ==
    /\ generator[g].pc = "format"
    /\ \E result \in {"ok", "err"} : Ends(g, result)
    /\ UNCHANGED <<disk, checkouts>>

KillGenerator(g) ==
    /\ Running(g)
    /\ Fails(g)
    /\ UNCHANGED disk

SInit ==
    /\ generator = [g \in Generators |-> GRest("err")]
    /\ checkouts = {}
    /\ alone = {}

SNext ==
    \E g \in Generators :
        \/ StartGenerate(g) \/ FetchFails(g) \/ \E r \in Revisions : Fetched(g, r)
        \/ CopyFile(g) \/ CopyFails(g) \/ Copied(g) \/ Format(g) \/ KillGenerator(g)

-----------------------------------------------------------------------------
(* lockfile.rs.  A package is its name, a number here, and whether it is   *)
(* the root package, the one without a source.                             *)

\* MUTANT of RepositionRoot: the renamed package stays where it was.
RepositionRootNot(blocks, root) == blocks

\* The first package with a greater name, or the end.
PlaceFor(root, rest) ==
    LET later == {i \in DOMAIN rest : rest[i].name > root}
    IN  IF later = {} THEN Len(rest) + 1
        ELSE CHOOSE i \in later : \A k \in later : i <= k

\* reposition_root_package: the root goes in front of it.
RepositionRoot(blocks, root) ==
    LET current == CHOOSE i \in DOMAIN blocks : blocks[i].name = root /\ blocks[i].root
        rest    == RemoveAt(blocks, current)
    IN  InsertAt(rest, PlaceFor(root, rest), blocks[current])

ByName(blocks) == \A i \in 1..Len(blocks) - 1 : blocks[i].name <= blocks[i + 1].name

Locks == UNION {[1..n -> [name : LockNames, root : {FALSE}]] : n \in 0..LockLength}

\* Whatever the project is called and wherever the skeleton's own name stood.
EveryLockSorted ==
    \A deps \in {lock \in Locks : ByName(lock)}, root \in LockNames :
    \A i \in 1..Len(deps) + 1 :
        LET package == [name |-> root, root |-> TRUE]
            blocks  == RepositionRoot(InsertAt(deps, i, package), root)
        IN  /\ ByName(blocks)
            /\ \E k \in DOMAIN blocks : blocks[k] = package /\ RemoveAt(blocks, k) = deps

-----------------------------------------------------------------------------
(* Properties. *)

STypeOK ==
    /\ generator \in [Generators -> GeneratorType]
    /\ checkouts \subseteq Generators
    /\ alone \subseteq Generators

\* The checkout is "removed afterwards, also on errors": a process that has
\* ended, at whatever step it failed, or that formats keeps none.
CheckoutRemoved == \A g \in checkouts : generator[g].pc \in {"clone", "copy"}

\* A generated project's Cargo.lock is ordered by name as Cargo writes it, and
\* the dependencies keep their order, or `cargo build --locked` would refuse it.
LockStaysSorted ==
    \A g \in Generators : generator[g].pc = "format" => EveryLockSorted

\* A generation that no other one overlapped leaves the skeleton's files of
\* one revision, all of them and no others, whatever earlier generations into
\* the same directory failed at.
SuccessIsComplete ==
    \A g \in Generators :
        generator[g].pc = "format" /\ g \in alone =>
            \A p \in UNION {Files(r) : r \in Revisions} :
                disk[p] = IF p \in Files(generator[g].revision)
                          THEN generator[g].revision ELSE "none"
=============================================================================
