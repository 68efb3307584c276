---------------------------- MODULE MC_MarkScan ----------------------------
(***************************************************************************)
(* mark_as_bad (lines 553-589) as a function of `verified` and `bad`,      *)
(* repeated on one queue: each call puts one hash into `bad`, then makes   *)
(* the single pass over `verified` that drops and marks bad every block    *)
(* whose parent is bad.  The blocks are the chain g <- c1 <- c2 <- c3 and  *)
(* a second child d of c1.  `verified` starts as any order of distinct     *)
(* blocks: import() never asks for a block's parent to be queued first,    *)
(* so a child can be accepted, and verified, before its parent.            *)
(*                                                                         *)
(* The blocks are no longer in `processing`, so the calls reach the scan:  *)
(* with a queued block in `processing`, mark_as_bad hangs in               *)
(* decrease_processing_children_count (line 541) before it gets there.     *)
(* The pass is VerificationQueue's MarkLoop and ScanVerified, instantiated *)
(* with this queue; the queue's other state plays no part in them.         *)
(***************************************************************************)
EXTENDS Naturals, SequencesExt, Relation

CONSTANTS g, c1, c2, c3, d

Chain == {c1, c2, c3, d}
ChainParent == (c1 :> g) @@ (c2 :> c1) @@ (c3 :> c2) @@ (d :> c1)

VARIABLES verified, bad

vars == <<verified, bad>>

VQ == INSTANCE VerificationQueue WITH
        Hashes <- Chain, Genesis <- g, Parent <- ChainParent,
        RawHash <- [h \in Chain |-> h], Difficulty <- [h \in Chain |-> 1],
        NumCpus <- 1, ConfiguredVerifiers <- 1, ScaleVerifiers <- FALSE,
        ScaleThreshold <- 20, ReadjustmentPeriod <- 1, UsizeBits <- 3,
        CreateOutcomes <- {"Ok"}, DrainMax <- {1}, ClientAcks <- TRUE,
        AdminOps <- {}, MaxImports <- 0, MaxAdminCalls <- 0, SendFails <- FALSE,
        unverified <- <<>>, verifying <- <<>>,
        sizes <- [s \in {"unverified", "verifying", "verified"} |-> 0],
        processing <- {}, processingParents <- [p \in Chain \cup {g} |-> 0],
        totalDifficulty <- 0, poolState <- [tag |-> "Work", n |-> 1],
        ticks <- 0, signalled <- FALSE, deleting <- FALSE, messages <- 0,
        pc <- <<>>, cur <- <<>>, impHash <- g, batch <- <<>>, held <- {},
        stuck <- {}, accepted <- 0, lastOut <- 0, emptySnap <- {}, importCalls <- 0,
        adminCalls <- 0

\* A queue of distinct blocks, in the order they were accepted.
Queues ==
    {[i \in DOMAIN s |-> [hash |-> s[i], seq |-> i]] :
        s \in {s \in SeqOf(Chain, Cardinality(Chain)) : IsInjective(s)}}

Init == verified \in Queues /\ bad = {}

\* mark_as_bad(&[h]) (lines 553-589): bad.insert(h), then one pass over
\* verified that keeps the blocks whose parent is not (yet) bad.
MarkAsBad(h) ==
    LET r == VQ!ScanVerified(verified, VQ!MarkLoop(<<h>>, VQ!MarkStart, TRUE))
    IN /\ verified' = r.kept
       /\ bad' = r.bad

Next == \E h \in Chain : MarkAsBad(h)

Spec == Init /\ [][Next]_vars

-----------------------------------------------------------------------------
(* Reference definitions.                                                  *)

HashesIn(q) == {q[i].hash : i \in 1..Len(q)}

\* y is a child of x, and both are queued in q, in either order.
ChildIn(q) ==
    [p \in Chain \X Chain |->
        /\ {p[1], p[2]} \subseteq HashesIn(q)
        /\ ChainParent[p[2]] = p[1]]

\* The blocks of q that descend from B through blocks of q: a block whose
\* parent is in B, and every block of q reached from one by parent links.
Condemned(q, B) ==
    LET first == {x \in HashesIn(q) : ChainParent[x] \in B}
        tc == TransitiveClosure(ChildIn(q), Chain)
    IN first \cup {y \in Chain : \E x \in first : tc[x, y]}

-----------------------------------------------------------------------------
(* Properties.                                                             *)

\* mark_as_bad marks bad "the item and all its children" (doc comment, line
\* 551): every block of verified that descends from the bad set through
\* blocks of verified is dropped and marked bad, and the others are kept in
\* their order.  The spec (section 4.1) says the one pass of lines 573-588
\* reaches them all because a descendant cannot precede its ancestor.
ScanMarksDescendants ==
    [][\A h \in Chain :
         MarkAsBad(h) =>
           LET B == bad \cup {h}
               C == Condemned(verified, B)
           IN /\ bad' = B \cup C
              /\ verified' = SelectSeq(verified, LAMBDA it : it.hash \notin C)]_vars

=============================================================================
