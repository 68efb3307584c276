----------------------------- MODULE BlockQueue -----------------------------
(***************************************************************************)
(* What the verification queue promises (spec.md, section 1 and           *)
(* invariant 2): blocks are handed to the chain in the order they were    *)
(* accepted, minus blocks known to be bad.  `pending` is every accepted   *)
(* block not yet handed out, in acceptance order; `bad` the known-bad     *)
(* hashes.  A block leaves `pending` only from its head (delivery), or    *)
(* anywhere once its hash is known bad, or all at once on clear().        *)
(* Blocks are records whose identity is unique (a ghost acceptance        *)
(* index), so a sequence is a subsequence when it keeps the order.        *)
(***************************************************************************)
EXTENDS Naturals, SequencesExt

VARIABLES pending, bad

vars == <<pending, bad>>

\* `s` is `t` with some elements left out and the others kept in order.
Keeps(t, s) ==
    /\ ToSet(s) \subseteq ToSet(t)
    /\ s = SelectSeq(t, LAMBDA it : it \in ToSet(s))

Init == pending = <<>> /\ bad = {}

\* import: a new block at the tail.
Accept ==
    /\ Len(pending') = Len(pending) + 1
    /\ SubSeq(pending', 1, Len(pending)) = pending
    /\ Last(pending') \notin ToSet(pending)
    /\ UNCHANGED bad

\* drain: a non-empty prefix goes to the chain.
Deliver ==
    /\ \E n \in 1..Len(pending) : pending' = SubSeq(pending, n + 1, Len(pending))
    /\ UNCHANGED bad

\* Hashes become known bad; blocks whose hash is bad may be dropped from
\* anywhere, and the others keep their order.
Condemn ==
    /\ bad \subseteq bad'
    /\ Keeps(pending, pending')
    /\ \A it \in ToSet(pending) \ ToSet(pending') : it.hash \in bad'

\* clear: every pending block is forgotten.
Clear == pending' = <<>> /\ UNCHANGED bad

Next == Accept \/ Deliver \/ Condemn \/ Clear

Spec == Init /\ [][Next]_vars

=============================================================================
