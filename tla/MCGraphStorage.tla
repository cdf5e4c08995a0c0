---------------------------- MODULE MCGraphStorage ----------------------------
(* GraphStorage on small instances. *)
EXTENDS GraphStorage, TLC

CONSTANTS w1, w2, pa, pb, va, va2, vb, ca, ca2, cb, e1, e2, e3

TwoWorkers == {w1, w2}
Paths == {pa, pb}
Versions == {va, va2, vb}
Chunks == {ca, ca2, cb}
Entities == {e1, e2, e3}

PathOfVersion == (va :> pa) @@ (va2 :> pa) @@ (vb :> pb)
VersionOfChunk == (ca :> va) @@ (ca2 :> va2) @@ (cb :> vb)
\* e1 is defined by all files, e2 only by the first version of pa, where it
\* refers to the repository; e3 is a class in pa and has a bad tag in pb
ExtractedBy == (ca :> {e1, e2, e3}) @@ (ca2 :> {e1}) @@ (cb :> {e1, e3})
VerdictOf ==
    [p \in Chunks \X Entities |->
        CASE p = <<ca, e2>> -> "repository" [] p = <<cb, e3>> -> "rejected" [] OTHER -> "kept"]

E(c) == [kind |-> "entities", chunk |-> c]
S(c) == [kind |-> "summary", chunk |-> c]
D(p, v) == [kind |-> "delete", version |-> v, path |-> p]

\* the summaries of two versions of a file, the older version and another file;
\* the older version is deleted, and the file once more, by its path
Modified == <<S(ca2), S(ca), E(ca), E(cb), D(pa, va), D(pa, NoVersion)>>

Twins == Permutations(TwoWorkers)
=============================================================================
