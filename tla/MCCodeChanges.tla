----------------------------- MODULE MCCodeChanges -----------------------------
(* CodeChanges on small instances.                                         *)
EXTENDS CodeChanges, TLC

CONSTANTS f, g, twin, none, absent, A, B, big, small, large, tiny, copy, e1, e2, e3

\* the same path in two projects: their entities have the same ids
Paths == {f, g, twin}
Projects == {A, B}
Projected == [p \in Paths |-> IF p = twin THEN B ELSE A]

Contents == {big, small, large, tiny, copy}
Entities == {e1, e2, e3}
Definitions == [c \in Contents |-> CASE c = big -> {e1, e2, e3} [] c = small -> {e2}
                                     [] c = copy -> {e1} [] OTHER -> {}]
Relations == [c \in Contents |-> CASE c = big -> {<<e2, e3>>, <<e2, e1>>}
                                   [] c = copy -> {<<e1, e2>>} [] OTHER -> {}]
Sizes == [c \in Contents |-> IF c = big THEN 2 ELSE 1]
Event(change, path, previous, content) ==
    [change |-> change, path |-> path, previous |-> previous, content |-> content]

\* f is added, shrinks and moves to g, too large there; its twin comes, under a
\* name it never had, gets too small to look at and goes
Moves == << Event("added", f, none, big), Event("renamed", twin, none, copy),
            Event("modified", twin, none, tiny), Event("modified", f, none, small),
            Event("deleted", twin, none, tiny), Event("renamed", g, f, large) >>

\* what the theorem about StoresFollowLog takes for granted
ASSUME MovesArriveFree == ArrivalsFree

TinyContents == {tiny}
LargeContents == {large}
=============================================================================
