------------------------------ MODULE IndexCache ------------------------------
(* The indexes of the SDK and of the tests (indexing/cache.py), built once and
   kept in files named after a signature of the source directories.  The
   signature is that of the root and of its first directories: a change further
   down (deep) does not alter it.  The index of ACE sources is loaded exactly as
   the one of the SDK and is left out.

   The inverted index is made from the tests and from the SDK index that the
   process has loaded; its file carries both signatures.                      *)
EXTENDS Naturals

CONSTANT MaxChanges     \* bound: changes of a tree, on each of its two levels

ASSUME MaxChangesAssumption == MaxChanges \in Nat

VARIABLES
  tree,      \* tree[r]: the state of the root r, [top, deep]
  stored,    \* stored[k]: the content of each file of kind k, by its key
  index,     \* index[k]: what the process has loaded or built, NoIndex before
  key        \* the key of the file that the running call of cached_*_index uses

indexVars == <<tree, stored, index, key>>

Roots == {"sdk", "xts"}
Kinds == {"sdk", "inverted"}
States == [top : 0..MaxChanges, deep : 0..MaxChanges]
Snapshots == [sdk : States, xts : States]

NoIndex == [none |-> TRUE]
TornIndex == [torn |-> TRUE]

\* _dir_signature, and the part of the file name that it is: an SDK index is of
\* no test tree, so its key has 0 in that place.
Signature(root) == tree[root].top
Keys == (0..MaxChanges) \X (0..MaxChanges)
KeyOf(kind) == <<Signature("sdk"), IF kind = "sdk" THEN 0 ELSE Signature("xts")>>

IndexTypeOK ==
  /\ tree \in [Roots -> States]
  /\ stored \in [Kinds -> [Keys -> Snapshots \cup {NoIndex, TornIndex}]]
  /\ index \in [Kinds -> Snapshots \cup {NoIndex}]
  /\ key \in Keys

IndexInit ==
  /\ tree = [r \in Roots |-> [top |-> 0, deep |-> 0]]
  /\ stored = [k \in Kinds |-> [k2 \in Keys |-> NoIndex]]
  /\ index = [k \in Kinds |-> NoIndex]
  /\ key = <<0, 0>>

\* build_sdk_index reads the tree; build_inverted_index reads the tests and is
\* given the loaded SDK index.
Built(kind) == IF kind = "sdk" THEN tree ELSE [tree EXCEPT !.sdk = index["sdk"].sdk]

\* _load_cache: None for a missing file or one that cannot be parsed (one cut inside a
\* character is left out).
IsStored(kind) == stored[kind][key] \notin {NoIndex, TornIndex}

\* cached_*_index: the signatures are taken first ...
LookUp(kind) ==
  /\ key' = KeyOf(kind)
  /\ UNCHANGED <<tree, stored, index>>

\* ... then the file is loaded when it is there ...
LoadIndex(kind) ==
  /\ IsStored(kind)
  /\ index' = [index EXCEPT ![kind] = stored[kind][key]]
  /\ UNCHANGED <<tree, stored, key>>

\* ... and otherwise the index is built and the file opened in place ...
BuildIndex(kind) ==
  /\ ~ IsStored(kind)
  /\ index' = [index EXCEPT ![kind] = Built(kind)]
  /\ stored' = [stored EXCEPT ![kind][key] = TornIndex]
  /\ UNCHANGED <<tree, key>>

\* ... and filled.
FillIndex(kind) ==
  /\ stored' = [stored EXCEPT ![kind][key] = index[kind]]
  /\ UNCHANGED <<tree, index, key>>

\* A sync of the sources changes a tree, visibly or only far down.
Sync(root) ==
  /\ \E level \in {"top", "deep"} :
        /\ tree[root][level] < MaxChanges
        /\ tree' = [tree EXCEPT ![root][level] = @ + 1]
  /\ UNCHANGED <<stored, index, key>>

\* The process has ended: what it had loaded is gone.
ForgetIndexes ==
  /\ index' = [k \in Kinds |-> NoIndex]
  /\ key' = <<0, 0>>
===============================================================================
