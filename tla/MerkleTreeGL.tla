---------------------------- MODULE MerkleTreeGL ----------------------------
(***************************************************************************)
(* Merkle trees of any arity, with the nodes in one array, level by level, *)
(* and the sponge that absorbs rows.  The permutation is an injective      *)
(* term.  A digest is one word here (four field elements in the source),   *)
(* so the sponge takes arity - 1 words at a time.                          *)
(***************************************************************************)
EXTENDS Naturals, Sequences, SequencesExt

Elem(x) == <<x>>     \* a field element as a word
Zero == Elem(0)      \* also the digest that fills a level

Zeros(n) == [i \in 1 .. n |-> Zero]
CeilDiv(a, b) == (a + b - 1) \div b

Permute(kind, inputs) == <<kind, inputs>>

(* linear_hash: the first words of the state are overwritten by a block,   *)
(* the last hold what the previous permutation left first.                 *)
RECURSIVE Absorb(_, _, _)
Absorb(words, capacity, rate) ==
  IF words = <<>> THEN capacity
  ELSE LET n == IF Len(words) < rate THEN Len(words) ELSE rate
           block == SubSeq(words, 1, n) \o Zeros(rate - n)
       IN Absorb(SubSeq(words, n + 1, Len(words)),
                 Permute("leaf", Append(block, capacity)), rate)

LinearHash(row, arity) == Absorb([i \in 1 .. Len(row) |-> Elem(row[i])], Zero, arity - 1)

(* The levels above the one that ends the array, which holds pending nodes *)
(* from index start on.                                                    *)
RECURSIVE Grow(_, _, _, _)
Grow(nodes, start, pending, arity) ==
  IF pending <= 1 THEN nodes
  ELSE LET nextN  == CeilDiv(pending, arity)
           padded == nodes \o Zeros((arity - (pending % arity)) % arity)
           parent(i) == Permute("node", SubSeq(padded, start + (i - 1) * arity + 1,
                                                       start + i * arity))
       IN Grow(padded \o [i \in 1 .. nextN |-> parent(i)], Len(padded), nextN, arity)

Merkelize(source, arity) ==
  [arity |-> arity, height |-> Len(source), source |-> source,
   nodes |-> Grow([i \in 1 .. Len(source) |-> LinearHash(source[i], arity)],
                  0, Len(source), arity)]

MerkletreeReduce(level, arity) ==
  LET all == Grow(level, 0, Len(level), arity) IN all[Len(all)]

RECURSIVE NumNodes(_, _)
NumNodes(height, arity) ==
  IF height <= 1 THEN height
  ELSE height + ((arity - (height % arity)) % arity) + NumNodes(CeilDiv(height, arity), arity)

GetRoot(tree) == tree.nodes[NumNodes(tree.height, tree.arity)]

(* Where a level of at most arity^llv nodes begins, and how many it has.   *)
RECURSIVE LevelAt(_, _, _, _)
LevelAt(offset, n, arity, llv) ==
  IF n <= arity ^ llv THEN [offset |-> offset, n |-> n]
  ELSE LevelAt(offset + CeilDiv(n, arity) * arity, CeilDiv(n, arity), arity, llv)

GetLevel(tree, llv) ==
  IF llv = 0 THEN <<>>
  ELSE LET at == LevelAt(0, tree.height, tree.arity, llv)
       IN SubSeq(tree.nodes, at.offset + 1, at.offset + at.n)
            \o Zeros(tree.arity ^ llv - at.n)

(* genMerkleProof: the siblings of the path, up to the level the verifier  *)
(* is given.                                                               *)
RECURSIVE GenMerkleProof(_, _, _, _, _)
GenMerkleProof(tree, llv, idx, offset, n) ==
  IF n <= tree.arity ^ llv THEN <<>>
  ELSE LET arity == tree.arity
           first == offset + idx - (idx % arity)
           nextN == CeilDiv(n, arity)
       IN <<RemoveAt(SubSeq(tree.nodes, first + 1, first + arity), (idx % arity) + 1)>>
            \o GenMerkleProof(tree, llv, idx \div arity, offset + nextN * arity, nextN)

GetGroupProof(tree, llv, idx) ==
  [vals |-> tree.source[idx + 1],
   siblings |-> GenMerkleProof(tree, llv, idx, 0, tree.height)]

(* calculateRootFromProof, which also divides the index of the caller.     *)
RECURSIVE RootFromProof(_, _, _, _)
RootFromProof(value, mp, idx, arity) ==
  IF mp = <<>> THEN [value |-> value, idx |-> idx]
  ELSE RootFromProof(Permute("node", InsertAt(Head(mp), (idx % arity) + 1, value)),
                     Tail(mp), idx \div arity, arity)

VerifyGroupProof(root, level, mp, idx, vals, arity) ==
  LET top == RootFromProof(LinearHash(vals, arity), mp, idx, arity)
  IN top.value = IF level = <<>> THEN root ELSE level[top.idx + 1]

VerifyMerkleRoot(root, level, height, llv, arity) ==
  LET n == LevelAt(0, height, arity, llv).n
  IN MerkletreeReduce(SubSeq(level, 1, n), arity) = root
=============================================================================
