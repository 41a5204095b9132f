-------------------------------- MODULE Trie --------------------------------
(***************************************************************************)
(* The Merkle Patricia trie and the state root.  An encoded node is its    *)
(* RLP item: writing an inline child's bytes into a list nests its item.   *)
(* keccak256 has no collisions: a digest is [hash |-> the hashed item],    *)
(* written as a string of 32 bytes.                                        *)
(***************************************************************************)
EXTENDS RlpTypes, FiniteSets

CONSTANTS Key, Value   \* byte strings that are inserted

VARIABLES root,        \* the trie
          contents     \* what was inserted last under each key

vars == <<root, contents>>

-----------------------------------------------------------------------------
(* Nodes *)

NoNode == [kind |-> "None"]
Leaf(remaining_nibbles, value) ==
  [kind |-> "Leaf", nibbles |-> remaining_nibbles, value |-> value]
Extension(shared_nibbles, child) ==
  [kind |-> "Extension", nibbles |-> shared_nibbles, child |-> child]
Branch(children, value) == [kind |-> "Branch", children |-> children, value |-> value]

NoValue == << >>
Some(value) == <<value>>
NoChildren == [i \in 0..15 |-> NoNode]

bytes_to_nibbles(bytes) ==
  [i \in 1..(2 * Len(bytes)) |->
     IF i % 2 = 1 THEN bytes[(i + 1) \div 2] \div 16 ELSE bytes[i \div 2] % 16]

shared_prefix_len(a, b) ==
  Cardinality({n \in 1..Len(a) : n <= Len(b) /\ SubSeq(a, 1, n) = SubSeq(b, 1, n)})

Below(prefix, branch) == IF prefix = << >> THEN branch ELSE Extension(prefix, branch)

insert_at_leaf(leaf, nibbles, new_value) ==
  LET n == shared_prefix_len(leaf.nibbles, nibbles)
      OldLeaf == Leaf(From(leaf.nibbles, n + 2), leaf.value)
      NewLeaf == Leaf(From(nibbles, n + 2), new_value)
  IN  IF nibbles = leaf.nibbles THEN Leaf(nibbles, new_value)
      ELSE IF Len(leaf.nibbles) = n
      THEN Branch([NoChildren EXCEPT ![nibbles[n + 1]] = NewLeaf], Some(leaf.value))
      ELSE IF Len(nibbles) = n
      THEN Branch([NoChildren EXCEPT ![leaf.nibbles[n + 1]] = OldLeaf], Some(new_value))
      ELSE Below(SubSeq(nibbles, 1, n),
                 Branch([NoChildren EXCEPT ![leaf.nibbles[n + 1]] = OldLeaf,
                                           ![nibbles[n + 1]] = NewLeaf], NoValue))

\* Plausible bug: an extension is kept although nothing of its path is left.
split_extension_empty_path(ext, n, nibbles, new_value) ==
  LET old == [NoChildren EXCEPT ![ext.nibbles[n + 1]] =
                Extension(From(ext.nibbles, n + 2), ext.child)]
      branch == IF Len(nibbles) = n THEN Branch(old, Some(new_value))
                ELSE Branch([old EXCEPT ![nibbles[n + 1]] = Leaf(From(nibbles, n + 2), new_value)],
                            NoValue)
  IN  Below(SubSeq(ext.nibbles, 1, n), branch)

\* An extension that the new path leaves after n nibbles.
split_extension(ext, n, nibbles, new_value) ==
  LET old == [NoChildren EXCEPT ![ext.nibbles[n + 1]] =
                Below(From(ext.nibbles, n + 2), ext.child)]
      branch == IF Len(nibbles) = n THEN Branch(old, Some(new_value))
                ELSE Branch([old EXCEPT ![nibbles[n + 1]] = Leaf(From(nibbles, n + 2), new_value)],
                            NoValue)
  IN  Below(SubSeq(ext.nibbles, 1, n), branch)

RECURSIVE recursive_insert(_, _, _)
recursive_insert(slot, nibbles, new_value) ==
  CASE slot.kind = "None" -> Leaf(nibbles, new_value)
    [] slot.kind = "Leaf" -> insert_at_leaf(slot, nibbles, new_value)
    [] slot.kind = "Extension" ->
         LET n == shared_prefix_len(slot.nibbles, nibbles) IN
         IF n = Len(slot.nibbles)
         THEN Extension(slot.nibbles,
                        recursive_insert(slot.child, From(nibbles, n + 1), new_value))
         ELSE split_extension(slot, n, nibbles, new_value)
    [] slot.kind = "Branch" ->
         IF nibbles = << >> THEN Branch(slot.children, Some(new_value))
         ELSE Branch([slot.children EXCEPT ![nibbles[1]] =
                        recursive_insert(@, Tail(nibbles), new_value)], slot.value)

\* An empty key is refused and leaves the trie as it is.
insert(trie, key, new_value) ==
  IF key = << >> THEN trie ELSE recursive_insert(trie, bytes_to_nibbles(key), new_value)

-----------------------------------------------------------------------------
(* Encoding and root *)

\* A flag for leaf and odd length, then the nibbles in pairs.
hp_encode(nibbles, is_leaf) ==
  LET flag == IF is_leaf THEN 2 ELSE 0
      padded == IF Len(nibbles) % 2 = 0 THEN <<flag, 0>> \o nibbles ELSE <<flag + 1>> \o nibbles
  IN  [i \in 1..(Len(padded) \div 2) |-> 16 * padded[2 * i - 1] + padded[2 * i]]

keccak256(item) == [hash |-> item]

RECURSIVE node_len(_)
node_len(item) ==
  IF "hash" \in DOMAIN item THEN 33
  ELSE IF IsList(item)
  THEN LET payload_len == FoldLeft(+, 0, Map(node_len, item.list))
       IN  length_prefix_len(payload_len) + payload_len
  ELSE encoded_len(item)

\* A node shorter than a digest stands for itself.
node_ref(item) == IF node_len(item) < 32 THEN item ELSE keccak256(item)

\* Plausible bug: empty children are left out.
branch_item_packed(children, value) ==
  List(SelectSeq([i \in 1..16 |-> children[i - 1]], LAMBDA c : c # Bytes(<< >>))
       \o <<Bytes(IF value = NoValue THEN << >> ELSE value[1])>>)

branch_item(children, value) ==
  List([i \in 1..16 |-> children[i - 1]]
       \o <<Bytes(IF value = NoValue THEN << >> ELSE value[1])>>)

RECURSIVE node_item(_)
encode_node(node) == node_ref(node_item(node))
node_item(node) ==
  CASE node.kind = "Leaf" -> List(<<Bytes(hp_encode(node.nibbles, TRUE)), Bytes(node.value)>>)
    [] node.kind = "Extension" ->
         List(<<Bytes(hp_encode(node.nibbles, FALSE)), node_ref(node_item(node.child))>>)
    [] node.kind = "Branch" ->
         branch_item([i \in 0..15 |->
                        IF node.children[i] = NoNode THEN Bytes(<< >>)
                        ELSE node_ref(node_item(node.children[i]))], node.value)

root_hash(trie) ==
  IF trie = NoNode THEN keccak256(Bytes(<< >>))
  ELSE LET encoded_node == encode_node(trie)
       IN  IF "hash" \in DOMAIN encoded_node THEN encoded_node ELSE keccak256(encoded_node)

\* The value of an account; the storage root is a placeholder.
account_rlp(info) ==
  encode(List(<<u64_item(info.nonce), u128_item(info.balance), b256_item(Zeros(32)),
                b256_item(info.code_hash)>>))

\* The accounts, encoded, are inserted in the order in which a hash map
\* happens to iterate.
compute_state_root(state, order) ==
  root_hash(FoldLeft(LAMBDA trie, address : insert(trie, address, state[address]), NoNode, order))

-----------------------------------------------------------------------------
(* Specification: values are inserted and replaced in any order            *)

Init == root = NoNode /\ contents = << >>

Insert(key, value) ==
  /\ root' = insert(root, key, value)
  /\ contents' = IF key = << >> THEN contents
                 ELSE [k \in DOMAIN contents \cup {key} |->
                         IF k = key THEN value ELSE contents[k]]

Next == \E key \in Key, value \in Value : Insert(key, value)

Spec == Init /\ [][Next]_vars

-----------------------------------------------------------------------------
(* Properties *)

\* compute_state_root does not depend on the order in which the hash map
\* yields the accounts, nor on earlier values under the same keys: node and
\* test client derive the same genesis hash from the same accounts.
OrderIndependent ==
  \A order \in SetToSeqs(DOMAIN contents) : compute_state_root(contents, order) = root_hash(root)

\* The root identifies the contents: no other contents have it, whether a
\* child is inlined or hashed and wherever paths branch.
RootBindsContents ==
  \A keys \in SUBSET (Key \ {<< >>}) : \A other \in [keys -> Value] :
    compute_state_root(other, SetToSeq(keys)) = root_hash(root) => other = contents

=============================================================================
