------------------------------ MODULE HashTable ------------------------------
(***************************************************************************)
(* The chained hash table of libs/src/univ_hashmap.c, and who frees the    *)
(* keys and values its users give it.                                      *)
(*                                                                         *)
(* As its users do (O_lexer.c, O_symbol_table.c), every insert brings a    *)
(* key and a value allocated for it, and the table has destructors for     *)
(* both.  The i-th insert brings key object i and value object i.          *)
(***************************************************************************)
EXTENDS Integers, SequencesExt

CONSTANTS
  Key,       \* what a key may say: what hashFunc and compare look at
  HashFuncs, \* hash functions before the remainder: functions from Key to Nat
  Sizes,     \* the sizes tables are created with, 20 and 100 in the code
  NULL,      \* retrieve's answer for no value
  MaxInserts \* bound: the inserts of one run

ASSUME TableAssumption == /\ HashFuncs \subseteq [Key -> Nat]
                          /\ Sizes \subseteq Nat \ {0}
                          /\ MaxInserts \in Nat
                          /\ NULL \notin Nat

VARIABLES
  hashFunc, entries, count, \* the table's fields; its size is that of `entries'
  alive,     \* the table is not destroyed
  inserts,   \* the inserts so far
  freedKey, freedValue, \* how often each key and value object has been freed
  unowned,   \* key objects the table was given and did not keep (history)
  call,      \* the last call made of the table, and its arguments (history)
  answer     \* what the last retrieve returned

table == <<hashFunc, entries, count, alive>>
heap == <<freedKey, freedValue, unowned>>
vars == <<hashFunc, entries, count, alive, inserts, freedKey, freedValue, unowned, call, answer>>

Object == 1 .. MaxInserts
Node(k, o) == [key |-> k, keyObject |-> o, value |-> o]

\* Slots are numbered from 1.
Size == Len(entries)
Slot(k, size) == (hashFunc[k] % size) + 1

\* The place of the key in the chain, 0 if it is not there.
Place(chain, k) == SelectInSeq(chain, LAMBDA node : node.key = k)

\* resizeHashTable: slot by slot, each node to the front of its new chain.
Resized ==
  LET nodes == FlattenSeq(entries)
      relinked[i \in 0 .. Len(nodes)] ==
        IF i = 0 THEN [s \in 1 .. 2 * Size |-> <<>>]
        ELSE [relinked[i - 1] EXCEPT ![Slot(nodes[i].key, 2 * Size)] = <<nodes[i]>> \o @]
  IN  relinked[Len(nodes)]

\* LOAD_FACTOR_THRESHOLD is three quarters.
\* Mutant of TooFull: a table is full when it has as many nodes as slots.
TooFullLate == count > Size
TooFull == 4 * count > 3 * Size
-----------------------------------------------------------------------------
Free(freed, o) == [freed EXCEPT ![o] = @ + 1]

\* insert: the new pair goes to the chain's end; a key that is there keeps its
\* object and gets the new value, and nobody frees the new key's object.
Insert(k) ==
  /\ alive /\ inserts < MaxInserts
  /\ inserts' = inserts + 1
  /\ call' = <<"insert", k, inserts'>>
  /\ LET prepared == IF TooFull THEN Resized ELSE entries
         slot == Slot(k, Len(prepared))
         at == Place(prepared[slot], k)
     IN  \/ /\ at = 0
            /\ entries' = [prepared EXCEPT ![slot] = Append(@, Node(k, inserts'))]
            /\ count' = count + 1
            /\ UNCHANGED heap
         \/ /\ at # 0
            /\ entries' = [prepared EXCEPT ![slot][at].value = inserts']
            /\ freedValue' = Free(freedValue, prepared[slot][at].value)
            /\ unowned' = unowned \cup {inserts'}
            /\ UNCHANGED <<count, freedKey>>
  /\ UNCHANGED <<hashFunc, alive, answer>>

\* Mutant of Retrieve: the chain's first node, without comparing its key.
RetrieveFirst(k) ==
  /\ alive
  /\ call' = <<"retrieve", k>>
  /\ LET chain == entries[Slot(k, Size)]
     IN  answer' = IF chain = <<>> THEN NULL ELSE chain[1].value
  /\ UNCHANGED <<table, inserts, heap>>
Retrieve(k) ==
  /\ alive
  /\ call' = <<"retrieve", k>>
  /\ LET chain == entries[Slot(k, Size)]
         at == Place(chain, k)
     IN  answer' = IF at = 0 THEN NULL ELSE chain[at].value
  /\ UNCHANGED <<table, inserts, heap>>

\* deletePair.
\* Mutant of Unlinked: the rest of the chain goes with the node.
UnlinkedWithRest(chain, at) == SubSeq(chain, 1, at - 1)
\* Mutant of Unlinked: the freed node stays in the chain.
UnlinkedNot(chain, at) == chain
Unlinked(chain, at) == RemoveAt(chain, at)

\* Mutant of DeletePair: count is not counted down.
DeletePairKeepsCount(k) ==
  /\ alive
  /\ call' = <<"delete", k>>
  /\ LET slot == Slot(k, Size)
         at == Place(entries[slot], k)
     IN  /\ at # 0
         /\ entries' = [entries EXCEPT ![slot] = Unlinked(@, at)]
         /\ freedKey' = Free(freedKey, entries[slot][at].keyObject)
         /\ freedValue' = Free(freedValue, entries[slot][at].value)
         /\ UNCHANGED <<count, hashFunc, alive, inserts, unowned, answer>>
DeletePair(k) ==
  /\ alive
  /\ call' = <<"delete", k>>
  /\ LET slot == Slot(k, Size)
         at == Place(entries[slot], k)
     IN  \/ at = 0 /\ UNCHANGED <<table, inserts, heap, answer>>
         \/ /\ at # 0
            /\ entries' = [entries EXCEPT ![slot] = Unlinked(@, at)]
            /\ count' = count - 1
            /\ freedKey' = Free(freedKey, entries[slot][at].keyObject)
            /\ freedValue' = Free(freedValue, entries[slot][at].value)
            /\ UNCHANGED <<hashFunc, alive, inserts, unowned, answer>>

Nodes == ToSet(FlattenSeq(entries))
Times(field, freed) == [o \in Object |-> freed[o] + Cardinality({n \in Nodes : n[field] = o})]
DestroyHashTable ==
  /\ alive
  /\ call' = <<"destroy">>
  /\ freedKey' = Times("keyObject", freedKey)
  /\ freedValue' = Times("value", freedValue)
  /\ alive' = FALSE
  /\ UNCHANGED <<hashFunc, entries, count, inserts, unowned, answer>>
-----------------------------------------------------------------------------
\* createHashTable.
Init == /\ hashFunc \in HashFuncs
        /\ \E size \in Sizes : entries = [s \in 1 .. size |-> <<>>]
        /\ count = 0
        /\ alive = TRUE
        /\ inserts = 0
        /\ freedKey = [o \in Object |-> 0]
        /\ freedValue = [o \in Object |-> 0]
        /\ unowned = {}
        /\ call = <<"create">>
        /\ answer = NULL

Next == \/ \E k \in Key : Insert(k) \/ Retrieve(k) \/ DeletePair(k)
        \/ DestroyHashTable

Spec == Init /\ [][Next]_vars
-----------------------------------------------------------------------------
(* Properties. *)

(* The table's fields have their types, and count counts the nodes.            *)
TypeOK ==
  /\ hashFunc \in HashFuncs /\ alive \in BOOLEAN /\ inserts \in 0 .. MaxInserts
  /\ entries \in Seq(Seq([key : Key, keyObject : Object, value : Object]))
  /\ count = Len(FlattenSeq(entries))
  /\ unowned \subseteq 1 .. inserts
  /\ answer \in Object \cup {NULL}

(* The table is a dictionary: whatever was inserted, overwritten, deleted and  *)
(* moved by a resize in whatever order, with colliding keys or without, an     *)
(* insert binds the key asked for to the value given and no other, a delete    *)
(* unbinds the key asked for and no other, and retrieve answers with the last  *)
(* value inserted for the key asked for.  Both state the call made last: a     *)
(* table that answers with another key's value, or does nothing, is no         *)
(* dictionary.                                                                 *)
Bound == IF alive THEN Nodes ELSE {}
ValueOf(k) == (CHOOSE n \in Bound : n.key = k).value
Abstract == INSTANCE Dictionary WITH Value <- Object,
                                     dict <- [k \in {n.key : n \in Bound} |-> ValueOf(k)]
ImplementsDictionary == Abstract!Spec

(* What the table holds is allocated, and nothing is freed twice: neither by a *)
(* destruction after deletes nor by an overwriting insert.                     *)
FreedOnce ==
  /\ \A o \in Object : freedKey[o] <= 1 /\ freedValue[o] <= 1
  /\ \A n \in Bound : freedKey[n.keyObject] = 0 /\ freedValue[n.value] = 0

(* Everything given to a table is freed by its destruction at the latest,      *)
(* except the key objects of inserts that have overwritten a value.            *)
OnlyUnownedKeysLeak ==
  ~alive => \A o \in 1 .. inserts : freedValue[o] = 1 /\ freedKey[o] = IF o \in unowned THEN 0 ELSE 1

(* Chains stay short on the average: the load passes three quarters by one     *)
(* node at most, however inserts, deletes and resizes follow each other.       *)
LoadIsBounded == 4 * count <= 3 * Size + 4
=============================================================================
