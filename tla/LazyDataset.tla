---- MODULE LazyDataset ----
(***************************************************************************)
(* The full dataset that hash() fills item by item as it is looked up      *)
(* (lazy_lookup in lib/ethash/ethash.cpp): the item is empty as long as    *)
(* its first 64-bit word is zero; an empty item is calculated and stored,  *)
(* and then the item is copied out.  Threads share the dataset without a   *)
(* lock or an atomic, which is a data race.                                *)
(*                                                                         *)
(* What the build can make of the race: each 64-bit word is loaded and     *)
(* stored whole; the words of an item are stored in any order; the words   *)
(* of the copy are loaded in any order, before or after the test of the    *)
(* first word.  A thread sees its own stores.  The calculation is a        *)
(* function of the index (calculate_dataset_item_1024), so all threads     *)
(* store the same words.                                                   *)
(***************************************************************************)
CONSTANTS
    Threads,
    Items,     \* dataset indices
    Words,     \* positions of the 64-bit words of an item
    First,     \* position 0, the one that is tested
    Values,    \* values of a word
    Zero,      \* the value calloc leaves
    Item,      \* Item[i][w]: the word calculated for item i at position w
    Unread,    \* a word of the copy that is not loaded yet
    HoistLoads \* whether loads of the copy may come before the test

ASSUME ConstantsAssumption ==
    /\ First \in Words
    /\ Zero \in Values /\ Unread \notin Values
    /\ Item \in [Items -> [Words -> Values]]
    /\ HoistLoads \in BOOLEAN

VARIABLES
    full_dataset,  \* the shared memory
    pc,            \* "idle" between lookups, else "test", "store" or "copy"
    index,         \* the item of the current or last lookup of each thread
    unstored,      \* the words a thread has still to store
    copy,          \* the item a lookup returns, as far as it is loaded
    sound,         \* ghost: the item was complete when the lookup began, or the lookup
                   \* calculated it itself
    stored         \* ghost: the items a thread has stored

vars == <<full_dataset, pc, index, unstored, copy, sound, stored>>

Nothing == [w \in Words |-> Unread]

Empty == [w \in Words |-> Zero]

Complete(i) == full_dataset[i] = Item[i]

Init ==
    /\ full_dataset = [i \in Items |-> Empty]
    /\ pc = [t \in Threads |-> "idle"]
    /\ index \in [Threads -> Items]
    /\ unstored = [t \in Threads |-> {}]
    /\ copy = [t \in Threads |-> Item[index[t]]]
    /\ sound = [t \in Threads |-> TRUE]
    /\ stored = [t \in Threads |-> {}]

Goto(t, l) == pc' = [pc EXCEPT ![t] = l]

Begin(t, i) ==
    /\ pc[t] = "idle"
    /\ index' = [index EXCEPT ![t] = i]
    /\ copy' = [copy EXCEPT ![t] = Nothing]
    /\ sound' = [sound EXCEPT ![t] = Complete(i)]
    /\ Goto(t, "test")
    /\ UNCHANGED <<full_dataset, unstored, stored>>

Load(t, w) ==
    /\ \/ pc[t] = "copy"
       \/ pc[t] = "test" /\ HoistLoads
    /\ copy[t][w] = Unread
    /\ copy' = [copy EXCEPT ![t][w] = full_dataset[index[t]][w]]
    /\ UNCHANGED <<full_dataset, pc, index, unstored, sound, stored>>

IsEmpty(i) == full_dataset[i][First] = Zero

FindPresent(t) ==
    /\ pc[t] = "test"
    /\ ~IsEmpty(index[t])
    /\ Goto(t, "copy")
    /\ UNCHANGED <<full_dataset, index, unstored, copy, sound, stored>>

\* Wrong variant of FindEmpty: only the word that is tested gets stored.
FindEmptyStoresFirst(t) ==
    /\ pc[t] = "test"
    /\ IsEmpty(index[t])
    /\ unstored' = [unstored EXCEPT ![t] = {First}]
    /\ copy' = [copy EXCEPT ![t] = Nothing]
    /\ sound' = [sound EXCEPT ![t] = TRUE]
    /\ Goto(t, "store")
    /\ UNCHANGED <<full_dataset, index, stored>>

\* Wrong variant of FindEmpty: the item is cleared before it is stored.
FindEmptyClears(t) ==
    /\ pc[t] = "test"
    /\ IsEmpty(index[t])
    /\ full_dataset' = [full_dataset EXCEPT ![index[t]] = Empty]
    /\ unstored' = [unstored EXCEPT ![t] = Words]
    /\ copy' = [copy EXCEPT ![t] = Nothing]
    /\ sound' = [sound EXCEPT ![t] = TRUE]
    /\ Goto(t, "store")
    /\ UNCHANGED <<index, stored>>

FindEmpty(t) ==
    /\ pc[t] = "test"
    /\ IsEmpty(index[t])
    /\ unstored' = [unstored EXCEPT ![t] = Words]
    /\ copy' = [copy EXCEPT ![t] = Nothing]
    /\ sound' = [sound EXCEPT ![t] = TRUE]
    /\ Goto(t, "store")
    /\ UNCHANGED <<full_dataset, index, stored>>

\* Wrong variant of Store: the copy is stored, which is not loaded yet.
StoreUnread(t, w) ==
    /\ pc[t] = "store"
    /\ w \in unstored[t]
    /\ full_dataset' = [full_dataset EXCEPT ![index[t]][w] = copy[t][w]]
    /\ unstored' = [unstored EXCEPT ![t] = @ \ {w}]
    /\ UNCHANGED <<pc, index, copy, sound, stored>>

\* Wrong variant of Store: the item is a local copy, not a reference into the dataset.
StoreInLocal(t, w) ==
    /\ pc[t] = "store"
    /\ w \in unstored[t]
    /\ unstored' = [unstored EXCEPT ![t] = @ \ {w}]
    /\ UNCHANGED <<full_dataset, pc, index, copy, sound, stored>>

Store(t, w) ==
    /\ pc[t] = "store"
    /\ w \in unstored[t]
    /\ full_dataset' = [full_dataset EXCEPT ![index[t]][w] = Item[index[t]][w]]
    /\ unstored' = [unstored EXCEPT ![t] = @ \ {w}]
    /\ UNCHANGED <<pc, index, copy, sound, stored>>

\* Wrong variant of EndStore: words may be left to be stored.
EndStoreTooEarly(t) ==
    /\ pc[t] = "store"
    /\ stored' = [stored EXCEPT ![t] = @ \cup {index[t]}]
    /\ Goto(t, "copy")
    /\ UNCHANGED <<full_dataset, index, unstored, copy, sound>>

EndStore(t) ==
    /\ pc[t] = "store"
    /\ unstored[t] = {}
    /\ stored' = [stored EXCEPT ![t] = @ \cup {index[t]}]
    /\ Goto(t, "copy")
    /\ UNCHANGED <<full_dataset, index, unstored, copy, sound>>

Return(t) ==
    /\ pc[t] = "copy"
    /\ \A w \in Words : copy[t][w] # Unread
    /\ Goto(t, "idle")
    /\ UNCHANGED <<full_dataset, index, unstored, copy, sound, stored>>

Next ==
    \E t \in Threads :
        \/ \E i \in Items : Begin(t, i)
        \/ \E w \in Words : Load(t, w) \/ Store(t, w)
        \/ FindPresent(t) \/ FindEmpty(t) \/ EndStore(t) \/ Return(t)

Spec == Init /\ [][Next]_vars

-----------------------------------------------------------------------------
(* Properties                                                              *)

\* Types of the variables.
TypeOK ==
    /\ full_dataset \in [Items -> [Words -> Values]]
    /\ pc \in [Threads -> {"idle", "test", "store", "copy"}]
    /\ index \in [Threads -> Items]
    /\ unstored \in [Threads -> SUBSET Words]
    /\ copy \in [Threads -> [Words -> Values \cup {Unread}]]
    /\ sound \in [Threads -> BOOLEAN]
    /\ stored \in [Threads -> SUBSET Items]

Exact(t) == copy[t] = Item[index[t]]

\* A lookup of an item that was complete when the lookup began, and one that found the
\* item empty, return the item, whatever the other threads store meanwhile.  The rest
\* are the lookups that run into another thread's stores.
SoundLookupsExact ==
    \A t \in Threads : pc[t] = "idle" /\ sound[t] => Exact(t)

\* An item is never left half stored: what it lacks, some thread still has to store,
\* unless nobody has stored anything in it.  In particular a torn lookup spoils
\* nothing for the others.
NoItemAbandoned ==
    \A i \in Items :
        \/ full_dataset[i] = Empty
        \/ \A w \in Words :
            \/ full_dataset[i][w] = Item[i][w]
            \/ \E t \in Threads : pc[t] = "store" /\ index[t] = i /\ w \in unstored[t]

\* A thread calculates an item once, unless the item begins with a zero word, which is
\* calculated at every lookup.
CalculatedOnce ==
    \A t \in Threads :
        pc[t] = "store" /\ index[t] \in stored[t] => Item[index[t]][First] = Zero

\* A word that is stored stays: no thread ever undoes another's work.
WordsSettle ==
    [][\A i \in Items, w \in Words :
          full_dataset[i][w] = Item[i][w] => full_dataset'[i][w] = Item[i][w]]_vars

\* What the multithreaded test small_dataset takes for granted: every thread gets every
\* item right.
EveryLookupExact == \A t \in Threads : pc[t] = "idle" => Exact(t)

=============================================================================
