---- MODULE LazyDatasetProofs ----
(***************************************************************************)
(* What survives the data race on the full dataset, for any number of      *)
(* threads, items and words.                                               *)
(***************************************************************************)
EXTENDS LazySearch, TLAPS

\* A thread's own stores are in memory, and stay there.
StoringOK(t) ==
    pc[t] = "store" =>
        /\ sound[t]
        /\ \A w \in Words : copy[t][w] = Unread
        /\ \A w \in Words \ unstored[t] : full_dataset[index[t]][w] = Item[index[t]][w]

StoredOK(t) == \A i \in stored[t] : Complete(i)

\* A sound lookup reads a complete item.
CopyOK(t) ==
    sound[t] =>
        /\ pc[t] \in {"test", "copy"} =>
              /\ Complete(index[t])
              /\ \A w \in Words : copy[t][w] \in {Unread, Item[index[t]][w]}
        /\ pc[t] = "idle" => Exact(t)

ThreadInv == \A t \in Threads : StoringOK(t) /\ StoredOK(t) /\ CopyOK(t)

IInv ==
    /\ TypeOK /\ ThreadInv
    /\ NoItemAbandoned /\ CalculatedOnce

LEMMA InitIInv == Init => IInv
  BY ConstantsAssumption
  DEF Init, IInv, TypeOK, ThreadInv, StoringOK, StoredOK, CopyOK, NoItemAbandoned, CalculatedOnce,
      Exact, Empty

LEMMA StepIInv == IInv /\ [Next]_vars => IInv'
<1> SUFFICES ASSUME IInv, [Next]_vars PROVE IInv'
  OBVIOUS
<1> USE ConstantsAssumption DEF IInv, TypeOK, NoItemAbandoned, CalculatedOnce, Goto
<1>1. CASE UNCHANGED vars
  BY <1>1 DEF vars, ThreadInv, StoringOK, StoredOK, CopyOK, Complete, Exact
<1>2. ASSUME NEW t \in Threads, NEW i \in Items, Begin(t, i) PROVE IInv'
  <2>1. TypeOK' /\ NoItemAbandoned' /\ CalculatedOnce'
    BY <1>2 DEF Begin, Nothing, ThreadInv, StoringOK, StoredOK, Complete
  <2>2. ASSUME NEW u \in Threads PROVE StoringOK(u)'
    BY <1>2, <2>2 DEF Begin, Nothing, ThreadInv, StoringOK
  <2>3. ASSUME NEW u \in Threads PROVE StoredOK(u)'
    BY <1>2, <2>3 DEF Begin, Nothing, ThreadInv, StoringOK, StoredOK, Complete
  <2>4. ASSUME NEW u \in Threads PROVE CopyOK(u)'
    <3>1. CASE u = t
      BY <1>2, <3>1 DEF Begin, Nothing, CopyOK, Complete
    <3>2. CASE u # t
      BY <1>2, <2>4, <3>2 DEF Begin, ThreadInv, CopyOK, Complete, Exact
    <3> QED
      BY <3>1, <3>2
  <2> QED
    BY <2>1, <2>2, <2>3, <2>4 DEF ThreadInv
<1>3. ASSUME NEW t \in Threads, NEW w \in Words, Load(t, w) PROVE IInv'
  <2>1. TypeOK' /\ NoItemAbandoned' /\ CalculatedOnce'
    BY <1>3 DEF Load, ThreadInv, StoringOK, StoredOK, Complete
  <2>2. ASSUME NEW u \in Threads PROVE StoringOK(u)'
    BY <1>3, <2>2 DEF Load, ThreadInv, StoringOK
  <2>3. ASSUME NEW u \in Threads PROVE StoredOK(u)'
    BY <1>3, <2>3 DEF Load, ThreadInv, StoringOK, StoredOK, Complete
  <2>4. ASSUME NEW u \in Threads PROVE CopyOK(u)'
    BY <1>3, <2>4 DEF Load, ThreadInv, StoringOK, CopyOK, Complete, Exact
  <2> QED
    BY <2>1, <2>2, <2>3, <2>4 DEF ThreadInv
<1>4. ASSUME NEW t \in Threads, NEW w \in Words, Store(t, w) PROVE IInv'
  <2>1. TypeOK' /\ NoItemAbandoned' /\ CalculatedOnce'
    BY <1>4 DEF Store, ThreadInv, StoringOK
  <2>2. \A i \in Items : Complete(i) => Complete(i)'
    BY <1>4 DEF Store, Complete
  <2>3. ASSUME NEW u \in Threads PROVE StoringOK(u)'
    <3>1. \A i \in Items, v \in Words :
             full_dataset'[i][v] = IF i = index[t] /\ v = w THEN Item[i][v]
                                   ELSE full_dataset[i][v]
      BY <1>4 DEF Store
    <3> QED
      BY <1>4, <3>1 DEF Store, ThreadInv, StoringOK
  <2>4. ASSUME NEW u \in Threads PROVE StoredOK(u)'
    BY <1>4, <2>2 DEF Store, ThreadInv, StoredOK
  <2>5. ASSUME NEW u \in Threads PROVE CopyOK(u)'
    BY <1>4, <2>2 DEF Store, ThreadInv, CopyOK, Exact
  <2> QED
    BY <2>1, <2>3, <2>4, <2>5 DEF ThreadInv
<1>5. ASSUME NEW t \in Threads, FindPresent(t) PROVE IInv'
  <2>1. TypeOK' /\ NoItemAbandoned' /\ CalculatedOnce'
    BY <1>5 DEF FindPresent, ThreadInv, StoringOK, StoredOK, Complete
  <2>2. ASSUME NEW u \in Threads PROVE StoringOK(u)'
    BY <1>5, <2>2 DEF FindPresent, ThreadInv, StoringOK
  <2>3. ASSUME NEW u \in Threads PROVE StoredOK(u)'
    BY <1>5, <2>3 DEF FindPresent, ThreadInv, StoringOK, StoredOK, Complete
  <2>4. ASSUME NEW u \in Threads PROVE CopyOK(u)'
    BY <1>5, <2>4 DEF FindPresent, ThreadInv, StoringOK, CopyOK, Complete, Exact
  <2> QED
    BY <2>1, <2>2, <2>3, <2>4 DEF ThreadInv
<1>6. ASSUME NEW t \in Threads, FindEmpty(t) PROVE IInv'
  <2>1. TypeOK' /\ NoItemAbandoned' /\ CalculatedOnce'
    BY <1>6 DEF FindEmpty, IsEmpty, Nothing, ThreadInv, StoringOK, StoredOK, Complete
  <2>2. ASSUME NEW u \in Threads PROVE StoringOK(u)'
    BY <1>6, <2>2 DEF FindEmpty, IsEmpty, Nothing, ThreadInv, StoringOK
  <2>3. ASSUME NEW u \in Threads PROVE StoredOK(u)'
    BY <1>6, <2>3 DEF FindEmpty, IsEmpty, Nothing, ThreadInv, StoringOK, StoredOK, Complete
  <2>4. ASSUME NEW u \in Threads PROVE CopyOK(u)'
    BY <1>6, <2>4 DEF FindEmpty, IsEmpty, Nothing, ThreadInv, StoringOK, CopyOK, Complete, Exact
  <2> QED
    BY <2>1, <2>2, <2>3, <2>4 DEF ThreadInv
<1>7. ASSUME NEW t \in Threads, EndStore(t) PROVE IInv'
  <2>1. TypeOK' /\ NoItemAbandoned' /\ CalculatedOnce'
    BY <1>7 DEF EndStore
  <2>2. Complete(index[t])
    <3>1. \A w \in Words : full_dataset[index[t]][w] = Item[index[t]][w]
      BY <1>7 DEF EndStore, ThreadInv, StoringOK
    <3>2. index[t] \in Items
      OBVIOUS
    <3> DEFINE k == index[t]
    <3> HIDE DEF k
    <3>3. full_dataset[k] = Item[k]
      BY <3>1, <3>2 DEF k
    <3> QED
      BY <3>3 DEF Complete, k
  <2>3. ASSUME NEW u \in Threads PROVE StoringOK(u)'
    BY <1>7 DEF EndStore, ThreadInv, StoringOK
  <2>4. ASSUME NEW u \in Threads PROVE StoredOK(u)'
    BY <1>7, <2>2 DEF EndStore, ThreadInv, StoredOK, Complete
  <2>5. ASSUME NEW u \in Threads PROVE CopyOK(u)'
    <3>1. CASE u = t
      BY <1>7, <2>2, <3>1 DEF EndStore, ThreadInv, StoringOK, CopyOK, Complete
    <3>2. CASE u # t
      BY <1>7, <3>2 DEF EndStore, ThreadInv, CopyOK, Complete, Exact
    <3> QED
      BY <3>1, <3>2
  <2> QED
    BY <2>1, <2>3, <2>4, <2>5 DEF ThreadInv
<1>8. ASSUME NEW t \in Threads, Return(t) PROVE IInv'
  <2>1. TypeOK' /\ NoItemAbandoned' /\ CalculatedOnce'
    BY <1>8 DEF Return, ThreadInv, StoringOK, StoredOK, Complete
  <2>2. ASSUME NEW u \in Threads PROVE StoringOK(u)'
    BY <1>8, <2>2 DEF Return, ThreadInv, StoringOK
  <2>3. ASSUME NEW u \in Threads PROVE StoredOK(u)'
    BY <1>8, <2>3 DEF Return, ThreadInv, StoringOK, StoredOK, Complete
  <2>4. ASSUME NEW u \in Threads PROVE CopyOK(u)'
    BY <1>8, <2>4 DEF Return, ThreadInv, StoringOK, CopyOK, Complete, Exact
  <2> QED
    BY <2>1, <2>2, <2>3, <2>4 DEF ThreadInv
<1> QED
  BY <1>1, <1>2, <1>3, <1>4, <1>5, <1>6, <1>7, <1>8 DEF Next

LEMMA InductiveInv == Spec => []IInv
  BY InitIInv, StepIInv, PTL DEF Spec

-----------------------------------------------------------------------------

\* The types of the variables: memory holds values and nothing else.
THEOREM TypeCorrect == Spec => []TypeOK
<1>1. IInv => TypeOK
  BY DEF IInv
<1> QED
  BY InductiveInv, <1>1, PTL

\* A lookup goes wrong only when it runs into another thread's stores.
THEOREM SoundLookupsAreExact == Spec => []SoundLookupsExact
<1>1. IInv => SoundLookupsExact
  BY DEF IInv, ThreadInv, CopyOK, SoundLookupsExact
<1> QED
  BY InductiveInv, <1>1, PTL

\* No item is left half stored.
THEOREM ItemsAreFinished == Spec => []NoItemAbandoned
<1>1. IInv => NoItemAbandoned
  BY DEF IInv
<1> QED
  BY InductiveInv, <1>1, PTL

\* No thread calculates an item twice, but for items that begin with a zero word.
THEOREM ItemsAreCalculatedOnce == Spec => []CalculatedOnce
<1>1. IInv => CalculatedOnce
  BY DEF IInv
<1> QED
  BY InductiveInv, <1>1, PTL

\* No thread undoes another's stores.
THEOREM StoredWordsStay == Spec => WordsSettle
<1> DEFINE Stay == \A i \in Items, w \in Words :
        full_dataset[i][w] = Item[i][w] => full_dataset'[i][w] = Item[i][w]
<1>1. TypeOK /\ [Next]_vars => [Stay]_vars
  <2> SUFFICES ASSUME TypeOK, Next PROVE Stay
    OBVIOUS
  <2>1. ASSUME NEW t \in Threads, NEW w \in Words, Store(t, w) PROVE Stay
    BY <2>1, ConstantsAssumption DEF TypeOK, Store
  <2>2. CASE UNCHANGED full_dataset
    BY <2>2
  <2> QED
    BY <2>1, <2>2 DEF Next, Begin, Load, FindPresent, FindEmpty, EndStore, Return
<1>2. IInv => TypeOK
  BY DEF IInv
<1> QED
  BY InductiveInv, <1>1, <1>2, PTL DEF Spec, WordsSettle

(***************************************************************************)
(* Searches over the words in memory.                                      *)
(***************************************************************************)

\* Memory holds what calloc left and words of items.
MemoryInv == \A p \in Items, w \in Words : full_dataset[p][w] \in {Zero, Item[p][w]}

\* What the kernel accesses is in the dataset.
AccessTyped ==
    nonce \in S!Nonces /\ mix \in S!Word /\ access \in 0..Accesses /\ torn \in BOOLEAN

\* During a lookup the kernel waits at the access it is for.
KernelWaits ==
    pc[me] # "idle" =>
        at = "kernel" /\ access < Accesses /\ job = "search" /\ index[me] = S!Accessed

\* A lookup that copies without being sound has found a word in its item.
FoundWord == pc[me] = "copy" /\ ~sound[me] => ~IsEmpty(index[me])

SearchInv == IInv /\ MemoryInv /\ AccessTyped /\ KernelWaits /\ FoundWord

LEMMA AccessedItem == AccessTyped /\ S!AtAccess => S!Accessed \in Items
<1> SUFFICES ASSUME AccessTyped, S!AtAccess PROVE S!Accessed \in Items
  OBVIOUS
<1>1. <<nonce, access, mix>> \in S!Nonces \X (0..Accesses - 1) \X S!Word
  BY SearchAssumption DEF AccessTyped, S!AtAccess
<1> QED
  BY <1>1, SearchAssumption DEF S!Accessed

\* The thread that searches looks up as the others do.
LEMMA SearchesLookUp == SearchInv /\ [SearchNext]_searchVars => [Next]_vars
<1> SUFFICES ASSUME SearchInv, [SearchNext]_searchVars PROVE [Next]_vars
  OBVIOUS
<1>1. CASE BeginAccess
  BY <1>1, AccessedItem, SearchAssumption DEF BeginAccess, SearchInv, Next
<1>2. CASE EndAccess
  BY <1>2, SearchAssumption DEF EndAccess, Next
<1>3. ASSUME NEW t \in Threads, Lookup(t) \/ OtherLookup(t) PROVE [Next]_vars
  BY <1>3 DEF Lookup, OtherLookup, Next
<1> QED
  BY <1>1, <1>2, <1>3 DEF SearchNext, Call, searchVars

\* Only stores change the memory.
LEMMA MemoryStep ==
    ASSUME TypeOK, [Next]_vars
    PROVE  \/ UNCHANGED full_dataset
           \/ \E t \in Threads, w \in Words : Store(t, w)
  BY DEF Next, vars, Begin, Load, FindPresent, FindEmpty, EndStore, Return

\* A word once stored stays, and an item that was begun or complete is so for ever.
LEMMA MemoryGrows ==
    ASSUME TypeOK, MemoryInv, [Next]_vars
    PROVE  /\ MemoryInv'
           /\ \A p \in Items : Complete(p) => Complete(p)'
           /\ \A p \in Items : full_dataset[p] # Empty => full_dataset'[p] # Empty
           /\ \A p \in Items : ~IsEmpty(p) => ~IsEmpty(p)'
<1>1. CASE UNCHANGED full_dataset
  BY <1>1 DEF MemoryInv, Complete, IsEmpty
<1>2. ASSUME NEW t \in Threads, NEW w \in Words, Store(t, w)
      PROVE  /\ MemoryInv'
             /\ \A p \in Items : Complete(p) => Complete(p)'
             /\ \A p \in Items : full_dataset[p] # Empty => full_dataset'[p] # Empty
             /\ \A p \in Items : ~IsEmpty(p) => ~IsEmpty(p)'
  <2>1. /\ full_dataset' \in [Items -> [Words -> Values]]
        /\ \A p \in Items, v \in Words :
             full_dataset'[p][v] = IF p = index[t] /\ v = w THEN Item[p][v]
                                   ELSE full_dataset[p][v]
    BY <1>2, ConstantsAssumption DEF Store, TypeOK
  <2>2. MemoryInv' /\ \A p \in Items : ~IsEmpty(p) => ~IsEmpty(p)'
    BY <2>1, ConstantsAssumption DEF MemoryInv, IsEmpty
  <2>3. \A p \in Items : Complete(p) => Complete(p)'
    BY <1>2, ConstantsAssumption DEF Store, TypeOK, Complete
  <2>4. ASSUME NEW p \in Items, full_dataset[p] # Empty PROVE full_dataset'[p] # Empty
    <3>1. full_dataset[p] \in [Words -> Values] /\ Empty \in [Words -> {Zero}]
      BY DEF TypeOK, Empty
    <3>2. PICK v \in Words : full_dataset[p][v] # Zero
      BY <2>4, <3>1 DEF Empty
    <3>3. full_dataset'[p][v] # Zero
      BY <2>1, <3>2 DEF MemoryInv
    <3> QED
      BY <3>3 DEF Empty
  <2> QED
    BY <2>2, <2>3, <2>4
<1> QED
  BY <1>1, <1>2, MemoryStep

-----------------------------------------------------------------------------
(* The dataset of Search.                                                  *)

\* What this thread makes of an item.
Status(p) ==
    IF Complete(p) /\ ~(index[me] = p /\ ~sound[me]) THEN "complete"
    ELSE IF full_dataset[p] = Empty THEN "empty"
    ELSE "partial"

\* One item goes on, and nothing else.
LEMMA OneItemGoesOn ==
    ASSUME NEW q \in Items,
           \A p \in Items \ {q} : Status(p)' = Status(p),
           Status(q) = "complete" => Status(q)' = "complete",
           Status(q)' = "empty" => Status(q) = "empty",
           UNCHANGED calls
    PROVE  UNCHANGED AbsDataset \/ S!OthersStore
<1>1. AbsDataset = [p \in Items |-> Status(p)] /\ AbsDataset' = [p \in Items |-> Status(p)']
  BY DEF AbsDataset, Status
<1>2. CASE Status(q)' = Status(q)
  BY <1>1, <1>2
<1>3. CASE Status(q)' # Status(q)
  <2>1. Status(q)' \in {"partial", "complete"} /\ AbsDataset[q] # "complete"
    BY <1>1, <1>3 DEF Status
  <2>2. AbsDataset' = [AbsDataset EXCEPT ![q] = Status(q)']
    BY <1>1
  <2> QED
    BY <2>1, <2>2 DEF S!OthersStore, S!args, calls
<1> QED
  BY <1>2, <1>3

\* Whatever a thread does in a lookup, Search sees at most one item go on.
LEMMA DatasetStep ==
    ASSUME SearchInv, NEW t \in Threads, UNCHANGED calls,
           \/ \E p \in Items : Begin(t, p)
           \/ \E w \in Words : Load(t, w) \/ Store(t, w)
           \/ FindPresent(t) \/ FindEmpty(t) \/ EndStore(t)
    PROVE  UNCHANGED AbsDataset \/ S!OthersStore
<1> USE DEF SearchInv, IInv, TypeOK
<1>1. /\ \A p \in Items : Complete(p) => Complete(p)'
      /\ \A p \in Items : full_dataset[p] # Empty => full_dataset'[p] # Empty
  BY MemoryGrows DEF Next
<1>2. index[me] \in Items /\ index[t] \in Items
  BY SearchAssumption
<1>3. CASE UNCHANGED <<full_dataset, index, sound>>
  BY <1>3 DEF AbsDataset, Complete
<1>4. ASSUME NEW p \in Items, Begin(t, p) PROVE UNCHANGED AbsDataset \/ S!OthersStore
  <2>1. /\ UNCHANGED full_dataset
        /\ index'[me] = IF t = me THEN p ELSE index[me]
        /\ sound'[me] = IF t = me THEN Complete(p) ELSE sound[me]
    BY <1>4, SearchAssumption DEF Begin
  <2> PICK q \in Items : q = index[me]
    BY <1>2
  <2>2. \A x \in Items \ {q} : Status(x)' = Status(x)
    BY <2>1 DEF Status, Complete
  <2>3. /\ Status(q) = "complete" => Status(q)' = "complete"
        /\ Status(q)' = "empty" => Status(q) = "empty"
    BY <2>1 DEF Status, Complete
  <2> QED
    BY <2>2, <2>3, OneItemGoesOn
<1>5. CASE FindEmpty(t)
  <2>1. /\ UNCHANGED <<full_dataset, index>>
        /\ sound'[me] = IF t = me THEN TRUE ELSE sound[me]
    BY <1>5, SearchAssumption DEF FindEmpty
  <2> PICK q \in Items : q = index[me]
    BY <1>2
  <2>2. \A x \in Items \ {q} : Status(x)' = Status(x)
    BY <2>1 DEF Status, Complete
  <2>3. /\ Status(q) = "complete" => Status(q)' = "complete"
        /\ Status(q)' = "empty" => Status(q) = "empty"
    BY <2>1 DEF Status, Complete
  <2> QED
    BY <2>2, <2>3, OneItemGoesOn
<1>6. ASSUME NEW w \in Words, Store(t, w) PROVE UNCHANGED AbsDataset \/ S!OthersStore
  <2>1. /\ UNCHANGED <<index, sound>>
        /\ \A x \in Items : x # index[t] => full_dataset'[x] = full_dataset[x]
    BY <1>6 DEF Store
  <2> PICK q \in Items : q = index[t]
    BY <1>2
  <2>2. \A x \in Items \ {q} : Status(x)' = Status(x)
    BY <2>1 DEF Status, Complete
  <2>3. /\ Status(q) = "complete" => Status(q)' = "complete"
        /\ Status(q)' = "empty" => Status(q) = "empty"
    BY <1>1, <1>2, <2>1 DEF Status
  <2> QED
    BY <2>2, <2>3, OneItemGoesOn
<1> QED
  BY <1>3, <1>4, <1>5, <1>6 DEF Load, FindPresent, EndStore

-----------------------------------------------------------------------------

LEMMA InitSearchInv == SearchInit => SearchInv
<1> SUFFICES ASSUME SearchInit PROVE SearchInv
  OBVIOUS
<1>1. IInv
  BY InitIInv DEF SearchInit
<1>2. MemoryInv
  BY DEF SearchInit, Init, Empty, MemoryInv
<1>3. AccessTyped
  <2>1. nonce = 0 /\ mix = 0 /\ access = 0 /\ torn = FALSE
    BY Zenon DEF SearchInit, S!Init
  <2>2. 0 \in S!Nonces /\ 0 \in S!Word /\ 0 \in 0..Accesses
    BY SearchAssumption DEF S!Nonces, S!Word
  <2> QED
    BY <2>1, <2>2 DEF AccessTyped
<1>4. KernelWaits /\ FoundWord
  BY SearchAssumption DEF SearchInit, Init, KernelWaits, FoundWord
<1> QED
  BY <1>1, <1>2, <1>3, <1>4 DEF SearchInv

\* Outside of lookups, the locals of the kernel keep their types.
LEMMA CallTyped == AccessTyped /\ IInv /\ Call => AccessTyped'
<1> SUFFICES ASSUME AccessTyped, IInv, Call PROVE AccessTyped'
  OBVIOUS
<1> USE DEF AccessTyped
<1>1. 0 \in S!Nonces /\ 0 \in S!Word /\ 0 \in 0..Accesses
  BY SearchAssumption DEF S!Nonces, S!Word
<1>2. \A n \in S!Nonces : FirstMix[n] \in S!Word
  BY SearchAssumption
<1>3. ASSUME NEW n \in S!Nonces, NEW c \in Nat PROVE S!Add(n, c) \in S!Nonces
  <2>1. n + c \in Nat /\ NonceLimit \in Nat \ {0}
    BY SearchAssumption DEF S!Nonces
  <2> DEFINE sum == n + c
  <2>2. sum % NonceLimit \in 0..NonceLimit - 1
    <3> HIDE DEF sum
    <3> QED
      BY <2>1 DEF sum
  <2> QED
    BY <2>2 DEF S!Add, S!Nonces
<1>4. ASSUME NEW kind \in S!Searches, NEW b \in S!Word, NEW n \in S!Nonces,
             NEW c \in 0..MaxIterations, S!Search(kind, b, n, c)
      PROVE  AccessTyped'
  BY <1>4 DEF S!Search
<1>5. ASSUME NEW kind \in S!Verifications, NEW b \in S!Word, NEW n \in S!Nonces, NEW m \in S!Word,
             S!Reject(kind, b, n, m) \/ S!AcceptFinal(kind, b, n, m) \/ S!Recompute(kind, b, n, m)
      PROVE  AccessTyped'
  BY <1>1, <1>2, <1>5 DEF S!Reject, S!AcceptFinal, S!Recompute, S!Verify, S!StartKernel
<1>6. CASE S!TryNonce
  BY <1>1, <1>2, <1>6 DEF S!TryNonce, S!StartKernel
<1>7. CASE S!Exhausted \/ S!Found \/ S!Judge
  BY <1>7 DEF S!Exhausted, S!Found, S!Judge
<1>8. CASE S!Missed
  BY <1>3, <1>8 DEF S!Missed
<1>9. CASE S!AccessLight
  <2>1. S!AtAccess /\ S!Accessed \in Items
    BY <1>9, AccessedItem DEF S!AccessLight
  <2>2. Code[Item[S!Accessed]] \in S!Word
    BY <2>1, ConstantsAssumption, SearchAssumption
  <2>3. /\ mix' = Fnv[<<mix, Code[Item[S!Accessed]]>>]
        /\ access' = access + 1 /\ nonce' = nonce /\ torn' = torn
    BY <1>9, <2>1 DEF S!AccessLight, S!Absorb, AbsItem
  <2>4. mix' \in S!Word
    BY <2>2, <2>3, SearchAssumption
  <2> QED
    BY <2>1, <2>3, <2>4, SearchAssumption DEF S!AtAccess
<1>10. CASE S!Leave
  BY <1>1, <1>10 DEF S!Leave
<1> QED
  BY <1>4, <1>5, <1>6, <1>7, <1>8, <1>9, <1>10 DEF Call

\* A lookup returns a word of Search.
LEMMA ReturnsWord ==
    ASSUME IInv, Return(me)
    PROVE  copy[me] \in [Words -> Values] /\ Code[copy[me]] \in S!Word
<1>1. copy[me] \in [Words -> Values \cup {Unread}] /\ \A w \in Words : copy[me][w] # Unread
  BY SearchAssumption DEF IInv, TypeOK, Return
<1>2. copy[me] \in [Words -> Values]
  BY <1>1
<1> QED
  BY <1>2, SearchAssumption

LEMMA StepSearchInv == SearchInv /\ [SearchNext]_searchVars => SearchInv'
<1> SUFFICES ASSUME SearchInv, [SearchNext]_searchVars PROVE SearchInv'
  OBVIOUS
<1> USE DEF SearchInv
<1>1. [Next]_vars
  BY SearchesLookUp
<1>2. IInv' /\ MemoryInv' /\ \A p \in Items : ~IsEmpty(p) => ~IsEmpty(p)'
  BY <1>1, StepIInv, MemoryGrows DEF IInv
<1>3. me \in Threads /\ index[me] \in Items /\ pc \in [Threads -> {"idle", "test", "store", "copy"}]
  BY SearchAssumption DEF IInv, TypeOK
<1>4. FoundWord'
  <2>1. CASE UNCHANGED <<pc, index, sound>>
    BY <1>2, <1>3, <2>1 DEF FoundWord, IsEmpty
  <2>2. ASSUME NEW t \in Threads, NEW p \in Items, Begin(t, p) PROVE FoundWord'
    BY <1>3, <2>2 DEF Begin, Goto, FoundWord, IsEmpty, IInv, TypeOK
  <2>3. ASSUME NEW t \in Threads, FindPresent(t) PROVE FoundWord'
    BY <1>3, <2>3 DEF FindPresent, Goto, FoundWord, IsEmpty
  <2>4. ASSUME NEW t \in Threads, FindEmpty(t) PROVE FoundWord'
    BY <1>3, <2>4 DEF FindEmpty, Goto, FoundWord, IsEmpty
  <2>5. ASSUME NEW t \in Threads, EndStore(t) PROVE FoundWord'
    BY <1>3, <2>5 DEF EndStore, Goto, FoundWord, IsEmpty, IInv, ThreadInv, StoringOK
  <2>6. ASSUME NEW t \in Threads, Return(t) PROVE FoundWord'
    BY <1>3, <2>6 DEF Return, Goto, FoundWord, IsEmpty
  <2> QED
    BY <1>1, <2>1, <2>2, <2>3, <2>4, <2>5, <2>6 DEF Next, vars, Load, Store
<1>5. CASE UNCHANGED searchVars
  BY <1>2, <1>4, <1>5 DEF searchVars, vars, calls, AccessTyped, KernelWaits, S!Accessed
<1>6. CASE Call
  BY <1>2, <1>4, <1>6, CallTyped DEF Call, vars, KernelWaits
<1>7. CASE BeginAccess
  <2>1. S!AtAccess /\ job = "search" /\ S!Accessed \in Items /\ Begin(me, S!Accessed)
    BY <1>7, AccessedItem DEF BeginAccess
  <2>2. index'[me] = S!Accessed
    BY <1>3, <2>1 DEF Begin, IInv, TypeOK
  <2>3. UNCHANGED calls /\ S!Accessed' = S!Accessed
    BY <1>7 DEF BeginAccess, calls, S!Accessed
  <2> QED
    BY <1>2, <1>4, <2>1, <2>2, <2>3 DEF calls, AccessTyped, KernelWaits, S!AtAccess
<1>8. CASE EndAccess
  <2>1. pc'[me] = "idle" /\ pc[me] = "copy"
    BY <1>3, <1>8 DEF EndAccess, Return, Goto
  <2>2. Code[copy[me]] \in S!Word
    BY <1>8, ReturnsWord DEF EndAccess
  <2>3. mix' = Fnv[<<mix, Code[copy[me]]>>] /\ access' = access + 1 /\ nonce' = nonce
    BY <1>8 DEF EndAccess, S!Absorb
  <2>4. mix' \in S!Word
    BY <2>2, <2>3, SearchAssumption DEF AccessTyped
  <2>5. access + 1 \in 0..Accesses
    BY <2>1, SearchAssumption DEF AccessTyped, KernelWaits
  <2>6. torn' \in BOOLEAN
    BY <1>8 DEF EndAccess
  <2> QED
    BY <1>2, <1>4, <2>1, <2>3, <2>4, <2>5, <2>6 DEF AccessTyped, KernelWaits
<1>9. ASSUME NEW t \in Threads, Lookup(t) \/ OtherLookup(t) PROVE SearchInv'
  <2>1. UNCHANGED calls
    BY <1>9 DEF Lookup, OtherLookup
  <2>2. AccessTyped' /\ S!Accessed' = S!Accessed
    BY <2>1 DEF calls, AccessTyped, S!Accessed
  <2>3. index'[me] = index[me] /\ (pc[me] = "idle" => pc'[me] = "idle")
    <3>1. index \in [Threads -> Items]
      BY DEF IInv, TypeOK
    <3>2. CASE Lookup(t)
      BY <1>3, <3>2 DEF Lookup, Load, Store, FindPresent, FindEmpty, EndStore, Goto
    <3>3. CASE OtherLookup(t)
      BY <1>3, <3>1, <3>3 DEF OtherLookup, Begin, Return, Goto
    <3> QED
      BY <1>9, <3>2, <3>3
  <2> QED
    BY <1>2, <1>4, <2>1, <2>2, <2>3 DEF calls, KernelWaits
<1> QED
  BY <1>5, <1>6, <1>7, <1>8, <1>9 DEF SearchNext

-----------------------------------------------------------------------------
(* The steps of a search are steps of Search.                              *)

\* A lookup returns what Search lets it return.
LEMMA EndAccessImplements ==
    ASSUME SearchInv, EndAccess PROVE S!AccessLazy \/ S!AccessTorn
<1> USE DEF SearchInv
<1>1. me \in Threads /\ pc[me] = "copy" /\ S!AtAccess /\ job = "search"
  BY SearchAssumption DEF EndAccess, Return, KernelWaits, S!AtAccess
<1>2. PICK q \in Items : q = index[me]
  BY <1>1 DEF IInv, TypeOK
<1>3. q = S!Accessed
  BY <1>1, <1>2 DEF KernelWaits
<1>4. UNCHANGED AbsDataset
  BY DEF EndAccess, Return, AbsDataset, Complete
<1>5. S!Absorb(Code[copy[me]]) /\ torn' = (torn \/ ~sound[me])
  BY DEF EndAccess
<1>6. CASE sound[me]
  <2>1. Complete(q) /\ \A w \in Words : copy[me][w] = Item[q][w]
    BY <1>1, <1>2, <1>6 DEF IInv, ThreadInv, CopyOK, EndAccess, Return
  <2>2. copy[me] = Item[q]
    BY <1>2, <2>1, ReturnsWord, ConstantsAssumption DEF EndAccess
  <2>3. AbsDataset[q] = "complete"
    BY <1>2, <1>6, <2>1 DEF AbsDataset
  <2>4. AbsDataset' = [AbsDataset EXCEPT ![S!Accessed] = "complete"]
    BY <1>3, <1>4, <2>3 DEF AbsDataset
  <2>5. torn' = torn
    BY <1>5, <1>6 DEF AccessTyped
  <2>6. S!Absorb(AbsItem[S!Accessed])
    BY <1>3, <1>5, <2>2 DEF AbsItem
  <2> QED
    BY <1>1, <2>4, <2>5, <2>6 DEF S!AccessLazy
<1>7. CASE ~sound[me]
  <2>1. full_dataset[q] # Empty
    BY <1>1, <1>2, <1>7, ConstantsAssumption DEF FoundWord, IsEmpty, Empty
  <2>2. AbsDataset[S!Accessed] = "partial"
    BY <1>2, <1>3, <1>7, <2>1 DEF AbsDataset
  <2>3. \E word \in S!Word : S!Absorb(word)
    BY <1>5, ReturnsWord DEF EndAccess
  <2> QED
    BY <1>1, <1>4, <1>5, <1>7, <2>2, <2>3 DEF S!AccessTorn
<1> QED
  BY <1>6, <1>7

LEMMA SearchStep == SearchInv /\ [SearchNext]_searchVars => [S!Next]_S!vars
<1> SUFFICES ASSUME SearchInv, [SearchNext]_searchVars PROVE [S!Next]_S!vars
  OBVIOUS
<1>1. UNCHANGED calls /\ UNCHANGED AbsDataset => UNCHANGED S!vars
  BY DEF calls, S!vars
<1>2. UNCHANGED calls /\ S!OthersStore => S!Next
  BY DEF S!Next
<1>3. CASE UNCHANGED searchVars
  BY <1>1, <1>3 DEF searchVars, vars, AbsDataset, Complete
<1>4. CASE Call
  BY <1>4 DEF Call, S!Next
<1>5. CASE BeginAccess
  BY <1>1, <1>2, <1>5, AccessedItem, DatasetStep, SearchAssumption DEF BeginAccess, SearchInv
<1>6. CASE EndAccess
  BY <1>6, EndAccessImplements DEF S!Next
<1>7. ASSUME NEW t \in Threads, Lookup(t) PROVE [S!Next]_S!vars
  BY <1>1, <1>2, <1>7, DatasetStep DEF Lookup
<1>8. ASSUME NEW t \in Threads, OtherLookup(t) PROVE [S!Next]_S!vars
  <2>1. CASE Return(t)
    BY <1>1, <1>8, <2>1 DEF OtherLookup, Return, AbsDataset, Complete
  <2>2. CASE \E p \in Items : Begin(t, p)
    BY <1>1, <1>2, <1>8, <2>2, DatasetStep DEF OtherLookup
  <2> QED
    BY <1>8, <2>1, <2>2 DEF OtherLookup
<1> QED
  BY <1>3, <1>4, <1>5, <1>6, <1>7, <1>8 DEF SearchNext

\* Search begins with a dataset that is as calloc leaves it, but for items of zeros.
LEMMA SearchBegins == SearchInit => S!Init
  BY DEF SearchInit

\* A search over the words in memory is one as Search has it, for any number of threads,
\* items, words and accesses: only a lookup that runs into another thread's stores is torn.
THEOREM SearchImplemented == SearchSpec => ImplementsSearch
<1>1. SearchSpec => []SearchInv
  BY InitSearchInv, StepSearchInv, PTL DEF SearchSpec
<1> QED
  BY <1>1, SearchStep, SearchBegins, PTL DEF SearchSpec, ImplementsSearch, S!Spec

\* The dataset is the lazily filled one, with all that is proved of it, while this thread
\* searches it.
THEOREM DatasetUsedAsSpecified == SearchSpec => Spec
<1>1. SearchSpec => []SearchInv
  BY InitSearchInv, StepSearchInv, PTL DEF SearchSpec
<1>2. SearchInit => Init
  BY DEF SearchInit
<1> QED
  BY <1>1, <1>2, SearchesLookUp, PTL DEF SearchSpec, Spec

=============================================================================
