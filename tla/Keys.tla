-------------------------------- MODULE Keys --------------------------------
(***************************************************************************)
(* Thread-specific data (core/apth_data.c, internal/apth_data.c): the       *)
(* global table of keys with a sequence number per entry, odd while the key *)
(* exists, and the values each thread keeps with the number they were       *)
(* stored under.  Threads create, delete, set and read keys with no lock; a *)
(* thread that ends runs the destructors of the values it still holds.      *)
(*                                                                          *)
(* A value stands for the generation of the key its caller meant (0 is      *)
(* NULL), a destructor for the generation it was registered with.           *)
(***************************************************************************)
EXTENDS Naturals, Functions

CONSTANTS KeyUsers,    \* threads
          Owners,      \* those that create and delete keys
          Holders,     \* those that store values and end
          NKeys,       \* APTH_KEYS_MAX
          FirstBlock,  \* APTH_KEY_2NDLEVEL_SIZE
          WordBits,    \* width of uintptr_t, the type of a sequence number
          UintBits,    \* width of unsigned int
          Iterations,  \* APTH_DESTRUCTOR_ITERATIONS
          MaxCreates   \* bound: calls of apth_key_create

ASSUME KeyConstants ==
  /\ Owners \subseteq KeyUsers /\ Holders \subseteq KeyUsers
  /\ NKeys \in Nat \ {0} /\ FirstBlock \in Nat /\ MaxCreates \in Nat
  /\ UintBits \in Nat \ {0} /\ WordBits \in Nat /\ UintBits <= WordBits
  /\ Iterations \in Nat \ {0}

VARIABLES seq,       \* APTH_KEYS[k].seq
          destr,     \* APTH_KEYS[k].destructor
          live,      \* keys a program holds: created, and no delete begun
          gen,       \* history: how often the entry was allocated
          wrapped,   \* history: entries whose number started again at zero
          data,      \* specific_1stblock and specific of each thread
          level2,    \* threads with a second-level block
          used,      \* threads with specific_used
          op,        \* where each thread is, with its locals
          called     \* the destructor call each thread is in

keyTable == <<seq, destr, live, gen, wrapped>>
threadData == <<data, level2, used>>
keysVars == <<keyTable, threadData, op, called>>

KeySlots == 0 .. NKeys - 1
Word == 2 ^ WordBits
Uint == 2 ^ UintBits
NoData == [seq |-> 0, val |-> 0]
NoOp == [at |-> "run", key |-> 0, seq |-> 0, val |-> 0, scan |-> 0,
         round |-> 0, found |-> FALSE, gen |-> 0]
NoCallback == [destr |-> 0, val |-> 0, recycled |-> FALSE]

KeysInit ==
  /\ seq = [k \in KeySlots |-> 0] /\ destr = [k \in KeySlots |-> 0]
  /\ live = {} /\ wrapped = {}
  /\ gen = [k \in KeySlots |-> 0]
  /\ data = [t \in KeyUsers |-> [k \in KeySlots |-> NoData]]
  /\ level2 = {} /\ used = {}
  /\ op = [t \in KeyUsers |-> NoOp]
  /\ called = [t \in KeyUsers |-> NoCallback]

\* Every piece of state has its type.
KeysTypeOK ==
  /\ seq \in [KeySlots -> 0 .. Word - 1]
  /\ destr \in [KeySlots -> Nat] /\ gen \in [KeySlots -> Nat]
  /\ live \subseteq KeySlots /\ wrapped \subseteq KeySlots
  /\ data \in [KeyUsers -> [KeySlots -> [seq : 0 .. Word - 1, val : Nat]]]
  /\ level2 \subseteq KeyUsers /\ used \subseteq KeyUsers
  /\ \A t \in KeyUsers :
       /\ op[t].at \in {"run", "create", "take", "remember", "delete",
                        "store", "scan", "look", "destr", "done"}
       /\ op[t].round \in 0 .. Iterations

UNUSED(p) == p % 2 = 0
USABLE(p) == p < (p + 2) % Word

InSecond(k) == k >= FirstBlock
AtKeyOp(t, place) == op[t].at = place
Key(t) == op[t].key

\* The call is over: back in the thread's own code, or in its destructor.
Return(t) ==
  op' = [op EXCEPT ![t] = [@ EXCEPT !.at = IF @ = "store" /\ op[t].round > 0
                                             THEN "destr" ELSE "run",
                                    !.key = 0, !.seq = 0, !.val = 0]]

\* A thread calls the library from its own code or from a destructor.
Calling(t) == AtKeyOp(t, "run") \/ AtKeyOp(t, "destr")
MayUse(k) == k \in live \/ UNUSED(seq[k])

-----------------------------------------------------------------------------
(* apth_key_create: the entries are tried in turn. *)

KeyCreate(t, hasDestr) ==
  /\ t \in Owners /\ AtKeyOp(t, "run")
  /\ FoldFunction(+, 0, gen) < MaxCreates
  /\ op' = [op EXCEPT ![t].at = "create", ![t].key = 0, ![t].val = hasDestr]
  /\ UNCHANGED <<keyTable, threadData, called>>

\* A key is not reused when its number would overflow; EAGAIN after the last.
CreateRead(t) ==
  /\ AtKeyOp(t, "create")
  /\ IF Key(t) = NKeys THEN Return(t)
     ELSE IF UNUSED(seq[Key(t)]) /\ USABLE(seq[Key(t)])
       THEN op' = [op EXCEPT ![t].at = "take", ![t].seq = seq[Key(t)]]
       ELSE op' = [op EXCEPT ![t].key = @ + 1]
  /\ UNCHANGED <<keyTable, threadData, called>>

CreateTake(t) ==
  /\ AtKeyOp(t, "take")
  /\ IF seq[Key(t)] = op[t].seq
       THEN /\ seq' = [seq EXCEPT ![Key(t)] = (@ + 1) % Word]
            /\ gen' = [gen EXCEPT ![Key(t)] = @ + 1]
            /\ op' = [op EXCEPT ![t].at = "remember",
                                ![t].val = @ * gen'[Key(t)]]
       ELSE /\ op' = [op EXCEPT ![t].at = "create", ![t].key = @ + 1]
            /\ UNCHANGED <<seq, gen>>
  /\ UNCHANGED <<destr, live, wrapped, threadData, called>>

CreateRemember(t) ==
  /\ AtKeyOp(t, "remember")
  /\ destr' = [destr EXCEPT ![Key(t)] = op[t].val]
  /\ live' = live \cup {Key(t)}
  /\ Return(t)
  /\ UNCHANGED <<seq, gen, wrapped, threadData, called>>

-----------------------------------------------------------------------------
(* apth_key_delete: seq is an unsigned int there. *)

KeyDelete(t, k) ==
  /\ t \in Owners /\ AtKeyOp(t, "run") /\ k \in live
  /\ live' = live \ {k}
  /\ op' = [op EXCEPT ![t].at = "delete", ![t].key = k,
                      ![t].seq = seq[k] % Uint]
  /\ UNCHANGED <<seq, destr, gen, wrapped, threadData, called>>

DeleteTake(t) ==
  /\ AtKeyOp(t, "delete")
  /\ IF seq[Key(t)] = op[t].seq
       THEN /\ seq' = [seq EXCEPT ![Key(t)] = (op[t].seq + 1) % Uint]
            /\ wrapped' = IF seq'[Key(t)] = 0 THEN wrapped \cup {Key(t)}
                                              ELSE wrapped
       ELSE UNCHANGED <<seq, wrapped>>
  /\ Return(t)
  /\ UNCHANGED <<destr, live, gen, threadData, called>>

-----------------------------------------------------------------------------
(* apth_setspecific and apth_getspecific *)

\* The sequence number is read; a key that does not exist is EINVAL.
SetSpecific(t, k, nonNull) ==
  /\ t \in Holders /\ Calling(t) /\ MayUse(k)
  /\ ~UNUSED(seq[k] % Uint)
  /\ op' = [op EXCEPT ![t].at = "store", ![t].key = k,
                      ![t].seq = seq[k] % Uint, ![t].val = nonNull * gen[k]]
  /\ UNCHANGED <<keyTable, threadData, called>>

\* NULL for a block that does not exist stores nothing, and neither does a
\* failed allocation; the first block is always there.
SetNoBlock(t) ==
  /\ AtKeyOp(t, "store") /\ InSecond(Key(t)) /\ t \notin level2
  /\ Return(t)
  /\ UNCHANGED <<keyTable, threadData, called>>

\* Mutant: takes the sequence number when it stores, not when it checked.
SetStoreNow(t) ==
  /\ AtKeyOp(t, "store")
  /\ InSecond(Key(t)) => t \in level2 \/ op[t].val # 0
  /\ level2' = IF InSecond(Key(t)) THEN level2 \cup {t} ELSE level2
  /\ used' = IF InSecond(Key(t)) \/ op[t].val # 0 THEN used \cup {t} ELSE used
  /\ data' = [data EXCEPT ![t][Key(t)] = [seq |-> seq[Key(t)],
                                          val |-> op[t].val]]
  /\ Return(t)
  /\ UNCHANGED <<keyTable, called>>

SetStore(t) ==
  /\ AtKeyOp(t, "store")
  /\ InSecond(Key(t)) => t \in level2 \/ op[t].val # 0
  /\ level2' = IF InSecond(Key(t)) THEN level2 \cup {t} ELSE level2
  /\ used' = IF InSecond(Key(t)) \/ op[t].val # 0 THEN used \cup {t} ELSE used
  /\ data' = [data EXCEPT ![t][Key(t)] = [seq |-> op[t].seq,
                                          val |-> op[t].val]]
  /\ Return(t)
  /\ UNCHANGED <<keyTable, called>>

\* Reading a key drops a value stored under another number.
GetSpecific(t, k) ==
  /\ Calling(t) /\ MayUse(k)
  /\ data[t][k].val # 0 /\ data[t][k].seq # seq[k]
  /\ data' = [data EXCEPT ![t][k].val = 0]
  /\ UNCHANGED <<keyTable, level2, used, op, called>>

-----------------------------------------------------------------------------
(* apth_key_destroydata, when a thread ends *)

DestroyData(t) ==
  /\ t \in Holders /\ AtKeyOp(t, "run")
  /\ op' = IF t \in used
             THEN [op EXCEPT ![t] = [NoOp EXCEPT !.at = "scan", !.round = 1]]
             ELSE [op EXCEPT ![t] = [NoOp EXCEPT !.at = "done"]]
  /\ UNCHANGED <<keyTable, threadData, called>>

ScanNext(t) == op' = [op EXCEPT ![t] = [@ EXCEPT !.scan = @ + 1, !.at = "scan",
                                                 !.seq = 0, !.gen = 0]]

ScanSeq(t) ==
  /\ AtKeyOp(t, "scan") /\ op[t].scan < NKeys
  /\ LET k == op[t].scan IN
       IF UNUSED(seq[k]) THEN ScanNext(t)
       ELSE op' = [op EXCEPT ![t].at = "look", ![t].seq = seq[k],
                             ![t].gen = gen[k]]
  /\ UNCHANGED <<keyTable, threadData, called>>

HasValue(t, k) ==
  /\ data[t][k].val # 0 /\ data[t][k].seq = op[t].seq
  /\ InSecond(k) => t \in level2

\* The destructor is read after the number; the value is cleared before the
\* destructor runs.
ScanLook(t) ==
  /\ AtKeyOp(t, "look")
  /\ LET k == op[t].scan IN
       IF destr[k] = 0 \/ ~HasValue(t, k)
         THEN ScanNext(t) /\ UNCHANGED <<data, called>>
         ELSE /\ data' = [data EXCEPT ![t][k].val = 0]
              /\ op' = [op EXCEPT ![t].at = "destr", ![t].found = TRUE,
                                  ![t].seq = 0, ![t].gen = 0]
              /\ called' = [called EXCEPT ![t] =
                   [destr |-> destr[k], val |-> data[t][k].val,
                    recycled |-> gen[k] # op[t].gen]]
  /\ UNCHANGED <<keyTable, level2, used>>

DestrReturns(t) ==
  /\ AtKeyOp(t, "destr")
  /\ ScanNext(t)
  /\ called' = [called EXCEPT ![t] = NoCallback]
  /\ UNCHANGED <<keyTable, threadData>>

\* Mutant: one round of destructors.
RoundEndsOnce(t) ==
  /\ AtKeyOp(t, "scan") /\ op[t].scan = NKeys
  /\ op' = [op EXCEPT ![t].at = "done"]
  /\ used' = used \ {t} /\ level2' = level2 \ {t}
  /\ data' = [data EXCEPT ![t] = [k \in KeySlots |->
                IF InSecond(k) THEN NoData ELSE @[k]]]
  /\ UNCHANGED <<keyTable, called>>

\* Another round while destructors were called, up to the limit; the
\* second-level blocks go in the end.
RoundEnds(t) ==
  /\ AtKeyOp(t, "scan") /\ op[t].scan = NKeys
  /\ IF op[t].found /\ op[t].round < Iterations
       THEN /\ op' = [op EXCEPT ![t].round = @ + 1, ![t].scan = 0,
                                ![t].found = FALSE]
            /\ UNCHANGED threadData
       ELSE /\ op' = [op EXCEPT ![t] = [NoOp EXCEPT !.at = "done",
                                                   !.round = op[t].round]]
            /\ used' = used \ {t} /\ level2' = level2 \ {t}
            /\ data' = [data EXCEPT ![t] = [k \in KeySlots |->
                          IF InSecond(k) THEN NoData ELSE @[k]]]
  /\ UNCHANGED <<keyTable, called>>

KeysNext ==
  \E t \in KeyUsers :
    \/ \E d \in {0, 1} : KeyCreate(t, d)
    \/ CreateRead(t) \/ CreateTake(t) \/ CreateRemember(t)
    \/ \E k \in KeySlots : KeyDelete(t, k) \/ GetSpecific(t, k)
    \/ DeleteTake(t)
    \/ \E k \in KeySlots, v \in {0, 1} : SetSpecific(t, k, v)
    \/ SetNoBlock(t) \/ SetStore(t)
    \/ DestroyData(t) \/ ScanSeq(t) \/ ScanLook(t) \/ DestrReturns(t)
    \/ RoundEnds(t)

KeysSpec == KeysInit /\ [][KeysNext]_keysVars

-----------------------------------------------------------------------------
(* Properties *)

\* The value a thread would read under key k.
Readable(t, k) ==
  data[t][k].val # 0 /\ ~UNUSED(seq[k]) /\ data[t][k].seq = seq[k]

\* What a thread reads back was stored for the key as it is now, not for a
\* deleted key of the same number, whichever way creates, deletes and sets
\* overlap: stale data is recognised by its sequence number.  Once the
\* 32-bit arithmetic of apth_key_delete has brought a number back to zero it
\* is recognised no longer.
KeyDataIsCurrent ==
  \A t \in KeyUsers, k \in KeySlots \ wrapped :
    Readable(t, k) => data[t][k].val = gen[k]

\* A destructor gets values of its own key only, unless the key was deleted
\* and created again between the two reads of apth_key_destroydata; and a
\* thread that ends before the last allowed round leaves no value behind
\* that has a destructor.
DestructorsMatchValues ==
  \A t \in KeyUsers :
    /\ called[t].destr = called[t].val \/ called[t].recycled \/ wrapped # {}
    /\ AtKeyOp(t, "done") /\ op[t].round < Iterations =>
         \A k \in KeySlots \ wrapped : Readable(t, k) => destr[k] = 0
=============================================================================
