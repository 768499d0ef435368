------------------------------ MODULE ClassPool ------------------------------
(***************************************************************************)
(* The shared class cache of crates/jvm/src/pool.rs while the render       *)
(* threads look classes up: `ClassPool::get`, with its thread-local L1,    *)
(* the FIFO-bounded shared cache behind one mutex, the negative cache, and *)
(* the parse that runs outside the mutex.                                  *)
(*                                                                         *)
(* The sources were added before the first lookup (the CLI's order) and do *)
(* not change: a name is Pinned when a single .class file put the parsed   *)
(* class in the cache directly, Indexed when a directory or a jar lists    *)
(* it.  Each critical section of the mutex is one action; what a thread    *)
(* does between two of them is thread-local.  A parsed class is its name   *)
(* and the serial number of the parse that built the Arc, so two instances *)
(* of one name are told apart, as Arc::ptr_eq would.                       *)
(***************************************************************************)
EXTENDS Integers, Sequences, FiniteSets

CONSTANTS Names,        \* internal class names the renders ask for
          Threads,      \* the render threads
          Pinned,       \* names given as single .class sources
          Indexed,      \* names listed by a directory or jar source
          Unparsable,   \* names whose bytes PoolClass::parse refuses
          Cap,          \* JCDC_POOL_CAP (4096 by default), 0 for no bound
          L1Cap,        \* the 4096 entries of a thread's L1
          ReadMayFail,  \* can reading an indexed class fail?
          MaxCalls      \* bound: lookups begun by one thread

ASSUME PoolSources ==
    /\ Pinned \subseteq Names
    /\ Indexed \subseteq Names
    /\ Pinned \cap Unparsable = {}
    /\ IsFiniteSet(Names)
ASSUME PoolBounds ==
    /\ Cap \in Nat
    /\ L1Cap \in Nat \ {0}
    /\ MaxCalls \in Nat
    /\ ReadMayFail \in BOOLEAN

VARIABLES
    cache,     \* cache[n]: the shared instance of n
    order,     \* cache_order: the FIFO of evictable names
    negative,  \* names known not to resolve
    l1,        \* l1[t][n]: thread t's own reference to an instance of n
    pc,        \* where thread t is in get()
    want,      \* the name it asked for
    mine,      \* the instance it parsed and has not published
    answer,    \* what its last lookup returned
    calls,     \* lookups it has begun
    serial     \* number of the next parse

poolVars == <<cache, order, negative>>
threadVars == <<l1, pc, want, mine, answer, calls, serial>>
vars == <<poolVars, threadVars>>

NoName == "no name"
NoClass == [name |-> NoName, serial |-> 0]

Instances == [name : Names, serial : Nat]
Cached == DOMAIN cache

(* The names a lookup can resolve: a pinned class, or listed bytes that    *)
(* parse.                                                                  *)
Loadable == Pinned \cup (Indexed \ Unparsable)

(* A HashMap from some of the names to instances.                          *)
IsMap(f) == DOMAIN f \subseteq Names /\ f \in [DOMAIN f -> Instances]

Without(f, S) == [n \in DOMAIN f \ S |-> f[n]]
With(f, n, i) == [m \in DOMAIN f \cup {n} |-> IF m = n THEN i ELSE f[m]]
Larger(a, b) == IF a < b THEN b ELSE a
Members(seq) == {seq[k] : k \in 1 .. Len(seq)}

TypeOK ==
    /\ IsMap(cache)
    /\ order \in Seq(Names)
    /\ negative \subseteq Names
    /\ l1 \in [Threads -> {l1[t] : t \in Threads}] /\ \A t \in Threads : IsMap(l1[t])
    /\ pc \in [Threads -> {"idle", "look", "read", "miss", "publish"}]
    /\ want \in [Threads -> Names \cup {NoName}]
    /\ mine \in [Threads -> Instances \cup {NoClass}]
    /\ answer \in [Threads -> Instances \cup {NoClass}]
    /\ calls \in [Threads -> 0 .. MaxCalls]
    /\ serial \in Nat

Init ==
    /\ cache = [n \in Pinned |-> [name |-> n, serial |-> 0]]
    /\ order = <<>>
    /\ negative = {}
    /\ l1 = [t \in Threads |-> [n \in {} |-> NoClass]]
    /\ pc = [t \in Threads |-> "idle"]
    /\ want = [t \in Threads |-> NoName]
    /\ mine = [t \in Threads |-> NoClass]
    /\ answer = [t \in Threads |-> NoClass]
    /\ calls = [t \in Threads |-> 0]
    /\ serial = 1

-----------------------------------------------------------------------------
(* `m.len() >= 4096 => m.clear()`, then the insertion.                     *)
L1Insert(t, n, i) ==
    l1' = [l1 EXCEPT ![t] =
              With(IF Cardinality(DOMAIN @) >= L1Cap THEN Without(@, DOMAIN @) ELSE @, n, i)]

Give(t, i) ==
    /\ answer' = [answer EXCEPT ![t] = i]
    /\ pc' = [pc EXCEPT ![t] = "idle"]

(* A lookup begins in the thread's own L1.                                 *)
Begin(t, n) ==
    /\ pc[t] = "idle"
    /\ calls[t] < MaxCalls
    /\ calls' = [calls EXCEPT ![t] = @ + 1]
    /\ want' = [want EXCEPT ![t] = n]
    /\ IF n \in DOMAIN l1[t]
       THEN Give(t, l1[t][n])
       ELSE pc' = [pc EXCEPT ![t] = "look"] /\ UNCHANGED answer
    /\ UNCHANGED <<poolVars, l1, mine, serial>>

(* First critical section: the shared cache, then the negative cache.      *)
Look(t) ==
    /\ pc[t] = "look"
    /\ \/ /\ want[t] \in Cached
          /\ L1Insert(t, want[t], cache[want[t]])
          /\ Give(t, cache[want[t]])
       \/ /\ want[t] \in negative \ Cached
          /\ Give(t, NoClass)
          /\ UNCHANGED l1
       \/ /\ want[t] \notin Cached \cup negative
          /\ pc' = [pc EXCEPT ![t] = "read"]
          /\ UNCHANGED <<l1, answer>>
    /\ UNCHANGED <<poolVars, want, mine, calls, serial>>

(* Mutant: a failed parse goes on to the publication.                      *)
ReadPublishesNothing(t) ==
    /\ pc[t] = "read"
    /\ mine' = [mine EXCEPT ![t] =
                    IF want[t] \in Indexed \ Unparsable
                    THEN [name |-> want[t], serial |-> serial] ELSE NoClass]
    /\ serial' = serial + 1
    /\ pc' = [pc EXCEPT ![t] = "publish"]
    /\ UNCHANGED <<poolVars, l1, want, answer, calls>>

(* read_class_bytes, its own critical section, then PoolClass::parse with  *)
(* the mutex free.  A name that is not listed, bytes that cannot be read   *)
(* and bytes that do not parse all end in the negative cache.              *)
Read(t) ==
    /\ pc[t] = "read"
    /\ \/ /\ want[t] \in Indexed \ Unparsable
          /\ mine' = [mine EXCEPT ![t] = [name |-> want[t], serial |-> serial]]
          /\ serial' = serial + 1
          /\ pc' = [pc EXCEPT ![t] = "publish"]
       \/ /\ want[t] \notin Indexed \ Unparsable \/ ReadMayFail
          /\ pc' = [pc EXCEPT ![t] = "miss"]
          /\ UNCHANGED <<mine, serial>>
    /\ UNCHANGED <<poolVars, l1, want, answer, calls>>

(* The negative insertion and `return None`.                               *)
Miss(t) ==
    /\ pc[t] = "miss"
    /\ negative' = negative \cup {want[t]}
    /\ Give(t, NoClass)
    /\ UNCHANGED <<cache, order, l1, want, mine, calls, serial>>

(* evict_to_cap: how many names are popped before the cache fits or the    *)
(* queue is empty.                                                         *)
Fits(c, q, k) ==
    \/ Cap = 0
    \/ k = Len(q)
    \/ Cardinality(DOMAIN c \ {q[i] : i \in 1 .. k}) <= Cap

(* Mutant: the loop stops one name early (`>=` for `>` in its test).       *)
EvictedTooFew(c, q) ==
    CHOOSE k \in 0 .. Len(q) :
        /\ k + 1 > Len(q) \/ Fits(c, q, k + 1)
        /\ \A j \in 0 .. k - 1 : ~Fits(c, q, j + 1)

Evicted(c, q) ==
    CHOOSE k \in 0 .. Len(q) : Fits(c, q, k) /\ \A j \in 0 .. k - 1 : ~Fits(c, q, j)

(* Mutant: the victim is any key of the map, not the front of the queue.   *)
EvictAnyKey(c, q) ==
    IF Cap = 0 \/ Cardinality(DOMAIN c) <= Cap
    THEN cache' = c /\ order' = q
    ELSE \E n \in DOMAIN c :
             /\ cache' = Without(c, {n})
             /\ order' = SelectSeq(q, LAMBDA m : m # n)

Evict(c, q) ==
    LET k == Evicted(c, q) IN
    /\ cache' = Without(c, {q[i] : i \in 1 .. k})
    /\ order' = SubSeq(q, k + 1, Len(q))

(* Mutant: the publication re-takes the mutex but not the lookup's state,  *)
(* and gives up when the name was published meanwhile.                     *)
PublishGivesUp(t) ==
    /\ pc[t] = "publish"
    /\ IF want[t] \in Cached
       THEN /\ UNCHANGED <<cache, order, l1>>
            /\ Give(t, NoClass)
       ELSE /\ Evict(With(cache, want[t], mine[t]), Append(order, want[t]))
            /\ L1Insert(t, want[t], mine[t])
            /\ Give(t, mine[t])
    /\ mine' = [mine EXCEPT ![t] = NoClass]
    /\ UNCHANGED <<negative, want, calls, serial>>

(* Mutant: a class is published only while the cache has room for it.      *)
PublishIfRoom(t) ==
    /\ pc[t] = "publish"
    /\ want[t] \in Cached \/ Cap = 0 \/ Cardinality(Cached) < Cap
    /\ IF want[t] \in Cached
       THEN /\ UNCHANGED <<cache, order>>
            /\ L1Insert(t, want[t], cache[want[t]])
            /\ Give(t, cache[want[t]])
       ELSE /\ Evict(With(cache, want[t], mine[t]), Append(order, want[t]))
            /\ L1Insert(t, want[t], mine[t])
            /\ Give(t, mine[t])
    /\ mine' = [mine EXCEPT ![t] = NoClass]
    /\ UNCHANGED <<negative, want, calls, serial>>

(* Last critical section: the loser of a parse race adopts the instance    *)
(* that is in the cache, the winner inserts, queues and evicts.            *)
Publish(t) ==
    /\ pc[t] = "publish"
    /\ IF want[t] \in Cached
       THEN /\ UNCHANGED <<cache, order>>
            /\ L1Insert(t, want[t], cache[want[t]])
            /\ Give(t, cache[want[t]])
       ELSE /\ Evict(With(cache, want[t], mine[t]), Append(order, want[t]))
            /\ L1Insert(t, want[t], mine[t])
            /\ Give(t, mine[t])
    /\ mine' = [mine EXCEPT ![t] = NoClass]
    /\ UNCHANGED <<negative, want, calls, serial>>

Step(t) == Look(t) \/ Read(t) \/ Miss(t) \/ Publish(t)

Next == \E t \in Threads : Step(t) \/ \E n \in Names : Begin(t, n)

(* A thread inside get() goes on: the mutex is never held across a wait.   *)
Spec == Init /\ [][Next]_vars /\ \A t \in Threads : WF_vars(Step(t))

-----------------------------------------------------------------------------
(* Properties.                                                             *)

(* The FIFO lists every evictable cached name once and nothing else, so an *)
(* eviction always frees an entry; with a cap the cache never outgrows it, *)
(* pinned classes apart.  The "stale order entry" that the comment on      *)
(* evict_to_cap allows for does not arise.                                 *)
CacheDiscipline ==
    /\ \A j, k \in 1 .. Len(order) : j # k => order[j] # order[k]
    /\ Members(order) = Cached \ Pinned
    /\ Cap # 0 => Cardinality(Cached) <= Larger(Cap, Cardinality(Pinned))

(* Render output must not depend on the schedule: whatever the threads     *)
(* race on, evict or miss, a finished lookup answers exactly what the      *)
(* sources say: an instance of the class asked for, or none.  (Where reads *)
(* may fail it is not pure: one failed read is remembered in `negative`.)  *)
LookupIsPure ==
    \A t \in Threads :
        pc[t] = "idle" /\ want[t] # NoName =>
            IF want[t] \in Loadable THEN answer[t].name = want[t]
                                    ELSE answer[t] = NoClass

(* A class given as a single .class file is always served from the cache,  *)
(* as the instance parsed at startup: its bytes may be in no index.        *)
PinnedStay ==
    \A n \in Pinned : n \in Cached /\ cache[n].serial = 0

(* Every lookup ends, however the others interleave and evict.             *)
LookupsEnd == \A t \in Threads : pc[t] # "idle" ~> pc[t] = "idle"
=============================================================================
