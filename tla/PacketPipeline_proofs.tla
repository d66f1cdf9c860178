------------------------ MODULE PacketPipeline_proofs ------------------------
(***************************************************************************)
(* What the packet pipeline guarantees for any number of blocks, packets   *)
(* and restarts.  Four invariants carry the results, each inductive with   *)
(* the ones before it: the workers and the resolver end in the right order *)
(* (ShutdownInv); the blocks go round a ring of eight places, each at one  *)
(* of them and holding only what a block can hold there (RingInv); every   *)
(* packet on the way is at one place (WhereInv); what is further on the    *)
(* way arrived earlier (SortInv).                                          *)
(***************************************************************************)
EXTENDS PacketPipeline, Integers, TLAPS

-----------------------------------------------------------------------------
(***************************************************************************)
(* The order in which start() and stop() let the threads come and go.      *)
(***************************************************************************)
AfterFilter == {"filterStopped", "exitStored", "joinResolver", "inactive"}
AfterStore  == {"exitStored", "joinResolver", "inactive"}

\* stop_filter() has joined the workers before the router goes on.
WorkersGone == router \in AfterFilter => \A t \in Worker : pc[t] = "done"

\* resolver_should_exit_ is stored behind stop_filter(), and reset by start().
ExitStoredLate == shouldExit => router \in AfterStore

\* The resolver ends with an empty queue, and nobody fills it afterwards.
DoneIsDrained == resolver = "done" => resolveQueue = <<>> /\ router \in AfterStore

\* Only between the swap and the send does the resolver hold packets.
IdleHoldsNothing ==
  resolver # "resolve" => batch = <<>> /\ toAdapters = <<>> /\ toMstcp = <<>>

InactiveIsDone == router = "inactive" => resolver = "done"

ShutdownInv ==
  WorkersGone /\ ExitStoredLate /\ DoneIsDrained /\ IdleHoldsNothing /\ InactiveIsDone

LEMMA ShutdownInit == Init => ShutdownInv
  BY DEF Init, ShutdownInv, WorkersGone, ExitStoredLate, DoneIsDrained, IdleHoldsNothing,
         InactiveIsDone, AfterFilter, AfterStore

\* While the workers run the resolver cannot have ended, whatever they do to its queue.
LEMMA Working ==
  ASSUME ShutdownInv, router \notin AfterFilter,
         UNCHANGED <<router, shouldExit, batch, toAdapters, toMstcp>>,
         resolver' = resolver \/ (resolver = "waiting" /\ resolver' = "loop")
  PROVE  ShutdownInv'
<1>1. resolver # "done" /\ resolver' # "done"
  BY DEF ShutdownInv, DoneIsDrained, AfterFilter, AfterStore
<1>2. router # "inactive" /\ ~shouldExit
  BY DEF ShutdownInv, ExitStoredLate, AfterFilter, AfterStore
<1>3. WorkersGone' /\ ExitStoredLate' /\ DoneIsDrained' /\ InactiveIsDone'
  BY <1>1, <1>2 DEF WorkersGone, ExitStoredLate, DoneIsDrained, InactiveIsDone
<1>4. IdleHoldsNothing'
  BY DEF ShutdownInv, IdleHoldsNothing
<1>5. QED BY <1>3, <1>4 DEF ShutdownInv

LEMMA AtWork ==
  ASSUME ShutdownInv, NEW t \in Worker, pc[t] # "done"
  PROVE  router \notin AfterFilter
BY DEF ShutdownInv, WorkersGone

LEMMA OwnQueueKeeps ==
  ASSUME ShutdownInv, NEW t \in Worker, OwnQueue(t)
  PROVE  ShutdownInv'
<1>1. pc[t] # "done"
  BY DEF OwnQueue, Leave, TakeBlock, FindNothing, Sleep, AtQueue
<1>2. UNCHANGED <<router, shouldExit, batch, toAdapters, toMstcp, resolver>>
  BY DEF OwnQueue, Leave, TakeBlock, FindNothing, Sleep, resolverVars
<1>3. QED BY <1>1, <1>2, AtWork, Working

LEMMA HandOnKeeps ==
  ASSUME ShutdownInv, NEW t \in Worker, NEW u \in Worker, HandOn(t, u)
  PROVE  ShutdownInv'
<1>1. pc[t] # "done"
  BY DEF HandOn, BlockDone
<1>2. UNCHANGED <<router, shouldExit, batch, toAdapters, toMstcp, resolver>>
  BY DEF HandOn, resolverVars
<1>3. QED BY <1>1, <1>2, AtWork, Working

LEMMA ReadThreadKeeps == ASSUME ShutdownInv, ReadThread PROVE ShutdownInv'
<1> "read" \in Worker /\ "process" \in Worker
  BY DEF Worker
<1>1. CASE OwnQueue("read")
  BY <1>1, OwnQueueKeeps
<1>2. CASE HandOn("read", "process")
  BY <1>2, HandOnKeeps
<1>3. CASE AwaitEvent
  <2>1. pc["read"] # "done" /\ UNCHANGED <<router, shouldExit, batch, toAdapters, toMstcp, resolver>>
    BY <1>3 DEF AwaitEvent, resolverVars
  <2>2. QED BY <2>1, AtWork, Working
<1>4. CASE ReadPackets
  <2>1. pc["read"] # "done" /\ UNCHANGED <<router, shouldExit, batch, toAdapters, toMstcp, resolver>>
    BY <1>4 DEF ReadPackets, resolverVars
  <2>2. QED BY <2>1, AtWork, Working
<1>5. CASE ReadThreadLocks
  <2>1. pc["read"] # "done" /\ UNCHANGED <<router, shouldExit, batch, toAdapters, toMstcp, resolver>>
    BY <1>5 DEF ReadThreadLocks, resolverVars
  <2>2. QED BY <2>1, AtWork, Working
<1>6. QED BY <1>1, <1>2, <1>3, <1>4, <1>5 DEF ReadThread

LEMMA ProcessThreadKeeps == ASSUME ShutdownInv, ProcessThread PROVE ShutdownInv'
<1> "process" \in Worker /\ "mstcp" \in Worker
  BY DEF Worker
<1>1. CASE OwnQueue("process")
  BY <1>1, OwnQueueKeeps
<1>2. CASE HandOn("process", "mstcp")
  BY <1>2, HandOnKeeps
<1>3. CASE Decide("adapter") \/ Decide("mstcp")
  <2>1. pc["process"] # "done" /\ UNCHANGED <<router, shouldExit, batch, toAdapters, toMstcp, resolver>>
    BY <1>3 DEF Decide, resolverVars
  <2>2. QED BY <2>1, AtWork, Working
<1>4. CASE CheckDepth \/ OfferCopy \/ NoBuffer
  <2>1. pc["process"] # "done" /\ UNCHANGED <<router, shouldExit, batch, toAdapters, toMstcp, resolver>>
    BY <1>4 DEF CheckDepth, OfferCopy, NoBuffer, resolverVars
  <2>2. QED BY <2>1, AtWork, Working
<1>5. CASE NotifyResolver
  <2>1. pc["process"] # "done" /\ UNCHANGED <<router, shouldExit, batch, toAdapters, toMstcp>>
    BY <1>5 DEF NotifyResolver
  <2>2. resolver' = resolver \/ (resolver = "waiting" /\ resolver' = "loop")
    BY <1>5 DEF NotifyResolver, Woken
  <2>3. QED BY <2>1, <2>2, AtWork, Working
<1>6. QED BY <1>1, <1>2, <1>3, <1>4, <1>5 DEF ProcessThread

LEMMA WriteThreadsKeep ==
  ASSUME ShutdownInv, MstcpThread \/ AdapterThread
  PROVE  ShutdownInv'
<1> "mstcp" \in Worker /\ "adapter" \in Worker /\ "read" \in Worker
  BY DEF Worker
<1>1. CASE OwnQueue("mstcp") \/ OwnQueue("adapter")
  BY <1>1, OwnQueueKeeps
<1>2. CASE HandOn("mstcp", "adapter") \/ HandOn("adapter", "read")
  BY <1>2, HandOnKeeps
<1>3. ASSUME NEW t \in Worker, Write(t) PROVE ShutdownInv'
  <2>1. pc[t] # "done" /\ UNCHANGED <<router, shouldExit, batch, toAdapters, toMstcp, resolver>>
    BY <1>3 DEF Write, resolverVars
  <2>2. QED BY <2>1, AtWork, Working
<1>4. QED BY <1>1, <1>2, <1>3 DEF MstcpThread, AdapterThread

----------------------------------------------------------------------------
(* The resolver and the caller of start() and stop() *)

LEMMA ResolverKeeps == ASSUME ShutdownInv, ResolverThread PROVE ShutdownInv'
<1> USE DEF ShutdownInv, WorkersGone, ExitStoredLate, DoneIsDrained, IdleHoldsNothing,
            InactiveIsDone, AfterFilter, AfterStore, filterVars
<1>1. CASE ResolverLeaves
  BY <1>1 DEF ResolverLeaves
<1>2. CASE ResolverSwaps
  BY <1>2 DEF ResolverSwaps
<1>3. CASE ResolverFindsNothing \/ ResolverBlocks \/ ResolverTimesOut
  BY <1>3 DEF ResolverFindsNothing, ResolverBlocks, ResolverTimesOut
<1>4. CASE ResolverDecides
  BY <1>4 DEF ResolverDecides
<1>5. CASE ResolverSends
  BY <1>5 DEF ResolverSends
<1>6. QED BY <1>1, <1>2, <1>3, <1>4, <1>5 DEF ResolverThread

LEMMA LifecycleKeeps == ASSUME ShutdownInv, Start \/ StopBegins \/ Stop PROVE ShutdownInv'
<1> USE DEF ShutdownInv, WorkersGone, ExitStoredLate, DoneIsDrained, IdleHoldsNothing,
            InactiveIsDone, AfterFilter, AfterStore, filterVars, resolverVars
<1>1. CASE Start
  BY <1>1 DEF Start
<1>2. CASE StopBegins
  BY <1>2 DEF StopBegins
<1>3. CASE ReleaseFilter
  BY <1>3 DEF ReleaseFilter
<1>4. CASE WorkersJoined
  BY <1>4 DEF WorkersJoined
<1>5. CASE StoreExit
  BY <1>5 DEF StoreExit
<1>6. CASE NotifyExit
  BY <1>6 DEF NotifyExit, Woken
<1>7. CASE ResolverJoined
  BY <1>7 DEF ResolverJoined
<1>8. QED BY <1>1, <1>2, <1>3, <1>4, <1>5, <1>6, <1>7 DEF Stop

LEMMA ShutdownNext == ShutdownInv /\ [Next]_vars => ShutdownInv'
<1> SUFFICES ASSUME ShutdownInv, [Next]_vars PROVE ShutdownInv'
  OBVIOUS
<1>1. CASE Arrive
  BY <1>1 DEF Arrive, ShutdownInv, WorkersGone, ExitStoredLate, DoneIsDrained,
              IdleHoldsNothing, InactiveIsDone, filterVars, resolverVars
<1>2. CASE UNCHANGED vars
  BY <1>2 DEF vars, ShutdownInv, WorkersGone, ExitStoredLate, DoneIsDrained,
              IdleHoldsNothing, InactiveIsDone
<1>3. QED
  BY <1>1, <1>2, ReadThreadKeeps, ProcessThreadKeeps, WriteThreadsKeep, ResolverKeeps,
     LifecycleKeeps DEF Next

-----------------------------------------------------------------------------
(***************************************************************************)
(* Sequences without repetition, as the sets of their elements.            *)
(***************************************************************************)
LEMMA HeadAndTail ==
  ASSUME NEW X, NEW s \in Seq(X), s # <<>>
  PROVE  /\ Head(s) \in X /\ Tail(s) \in Seq(X)
         /\ Head(s) \in ToSet(s)
         /\ ToSet(s) = {Head(s)} \cup ToSet(Tail(s))
         /\ IsInjective(s) => IsInjective(Tail(s)) /\ Head(s) \notin ToSet(Tail(s))
<1> DEFINE t == Tail(s)
           n == Len(s)
<1>1. /\ n \in Nat /\ n >= 1 /\ DOMAIN s = 1 .. n /\ Head(s) = s[1] /\ s[1] \in X
      /\ t \in Seq(X) /\ DOMAIN t = 1 .. n - 1
      /\ \A i \in 1 .. n - 1 : t[i] = s[i + 1]
  OBVIOUS
<1> HIDE DEF t, n
<1>2. \A i \in 1 .. n : i = 1 \/ (i - 1 \in 1 .. n - 1 /\ (i - 1) + 1 = i)
  BY <1>1
<1>3. \A i \in 1 .. n - 1 : i + 1 \in 1 .. n /\ i + 1 # 1
  BY <1>1
<1>4. ASSUME NEW x \in ToSet(s), x # Head(s)
      PROVE  x \in ToSet(t)
  <2>1. PICK i \in 1 .. n : x = s[i]
    BY <1>1, <1>4 DEF ToSet
  <2>2. i - 1 \in 1 .. n - 1 /\ t[i - 1] = x
    BY <1>1, <1>2, <1>4, <2>1
  <2>3. QED BY <1>1, <2>2 DEF ToSet
<1>5. ToSet(t) \subseteq ToSet(s) /\ Head(s) \in ToSet(s)
  BY <1>1, <1>3 DEF ToSet
<1>6. ASSUME IsInjective(s)
      PROVE  IsInjective(t) /\ Head(s) \notin ToSet(t)
  <2>1. ASSUME NEW i \in 1 .. n - 1, NEW j \in 1 .. n - 1, t[i] = t[j]
        PROVE  i = j
    <3>1. s[i + 1] = s[j + 1] /\ i + 1 \in 1 .. n /\ j + 1 \in 1 .. n
      BY <1>1, <1>3, <2>1
    <3>2. i + 1 = j + 1
      BY <1>1, <1>6, <3>1 DEF IsInjective
    <3>3. QED BY <3>2
  <2>2. Head(s) \notin ToSet(t)
    BY <1>1, <1>3, <1>6 DEF IsInjective, ToSet
  <2>3. QED BY <1>1, <2>1, <2>2 DEF IsInjective
<1>7. QED BY <1>1, <1>4, <1>5, <1>6 DEF t

LEMMA Appended ==
  ASSUME NEW X, NEW s \in Seq(X), NEW x \in X
  PROVE  /\ Append(s, x) \in Seq(X)
         /\ ToSet(Append(s, x)) = ToSet(s) \cup {x}
         /\ IsInjective(s) /\ x \notin ToSet(s) => IsInjective(Append(s, x))
<1>1. /\ Append(s, x) \in Seq(X) /\ DOMAIN Append(s, x) = DOMAIN s \cup {Len(s) + 1}
      /\ Len(s) + 1 \notin DOMAIN s
      /\ Append(s, x)[Len(s) + 1] = x
      /\ \A i \in DOMAIN s : Append(s, x)[i] = s[i]
  OBVIOUS
<1>2. ToSet(Append(s, x)) = ToSet(s) \cup {x}
  BY <1>1 DEF ToSet
<1>3. QED BY <1>1, <1>2 DEF IsInjective, ToSet

LEMMA Joined ==
  ASSUME NEW X, NEW s \in Seq(X), NEW t \in Seq(X)
  PROVE  /\ s \o t \in Seq(X)
         /\ ToSet(s \o t) = ToSet(s) \cup ToSet(t)
         /\ IsInjective(s) /\ IsInjective(t) /\ ToSet(s) \cap ToSet(t) = {}
            => IsInjective(s \o t)
<1> DEFINE u == s \o t
           m == Len(s)
           n == Len(t)
<1>1. /\ u \in Seq(X) /\ m \in Nat /\ n \in Nat
      /\ DOMAIN s = 1 .. m /\ DOMAIN t = 1 .. n /\ DOMAIN u = 1 .. m + n
      /\ \A i \in 1 .. m : u[i] = s[i]
      /\ \A i \in 1 .. n : u[m + i] = t[i]
  OBVIOUS
<1> HIDE DEF u, m, n
<1>2. /\ \A i \in 1 .. m + n : i \in 1 .. m \/ (i - m \in 1 .. n /\ i = m + (i - m))
      /\ \A i \in 1 .. m : i \in 1 .. m + n
      /\ \A i \in 1 .. n : m + i \in 1 .. m + n
  BY <1>1
<1>3. ASSUME NEW x \in ToSet(u)
      PROVE  x \in ToSet(s) \cup ToSet(t)
  <2>1. PICK i \in 1 .. m + n : x = u[i]
    BY <1>1, <1>3 DEF ToSet
  <2>2. CASE i \in 1 .. m
    BY <1>1, <2>1, <2>2 DEF ToSet
  <2>3. CASE i \notin 1 .. m
    <3>1. i - m \in 1 .. n /\ t[i - m] = x
      BY <1>1, <1>2, <2>1, <2>3
    <3>2. QED BY <1>1, <3>1 DEF ToSet
  <2>4. QED BY <2>2, <2>3
<1>4. ToSet(s) \subseteq ToSet(u) /\ ToSet(t) \subseteq ToSet(u)
  BY <1>1, <1>2 DEF ToSet
<1>5. ASSUME IsInjective(s), IsInjective(t), ToSet(s) \cap ToSet(t) = {},
             NEW i \in 1 .. m + n, NEW j \in 1 .. m + n, u[i] = u[j]
      PROVE  i = j
  <2>1. CASE i \in 1 .. m /\ j \in 1 .. m
    BY <1>1, <1>5, <2>1 DEF IsInjective
  <2>2. CASE i \in 1 .. m /\ j \notin 1 .. m
    <3>1. u[i] = s[i] /\ j - m \in 1 .. n /\ u[j] = t[j - m]
      BY <1>1, <1>2, <2>2
    <3>2. s[i] \in ToSet(s) /\ t[j - m] \in ToSet(t)
      BY <1>1, <2>2, <3>1 DEF ToSet
    <3>3. QED BY <1>5, <3>1, <3>2
  <2>3. CASE i \notin 1 .. m /\ j \in 1 .. m
    <3>1. u[j] = s[j] /\ i - m \in 1 .. n /\ u[i] = t[i - m]
      BY <1>1, <1>2, <2>3
    <3>2. s[j] \in ToSet(s) /\ t[i - m] \in ToSet(t)
      BY <1>1, <2>3, <3>1 DEF ToSet
    <3>3. QED BY <1>5, <3>1, <3>2
  <2>4. CASE i \notin 1 .. m /\ j \notin 1 .. m
    <3>1. i - m \in 1 .. n /\ j - m \in 1 .. n /\ t[i - m] = t[j - m]
      BY <1>1, <1>2, <1>5, <2>4
    <3>2. i - m = j - m
      BY <1>1, <1>5, <3>1 DEF IsInjective
    <3>3. QED BY <1>1, <3>2
  <2>5. QED BY <2>1, <2>2, <2>3, <2>4
<1>6. QED BY <1>1, <1>3, <1>4, <1>5 DEF IsInjective, u

LEMMA Cut ==
  ASSUME NEW X, NEW s \in Seq(X), NEW n \in 0 .. Len(s)
  PROVE  LET a == SubSeq(s, 1, n)
             b == SubSeq(s, n + 1, Len(s))
         IN  /\ a \in Seq(X) /\ b \in Seq(X)
             /\ ToSet(s) = ToSet(a) \cup ToSet(b)
             /\ IsInjective(s) => /\ IsInjective(a) /\ IsInjective(b)
                                  /\ ToSet(a) \cap ToSet(b) = {}
<1> DEFINE a == SubSeq(s, 1, n)
           b == SubSeq(s, n + 1, Len(s))
<1> DEFINE m == Len(s)
<1>1. /\ a \in Seq(X) /\ b \in Seq(X) /\ m \in Nat /\ n \in 0 .. m
      /\ DOMAIN a = 1 .. n /\ DOMAIN b = 1 .. m - n /\ DOMAIN s = 1 .. m
      /\ \A i \in 1 .. n : a[i] = s[i]
      /\ \A i \in 1 .. m - n : b[i] = s[n + i]
  OBVIOUS
<1> HIDE DEF a, b, m
<1>2. /\ \A i \in 1 .. m : i \in 1 .. n \/ (i - n \in 1 .. m - n /\ i = n + (i - n))
      /\ \A i \in 1 .. n : i \in 1 .. m
      /\ \A i \in 1 .. m - n : n + i \in 1 .. m /\ n + i \notin 1 .. n
  BY <1>1
<1>3. ASSUME NEW x \in ToSet(s)
      PROVE  x \in ToSet(a) \cup ToSet(b)
  <2>1. PICK i \in 1 .. m : x = s[i]
    BY <1>1 DEF ToSet
  <2>2. CASE i \in 1 .. n
    BY <1>1, <2>1, <2>2 DEF ToSet
  <2>3. CASE i \notin 1 .. n
    <3>1. i - n \in 1 .. m - n /\ b[i - n] = s[i]
      BY <1>1, <1>2, <2>3
    <3>2. QED BY <1>1, <2>1, <3>1 DEF ToSet
  <2>4. QED BY <2>2, <2>3
<1>4. ToSet(a) \subseteq ToSet(s) /\ ToSet(b) \subseteq ToSet(s)
  <2>1. \A i \in 1 .. n : a[i] = s[i] /\ i \in 1 .. m
    BY <1>1, <1>2
  <2>2. \A i \in 1 .. m - n : b[i] = s[n + i] /\ n + i \in 1 .. m
    BY <1>1, <1>2
  <2>3. QED BY <1>1, <2>1, <2>2 DEF ToSet
<1>5. ASSUME IsInjective(s)
      PROVE  IsInjective(a) /\ IsInjective(b) /\ ToSet(a) \cap ToSet(b) = {}
  <2>1. IsInjective(a)
    BY <1>1, <1>2, <1>5 DEF IsInjective
  <2>2. ASSUME NEW i \in 1 .. m - n, NEW j \in 1 .. m - n, b[i] = b[j]
        PROVE  i = j
    <3>1. s[n + i] = s[n + j]
      BY <1>1, <2>2
    <3>2. n + i = n + j
      BY <1>1, <1>2, <1>5, <3>1 DEF IsInjective
    <3>3. QED BY <1>1, <3>2
  <2>3. ASSUME NEW i \in 1 .. n, NEW j \in 1 .. m - n
        PROVE  a[i] # b[j]
    <3>1. a[i] = s[i] /\ b[j] = s[n + j] /\ i \in 1 .. m /\ n + j \in 1 .. m /\ i # n + j
      BY <1>1, <1>2
    <3>2. QED BY <1>1, <1>5, <3>1 DEF IsInjective
  <2>4. QED BY <1>1, <2>1, <2>2, <2>3 DEF IsInjective, ToSet
<1>6. QED BY <1>1, <1>3, <1>4, <1>5 DEF a, b

(* Elements in sequences at several places: W gives the sequence at each place. *)

Strewn(W, P, X) == W \in [P -> Seq(X)]

Apart(W) ==
  /\ \A a \in DOMAIN W : IsInjective(W[a])
  /\ \A a, b \in DOMAIN W : \A x \in ToSet(W[a]) : x \in ToSet(W[b]) => a = b

All(W) == UNION {ToSet(W[a]) : a \in DOMAIN W}

\* What a step does to the sequences, from W to V.
Keeps(W, V, S) == DOMAIN V = DOMAIN W /\ \A c \in DOMAIN W \ S : V[c] = W[c]

Moved(W, V, a, b) ==
  /\ Keeps(W, V, {a, b}) /\ a # b /\ W[a] # <<>>
  /\ V[a] = Tail(W[a]) /\ V[b] = Append(W[b], Head(W[a]))
Taken(W, V, a)    == Keeps(W, V, {a}) /\ W[a] # <<>> /\ V[a] = Tail(W[a])
Added(W, V, a, x) == Keeps(W, V, {a}) /\ V[a] = Append(W[a], x)
Poured(W, V, a, b) ==
  /\ Keeps(W, V, {a, b}) /\ a # b
  /\ V[a] = <<>> /\ V[b] = W[b] \o W[a]
Emptied(W, V, S)  == Keeps(W, V, S) /\ \A c \in S : V[c] = <<>>
Carried(W, V, a, b, n) ==
  /\ Keeps(W, V, {a, b}) /\ a # b /\ W[b] = <<>> /\ n \in 0 .. Len(W[a])
  /\ V[b] = SubSeq(W[a], 1, n) /\ V[a] = SubSeq(W[a], n + 1, Len(W[a]))

\* The elements of D are gone, and nothing else has changed for the others.
Reduced(W, V, P, D) ==
  Apart(V) /\ All(V) = All(W) \ D /\ \A c \in P : ToSet(V[c]) \subseteq ToSet(W[c])

\* Elements have gone from a to b.
Shifted(W, V, P, a, b) ==
  /\ Apart(W) => Apart(V)
  /\ All(V) = All(W)
  /\ \A c \in P : \A y \in ToSet(V[c]) : y \in ToSet(W[c]) \/ (y \in ToSet(W[a]) /\ c = b)

\* The first element of one place goes to the end of another.
LEMMA MoveOne ==
  ASSUME NEW X, NEW P, NEW W, NEW V, NEW a, NEW b, a \in P, b \in P,
         Strewn(W, P, X), Moved(W, V, a, b)
  PROVE  /\ \A c \in P : V[c] \in Seq(X)
         /\ Apart(W) => Apart(V)
         /\ All(V) = All(W)
         /\ Head(W[a]) \in ToSet(V[b])
         /\ \A c \in P : \A y \in ToSet(V[c]) :
               y \in ToSet(W[c]) \/ (y = Head(W[a]) /\ c = b)
<1> USE DEF Strewn, Moved, Keeps
<1> DEFINE x == Head(W[a])
<1>1. /\ W[a] \in Seq(X) /\ W[b] \in Seq(X)
      /\ x \in X /\ Tail(W[a]) \in Seq(X)
      /\ ToSet(W[a]) = {x} \cup ToSet(Tail(W[a]))
      /\ IsInjective(W[a]) => IsInjective(Tail(W[a])) /\ x \notin ToSet(Tail(W[a]))
  BY HeadAndTail
<1>2. /\ Append(W[b], x) \in Seq(X)
      /\ ToSet(Append(W[b], x)) = ToSet(W[b]) \cup {x}
      /\ IsInjective(W[b]) /\ x \notin ToSet(W[b]) => IsInjective(Append(W[b], x))
  BY <1>1, Appended
<1>3. /\ \A c \in P : V[c] \in Seq(X)
      /\ DOMAIN W = P /\ DOMAIN V = P
      /\ V[a] = Tail(W[a]) /\ V[b] = Append(W[b], x)
      /\ \A c \in P \ {a, b} : V[c] = W[c]
  BY <1>1, <1>2
<1> HIDE DEF x
<1>4. /\ ToSet(W[a]) = ToSet(V[a]) \cup {x}
      /\ ToSet(V[b]) = ToSet(W[b]) \cup {x}
      /\ \A c \in P \ {a, b} : ToSet(V[c]) = ToSet(W[c])
  BY <1>1, <1>2, <1>3
<1>5. All(V) = All(W)
  BY <1>3, <1>4 DEF All
<1>6. ASSUME Apart(W) PROVE Apart(V)
  <2>1. /\ x \notin ToSet(V[a])
        /\ \A c \in P \ {a} : x \notin ToSet(W[c])
    BY <1>1, <1>3, <1>4, <1>6 DEF Apart
  <2>2. \A c \in P : IsInjective(V[c])
    BY <1>1, <1>2, <1>3, <1>6, <2>1 DEF Apart
  <2>3. \A c, d \in P : \A y \in ToSet(W[c]) : y \in ToSet(W[d]) => c = d
    BY <1>3, <1>6 DEF Apart
  <2>4. \A c, d \in P : \A y \in ToSet(V[c]) : y \in ToSet(V[d]) => c = d
    <3> SUFFICES ASSUME NEW c \in P, NEW d \in P, NEW y \in ToSet(V[c]), y \in ToSet(V[d])
                 PROVE  c = d
      OBVIOUS
    <3>1. CASE y = x
      <4>1. \A e \in P : y \in ToSet(V[e]) => e = b
        BY <1>4, <2>1, <3>1
      <4>2. QED BY <4>1
    <3>2. CASE y # x
      <4>1. \A e \in P : y \in ToSet(V[e]) => y \in ToSet(W[e])
        BY <1>4, <3>2
      <4>2. QED BY <4>1, <2>3
    <3>3. QED BY <3>1, <3>2
  <2>5. QED BY <1>3, <2>2, <2>4 DEF Apart
<1>7. x \in ToSet(V[b]) /\ \A c \in P : \A y \in ToSet(V[c]) :
           y \in ToSet(W[c]) \/ (y = x /\ c = b)
  BY <1>4
<1>8. QED BY <1>3, <1>5, <1>6, <1>7 DEF x

\* The first element of a place is taken away.
LEMMA TakeOne ==
  ASSUME NEW X, NEW P, NEW W, NEW V, NEW a, a \in P, Strewn(W, P, X), Taken(W, V, a)
  PROVE  Apart(W) => Reduced(W, V, P, {Head(W[a])})
<1> USE DEF Strewn, Taken, Keeps
<1> DEFINE x == Head(W[a])
<1>1. /\ W[a] \in Seq(X) /\ Tail(W[a]) \in Seq(X)
      /\ ToSet(W[a]) = {x} \cup ToSet(Tail(W[a]))
      /\ IsInjective(W[a]) => IsInjective(Tail(W[a])) /\ x \notin ToSet(Tail(W[a]))
  BY HeadAndTail
<1>2. /\ \A c \in P : V[c] \in Seq(X)
      /\ DOMAIN W = P /\ DOMAIN V = P
      /\ V[a] = Tail(W[a])
      /\ \A c \in P \ {a} : V[c] = W[c]
  BY <1>1
<1> HIDE DEF x
<1>3. /\ ToSet(W[a]) = ToSet(V[a]) \cup {x}
      /\ \A c \in P \ {a} : ToSet(V[c]) = ToSet(W[c])
  BY <1>1, <1>2
<1>4. ASSUME Apart(W) PROVE Apart(V) /\ All(V) = All(W) \ {x}
  <2>1. \A c \in P : IsInjective(V[c])
    BY <1>1, <1>2, <1>4 DEF Apart
  <2>2. \A c, d \in P : \A y \in ToSet(W[c]) : y \in ToSet(W[d]) => c = d
    BY <1>2, <1>4 DEF Apart
  <2>3. x \notin ToSet(V[a]) /\ \A c \in P \ {a} : x \notin ToSet(W[c])
    BY <1>1, <1>2, <1>3, <1>4, <2>2 DEF Apart
  <2>4. \A c, d \in P : \A y \in ToSet(V[c]) : y \in ToSet(V[d]) => c = d
    BY <1>3, <2>2
  <2>5. All(V) = All(W) \ {x}
    BY <1>2, <1>3, <2>3 DEF All
  <2>6. QED BY <1>2, <2>1, <2>4, <2>5 DEF Apart
<1>5. \A c \in P : ToSet(V[c]) \subseteq ToSet(W[c])
  BY <1>3
<1>6. QED BY <1>2, <1>4, <1>5 DEF x, Reduced

\* A new element comes to the end of a place.
LEMMA AddOne ==
  ASSUME NEW X, NEW P, NEW W, NEW V, NEW a, NEW x, a \in P, x \in X, x \notin All(W),
         Strewn(W, P, X), Added(W, V, a, x)
  PROVE  /\ \A c \in P : V[c] \in Seq(X)
         /\ Apart(W) => Apart(V)
         /\ All(V) = All(W) \cup {x}
         /\ \A c \in P : \A y \in ToSet(V[c]) : y \in ToSet(W[c]) \/ (y = x /\ c = a)
<1> USE DEF Strewn, Added, Keeps
<1>1. /\ Append(W[a], x) \in Seq(X)
      /\ ToSet(Append(W[a], x)) = ToSet(W[a]) \cup {x}
      /\ IsInjective(W[a]) /\ x \notin ToSet(W[a]) => IsInjective(Append(W[a], x))
  BY Appended
<1>2. /\ \A c \in P : V[c] \in Seq(X)
      /\ DOMAIN W = P /\ DOMAIN V = P
      /\ V[a] = Append(W[a], x)
      /\ \A c \in P \ {a} : V[c] = W[c]
  BY <1>1
<1>3. /\ ToSet(V[a]) = ToSet(W[a]) \cup {x}
      /\ \A c \in P \ {a} : ToSet(V[c]) = ToSet(W[c])
      /\ \A c \in P : x \notin ToSet(W[c])
  BY <1>1, <1>2 DEF All
<1>4. All(V) = All(W) \cup {x}
  BY <1>2, <1>3 DEF All
<1>5. ASSUME Apart(W) PROVE Apart(V)
  <2>1. \A c \in P : IsInjective(V[c])
    BY <1>1, <1>2, <1>3, <1>5 DEF Apart
  <2>2. \A c, d \in P : \A y \in ToSet(W[c]) : y \in ToSet(W[d]) => c = d
    BY <1>2, <1>5 DEF Apart
  <2>3. \A c, d \in P : \A y \in ToSet(V[c]) : y \in ToSet(V[d]) => c = d
    <3> SUFFICES ASSUME NEW c \in P, NEW d \in P, NEW y \in ToSet(V[c]), y \in ToSet(V[d])
                 PROVE  c = d
      OBVIOUS
    <3>1. CASE y = x
      <4>1. \A e \in P : y \in ToSet(V[e]) => e = a
        BY <1>3, <3>1
      <4>2. QED BY <4>1
    <3>2. CASE y # x
      <4>1. \A e \in P : y \in ToSet(V[e]) => y \in ToSet(W[e])
        BY <1>3, <3>2
      <4>2. QED BY <4>1, <2>2
    <3>3. QED BY <3>1, <3>2
  <2>4. QED BY <1>2, <2>1, <2>3 DEF Apart
<1>6. QED BY <1>2, <1>3, <1>4, <1>5

\* A place is emptied to the end of another.
LEMMA MoveWhole ==
  ASSUME NEW X, NEW P, NEW W, NEW V, NEW a, NEW b, a \in P, b \in P,
         Strewn(W, P, X), Poured(W, V, a, b)
  PROVE  Shifted(W, V, P, a, b)
<1> USE DEF Strewn, Poured, Keeps
<1>1. /\ W[b] \o W[a] \in Seq(X)
      /\ ToSet(W[b] \o W[a]) = ToSet(W[b]) \cup ToSet(W[a])
      /\ IsInjective(W[b]) /\ IsInjective(W[a]) /\ ToSet(W[b]) \cap ToSet(W[a]) = {}
         => IsInjective(W[b] \o W[a])
  BY Joined
<1>2. <<>> \in Seq(X) /\ ToSet(<<>>) = {} /\ IsInjective(<<>>)
  BY DEF ToSet, IsInjective
<1>3. /\ \A c \in P : V[c] \in Seq(X)
      /\ DOMAIN W = P /\ DOMAIN V = P
      /\ V[a] = <<>> /\ V[b] = W[b] \o W[a]
      /\ \A c \in P \ {a, b} : V[c] = W[c]
  BY <1>1, <1>2
<1>4. /\ ToSet(V[a]) = {} /\ ToSet(V[b]) = ToSet(W[b]) \cup ToSet(W[a])
      /\ \A c \in P \ {a, b} : ToSet(V[c]) = ToSet(W[c])
  BY <1>1, <1>2, <1>3
<1>5. All(V) = All(W)
  BY <1>3, <1>4 DEF All
<1>6. ASSUME Apart(W) PROVE Apart(V)
  <2>1. \A c, d \in P : \A y \in ToSet(W[c]) : y \in ToSet(W[d]) => c = d
    BY <1>3, <1>6 DEF Apart
  <2>2. \A c \in P : IsInjective(V[c])
    BY <1>1, <1>2, <1>3, <1>6, <2>1 DEF Apart
  <2>3. \A c, d \in P : \A y \in ToSet(V[c]) : y \in ToSet(V[d]) => c = d
    BY <1>4, <2>1
  <2>4. QED BY <1>3, <2>2, <2>3 DEF Apart
<1>7. QED BY <1>3, <1>4, <1>5, <1>6 DEF Shifted

\* Some places are emptied.
LEMMA TakeAll ==
  ASSUME NEW X, NEW P, NEW W, NEW V, NEW S, S \subseteq P, Strewn(W, P, X), Emptied(W, V, S)
  PROVE  Apart(W) => Reduced(W, V, P, UNION {ToSet(W[a]) : a \in S})
<1> USE DEF Strewn, Emptied, Keeps
<1>1. <<>> \in Seq(X) /\ ToSet(<<>>) = {} /\ IsInjective(<<>>)
  BY DEF ToSet, IsInjective
<1>2. /\ \A c \in P : V[c] \in Seq(X)
      /\ DOMAIN W = P /\ DOMAIN V = P
      /\ \A c \in P : V[c] = IF c \in S THEN <<>> ELSE W[c]
  BY <1>1
<1>3. /\ \A c \in P \ S : V[c] = W[c] /\ ToSet(V[c]) = ToSet(W[c])
      /\ \A c \in S : V[c] = <<>> /\ ToSet(V[c]) = {}
  BY <1>1, <1>2
<1>4. ASSUME Apart(W)
      PROVE  Apart(V) /\ All(V) = All(W) \ UNION {ToSet(W[a]) : a \in S}
  <2>1. \A c, d \in P : \A y \in ToSet(W[c]) : y \in ToSet(W[d]) => c = d
    BY <1>2, <1>4 DEF Apart
  <2>2. \A c \in P : IsInjective(V[c])
    BY <1>1, <1>2, <1>4 DEF Apart
  <2>3. \A c, d \in P : \A y \in ToSet(V[c]) : y \in ToSet(V[d]) => c = d
    BY <1>3, <2>1
  <2>4. All(V) = All(W) \ UNION {ToSet(W[a]) : a \in S}
    <3>1. ASSUME NEW y \in All(V)
          PROVE  y \in All(W) /\ y \notin UNION {ToSet(W[e]) : e \in S}
      <4>1. PICK c \in P : y \in ToSet(V[c])
        BY <1>2, <3>1 DEF All
      <4>2. c \in P \ S /\ y \in ToSet(W[c])
        BY <1>3, <4>1
      <4>3. QED BY <1>2, <2>1, <4>2 DEF All
    <3>2. ASSUME NEW y \in All(W), y \notin UNION {ToSet(W[e]) : e \in S}
          PROVE  y \in All(V)
      <4>1. PICK c \in P : y \in ToSet(W[c])
        BY <1>2, <3>2 DEF All
      <4>2. c \in P \ S
        BY <3>2, <4>1
      <4>3. QED BY <1>2, <1>3, <4>1, <4>2 DEF All
    <3>3. QED BY <3>1, <3>2
  <2>5. QED BY <1>2, <2>2, <2>3, <2>4 DEF Apart
<1>5. QED BY <1>2, <1>3, <1>4 DEF Reduced

\* The first n elements of a place go to an empty one.
LEMMA MoveFirst ==
  ASSUME NEW X, NEW P, NEW W, NEW V, NEW a, NEW b, NEW n, a \in P, b \in P,
         Strewn(W, P, X), Carried(W, V, a, b, n)
  PROVE  Shifted(W, V, P, a, b)
<1> USE DEF Strewn, Carried, Keeps
<1> DEFINE u == SubSeq(W[a], 1, n)
           v == SubSeq(W[a], n + 1, Len(W[a]))
<1>1. /\ u \in Seq(X) /\ v \in Seq(X)
      /\ ToSet(W[a]) = ToSet(u) \cup ToSet(v)
      /\ IsInjective(W[a]) => /\ IsInjective(u) /\ IsInjective(v)
                              /\ ToSet(u) \cap ToSet(v) = {}
  BY Cut
<1>2. /\ \A c \in P : V[c] \in Seq(X)
      /\ DOMAIN W = P /\ DOMAIN V = P
      /\ V[a] = v /\ V[b] = u
      /\ \A c \in P \ {a, b} : V[c] = W[c]
  BY <1>1
<1> HIDE DEF u, v
<1>3. /\ ToSet(W[a]) = ToSet(V[b]) \cup ToSet(V[a]) /\ ToSet(W[b]) = {}
      /\ \A c \in P \ {a, b} : ToSet(V[c]) = ToSet(W[c])
  <2>1. ToSet(<<>>) = {}
    BY DEF ToSet
  <2>2. QED BY <1>1, <1>2, <2>1
<1>4. All(V) = All(W)
  BY <1>2, <1>3 DEF All
<1>5. ASSUME Apart(W) PROVE Apart(V)
  <2>1. \A c, d \in P : \A y \in ToSet(W[c]) : y \in ToSet(W[d]) => c = d
    BY <1>2, <1>5 DEF Apart
  <2>2. /\ \A c \in P : IsInjective(V[c])
        /\ ToSet(V[a]) \cap ToSet(V[b]) = {}
    BY <1>1, <1>2, <1>5 DEF Apart
  <2>3. \A c, d \in P : \A y \in ToSet(V[c]) : y \in ToSet(V[d]) => c = d
    BY <1>3, <2>1, <2>2
  <2>4. QED BY <1>2, <2>2, <2>3 DEF Apart
<1>6. QED BY <1>2, <1>3, <1>4, <1>5 DEF Shifted

-----------------------------------------------------------------------------
(***************************************************************************)
(* Types, and the ring of the blocks.                                      *)
(***************************************************************************)
Below(S, T) == \A x \in S, y \in T : x < y
Increasing(s) == \A i, j \in DOMAIN s : i < j => s[i] < s[j]

\* The ring of the blocks: what a worker holds comes before what waits for it.
Grip(t) == IF held[t] = 0 THEN <<>> ELSE <<held[t]>>
Line == <<Grip("adapter"), queue["adapter"], Grip("mstcp"), queue["mstcp"],
          Grip("process"), queue["process"], Grip("read"), queue["read"]>>

Running == router \in {"active", "stopping", "joinWorkers"}

\* A worker holds a block exactly while it works on it.
HeldInv ==
  /\ \A t \in Worker :
       /\ held[t] = 0 <=> pc[t] \in {"loop", "about", "waiting", "done", "lock"}
       /\ pc[t] \in {"fetch", "push", "lock"} => t = "read"
       /\ pc[t] \in {"offer", "notify"} => t = "process"
       /\ ~Running => pc[t] = "done"
  /\ pc["process"] = "offer" => content[held["process"]].todo # <<>>

\* Every block is at one place of the ring as long as there are blocks.
BlocksInv == Apart(Line) /\ All(Line) = IF Running THEN Block ELSE {}

\* What a block can hold at a place of the ring.
Staged(k, b) ==
  /\ k \in 1 .. 4 \cup {8} => content[b].todo = <<>>
  /\ k \in {1, 2, 6, 7, 8} => content[b].mstcp = <<>>
  /\ k \in {6, 7, 8} => content[b].adapter = <<>>
  /\ k = 7 /\ pc["read"] # "push" => content[b].todo = <<>>
StageInv ==
  /\ \A k \in 1 .. 8 : \A b \in ToSet(Line[k]) : Staged(k, b)
  /\ ~Running => \A b \in Block : content[b] = EmptyBlock

Packets(b) == ToSet(content[b].todo) \cup ToSet(content[b].mstcp) \cup ToSet(content[b].adapter)
FateAt(a) ==
  CASE a[2] \in {"driver", "todo"} -> {"none"}
    [] a[2] \in {"mstcp", "adapter"} -> {a[2]}
    [] a[2] = "sent" -> {"mstcp", "adapter", "deferred"}
    [] OTHER -> {"deferred"}
FateInv == \A a \in Place : \A p \in ToSet(Whereabouts[a]) : fate[p] \in FateAt(a)

LEMMA TypeInit == Init => TypeOK /\ HeldInv
<1> SUFFICES ASSUME Init PROVE TypeOK /\ HeldInv
  OBVIOUS
<1>1. EmptyBlock \in Content /\ <<>> \in Seq(Packet) /\ <<>> \in Seq(Block)
  BY DEF EmptyBlock, Content
<1>2. /\ content \in [Block -> Content] /\ queue \in [Worker -> Seq(Block)]
      /\ pc \in [Worker -> WorkerPC] /\ held \in [Worker -> Block \cup {0}]
      /\ fate \in [Packet -> Fate]
  BY <1>1 DEF Init, WorkerPC, Fate
<1>3. 0 \in 0 .. MaxStarts /\ 0 \in 0 .. NumPackets /\ Len(<<>>) <= MaxDepth
  BY BoundsAssumption
<1>5. /\ starts \in 0 .. MaxStarts /\ arrived \in 0 .. NumPackets
      /\ Len(resolveQueue) <= MaxDepth
      /\ driver \in Seq(Packet) /\ resolveQueue \in Seq(Packet)
      /\ batch \in Seq(Packet) /\ toAdapters \in Seq(Packet) /\ toMstcp \in Seq(Packet)
      /\ sent \in Seq(Packet)
  BY <1>1, <1>3 DEF Init
<1>6. TypeOK
  BY <1>2, <1>5 DEF Init, TypeOK, RouterState, ResolverPC
<1>4. HeldInv
  BY DEF Init, HeldInv, Running, Worker
<1>7. QED BY <1>4, <1>6

LEMMA TypeQueue ==
  ASSUME TypeOK, NEW t \in Worker, OwnQueue(t)
  PROVE  TypeOK'
<1> USE DEF TypeOK, driverVars, resolverVars
<1>1. CASE TakeBlock(t)
  <2>1. /\ queue[t] \in Seq(Block) /\ queue[t] # <<>>
        /\ Head(queue[t]) \in Block /\ Tail(queue[t]) \in Seq(Block)
    BY <1>1 DEF TakeBlock
  <2>2. /\ held' \in [Worker -> Block \cup {0}] /\ queue' \in [Worker -> Seq(Block)]
        /\ pc' \in [Worker -> WorkerPC]
    BY <1>1, <2>1 DEF TakeBlock, WorkerPC
  <2>3. QED BY <1>1, <2>2 DEF TakeBlock
<1>2. CASE Leave(t) \/ FindNothing(t) \/ Sleep(t)
  BY <1>2 DEF Leave, FindNothing, Sleep, WorkerPC
<1>3. QED BY <1>1, <1>2 DEF OwnQueue

LEMMA TypeHandOn ==
  ASSUME TypeOK, HeldInv, NEW t \in Worker, NEW u \in Worker, HandOn(t, u)
  PROVE  TypeOK'
<1>1. held[t] \in Block
  <2>1. pc[t] \in {"work", "push"}
    BY DEF HandOn, BlockDone
  <2>2. QED BY <2>1 DEF TypeOK, HeldInv
<1>2. held' \in [Worker -> Block \cup {0}] /\ pc' \in [Worker -> WorkerPC]
  BY DEF TypeOK, HandOn, WorkerPC, Woken
<1>4. queue' \in [Worker -> Seq(Block)]
  <2>1. Append(queue[u], held[t]) \in Seq(Block) /\ queue \in [Worker -> Seq(Block)]
    BY <1>1 DEF TypeOK
  <2>2. queue' = [queue EXCEPT ![u] = Append(queue[u], held[t])]
    BY DEF HandOn
  <2> HIDE DEF HandOn
  <2>3. QED BY <2>1, <2>2
<1>3. QED BY <1>2, <1>4 DEF TypeOK, HandOn, driverVars, resolverVars

LEMMA TypeRead ==
  ASSUME TypeOK, HeldInv, ReadThreadLocks \/ AwaitEvent \/ ReadPackets
  PROVE  TypeOK'
<1> USE DEF driverVars, resolverVars
<1>1. CASE ReadThreadLocks
  BY <1>1 DEF TypeOK, ReadThreadLocks, WorkerPC
<1>2. CASE AwaitEvent
  BY <1>2 DEF TypeOK, AwaitEvent, WorkerPC
<1>3. CASE ReadPackets
  <2> DEFINE n == IF Len(driver) < MaxPackets THEN Len(driver) ELSE MaxPackets
  <2>1. held["read"] \in Block /\ n \in Nat /\ n <= Len(driver) /\ driver \in Seq(Packet)
    <3>1. driver \in Seq(Packet) /\ pc["read"] = "fetch" /\ held["read"] \in Block \cup {0}
      BY <1>3 DEF TypeOK, ReadPackets, Worker
    <3>2. held["read"] # 0
      BY <3>1 DEF HeldInv, Worker
    <3>3. n \in Nat /\ n <= Len(driver)
      BY <3>1, BoundsAssumption
    <3>4. QED BY <3>1, <3>2, <3>3
  <2>2. SubSeq(driver, 1, n) \in Seq(Packet) /\ SubSeq(driver, n + 1, Len(driver)) \in Seq(Packet)
    BY <2>1
  <2>3. /\ content' = [content EXCEPT ![held["read"]].todo = SubSeq(driver, 1, n)]
        /\ driver' = SubSeq(driver, n + 1, Len(driver))
        /\ event' = (event \/ n < Len(driver))
        /\ pc' = [pc EXCEPT !["read"] =
                    IF n = 0 /\ filterState = "running" THEN "work" ELSE "push"]
    BY <1>3 DEF ReadPackets
  <2> HIDE DEF n
  <2>4. content' \in [Block -> Content]
    BY <2>1, <2>2, <2>3 DEF TypeOK, Content
  <2>5. pc' \in [Worker -> WorkerPC] /\ event' \in BOOLEAN
    BY <2>3 DEF TypeOK, WorkerPC
  <2>6. QED BY <1>3, <2>2, <2>3, <2>4, <2>5 DEF TypeOK, ReadPackets
<1>4. QED BY <1>1, <1>2, <1>3

LEMMA TypeProcess ==
  ASSUME TypeOK, HeldInv,
         Decide("adapter") \/ Decide("mstcp") \/ CheckDepth \/ OfferCopy \/ NoBuffer \/ NotifyResolver
  PROVE  TypeOK'
<1> USE DEF driverVars, resolverVars
<1> DEFINE b == held["process"]
           todo == content[b].todo
<1>1. CASE NotifyResolver
  BY <1>1 DEF TypeOK, NotifyResolver, Woken, ResolverPC, WorkerPC
<1>2. CASE ~NotifyResolver
  <2>1. /\ b \in Block /\ todo # <<>> /\ todo \in Seq(Packet)
        /\ content[b].adapter \in Seq(Packet) /\ content[b].mstcp \in Seq(Packet)
    BY <1>2 DEF TypeOK, HeldInv, Worker, Content, Decide, CheckDepth, OfferCopy, NoBuffer,
                InHand, ToDecide
  <2>2. Head(todo) \in Packet /\ Tail(todo) \in Seq(Packet)
    BY <2>1
  <2>4. ASSUME NEW v \in {"adapter", "mstcp"}, Decide(v) PROVE TypeOK'
    <3>1. content' = [content EXCEPT ![b].todo = Tail(todo), ![b][v] = Append(@, Head(todo))]
      BY <2>4 DEF Decide, InHand, ToDecide
    <3>2. content' \in [Block -> Content]
      <4>1. CASE v = "adapter"
        <5>1. content' = [content EXCEPT ![b].todo = Tail(todo),
                                         ![b].adapter = Append(@, Head(todo))]
          BY <3>1, <4>1
        <5>2. Append(content[b].adapter, Head(todo)) \in Seq(Packet)
          BY <2>1, <2>2
        <5>3. QED BY <2>1, <2>2, <5>1, <5>2 DEF TypeOK, Content
      <4>2. CASE v = "mstcp"
        <5>1. content' = [content EXCEPT ![b].todo = Tail(todo),
                                         ![b].mstcp = Append(@, Head(todo))]
          BY <3>1, <4>2
        <5>2. Append(content[b].mstcp, Head(todo)) \in Seq(Packet)
          BY <2>1, <2>2
        <5>3. QED BY <2>1, <2>2, <5>1, <5>2 DEF TypeOK, Content
      <4>3. QED BY <4>1, <4>2
    <3>3. fate' \in [Packet -> Fate]
      BY <2>2, <2>4 DEF TypeOK, Decide, Fate, InHand, ToDecide
    <3>4. QED BY <2>4, <3>2, <3>3 DEF TypeOK, Decide
  <2>5. ASSUME content' = [content EXCEPT ![b].todo = Tail(@)] PROVE content' \in [Block -> Content]
    BY <2>1, <2>2, <2>5 DEF TypeOK, Content
  <2>6. \A f \in {"deferred", "dropped"} : [fate EXCEPT ![Head(todo)] = f] \in [Packet -> Fate]
    BY <2>2 DEF TypeOK, Fate, Discarded
  <2>7. CASE CheckDepth
    <3>1. content' \in [Block -> Content] /\ fate' \in [Packet -> Fate] /\ pc' \in [Worker -> WorkerPC]
      BY <2>5, <2>6, <2>7 DEF TypeOK, CheckDepth, InHand, ToDecide, WorkerPC
    <3>2. QED BY <2>7, <3>1 DEF TypeOK, CheckDepth
  <2>8. CASE OfferCopy
    <3>1. content' \in [Block -> Content] /\ fate' \in [Packet -> Fate] /\ pc' \in [Worker -> WorkerPC]
      BY <2>5, <2>6, <2>8 DEF TypeOK, OfferCopy, InHand, ToDecide, WorkerPC
    <3>2. resolveQueue' \in Seq(Packet) /\ Len(resolveQueue') <= MaxDepth
      <4>1. resolveQueue \in Seq(Packet) /\ Len(resolveQueue) <= MaxDepth
        BY DEF TypeOK
      <4>2. \/ resolveQueue' = resolveQueue
            \/ Len(resolveQueue) < MaxDepth /\ resolveQueue' = Append(resolveQueue, Head(todo))
        BY <2>8 DEF OfferCopy, InHand, ToDecide, HasRoom
      <4>3. QED BY <2>2, <4>1, <4>2, BoundsAssumption
    <3>3. QED BY <2>8, <3>1, <3>2 DEF TypeOK, OfferCopy
  <2>9. CASE NoBuffer
    <3>1. content' \in [Block -> Content] /\ fate' \in [Packet -> Fate] /\ pc' \in [Worker -> WorkerPC]
      BY <2>5, <2>6, <2>9 DEF TypeOK, NoBuffer, InHand, ToDecide, WorkerPC
    <3>2. QED BY <2>9, <3>1 DEF TypeOK, NoBuffer
  <2>10. QED BY <1>2, <2>4, <2>7, <2>8, <2>9
<1>3. QED BY <1>1, <1>2

LEMMA TypeWrite ==
  ASSUME TypeOK, HeldInv, NEW t \in {"mstcp", "adapter"}, Write(t)
  PROVE  TypeOK'
<1>1. held[t] \in Block
  BY DEF TypeOK, HeldInv, Worker, Write
<1>2. content[held[t]][t] \in Seq(Packet)
  BY <1>1 DEF TypeOK, Content
<1>3. sent' \in Seq(Packet)
  BY <1>2 DEF TypeOK, Write
<1>4. content' \in [Block -> Content]
  <2>1. content' = [content EXCEPT ![held[t]][t] = <<>>]
    BY DEF Write
  <2>2. CASE t = "mstcp"
    <3>1. content' = [content EXCEPT ![held[t]].mstcp = <<>>]
      BY <2>1, <2>2
    <3>2. <<>> \in Seq(Packet)
      OBVIOUS
    <3>3. QED BY <1>1, <3>1, <3>2 DEF TypeOK, Content
  <2>3. CASE t = "adapter"
    <3>1. content' = [content EXCEPT ![held[t]].adapter = <<>>]
      BY <2>1, <2>3
    <3>2. <<>> \in Seq(Packet)
      OBVIOUS
    <3>3. QED BY <1>1, <3>1, <3>2 DEF TypeOK, Content
  <2>4. QED BY <2>2, <2>3
<1>5. QED BY <1>3, <1>4 DEF TypeOK, Write, driverVars, resolverVars

LEMMA TypeResolver ==
  ASSUME TypeOK, ResolverThread
  PROVE  TypeOK'
<1> USE DEF TypeOK, filterVars, driverVars, ResolverPC
<1>1. CASE ResolverLeaves \/ ResolverFindsNothing \/ ResolverBlocks \/ ResolverTimesOut
  BY <1>1 DEF ResolverLeaves, ResolverFindsNothing, ResolverBlocks, ResolverTimesOut
<1>2. CASE ResolverSwaps
  BY <1>2, BoundsAssumption DEF ResolverSwaps
<1>3. CASE ResolverDecides
  <2>1. Head(batch) \in Packet /\ Tail(batch) \in Seq(Packet)
    BY <1>3 DEF ResolverDecides
  <2> DEFINE p == Head(batch)
  <2>4. \/ toAdapters' = Append(toAdapters, p) /\ UNCHANGED toMstcp
        \/ toMstcp' = Append(toMstcp, p) /\ UNCHANGED toAdapters
    BY <1>3 DEF ResolverDecides
  <2> HIDE DEF p
  <2>5. p \in Packet /\ toAdapters \in Seq(Packet) /\ toMstcp \in Seq(Packet)
    BY <2>1 DEF p
  <2>6. toAdapters' \in Seq(Packet) /\ toMstcp' \in Seq(Packet)
    <3>1. Append(toAdapters, p) \in Seq(Packet) /\ Append(toMstcp, p) \in Seq(Packet)
      <4> HIDE DEF TypeOK
      <4>1. QED BY <2>5
    <3>2. QED BY <2>4, <2>5, <3>1
  <2>2. toAdapters' \in Seq(Packet) /\ toMstcp' \in Seq(Packet) /\ batch' \in Seq(Packet)
    BY <1>3, <2>1, <2>6 DEF ResolverDecides
  <2>3. QED BY <1>3, <2>2 DEF ResolverDecides
<1>4. CASE ResolverSends
  <2>1. sent' \in Seq(Packet)
    BY <1>4 DEF ResolverSends
  <2>2. QED BY <1>4, <2>1 DEF ResolverSends
<1>5. QED BY <1>1, <1>2, <1>3, <1>4 DEF ResolverThread

LEMMA TypeLifecycle ==
  ASSUME TypeOK, Start \/ StopBegins \/ Stop \/ Arrive
  PROVE  TypeOK'
<1> USE DEF filterVars, driverVars, resolverVars, RouterState, ResolverPC
<1>1. CASE Start
  <2>1. [i \in Block |-> i] \in Seq(Block)
    BY BoundsAssumption DEF Block
  <2>2. /\ pc' \in [Worker -> WorkerPC] /\ queue' \in [Worker -> Seq(Block)]
        /\ filterState' \in {"stopped", "running", "stopping"}
        /\ router' \in RouterState /\ tunnel' \in BOOLEAN /\ starts' \in 0 .. MaxStarts
    <3>1. starts' \in 0 .. MaxStarts
      BY <1>1, BoundsAssumption DEF TypeOK, Start
    <3>2. queue' \in [Worker -> Seq(Block)]
      BY <1>1, <2>1 DEF TypeOK, Start
    <3>3. pc' \in [Worker -> WorkerPC]
      BY <1>1 DEF TypeOK, Start, WorkerPC
    <3>4. QED BY <1>1, <3>1, <3>2, <3>3 DEF TypeOK, Start
  <2>3. QED BY <1>1, <2>2 DEF TypeOK, Start
<1>2. CASE StopBegins
  BY <1>2 DEF TypeOK, StopBegins
<1>3. ASSUME NEW S PROVE Discard(S, "stopped") \in [Packet -> Fate]
  BY DEF TypeOK, Discard, Fate, Discarded
<1>4. CASE ReleaseFilter
  <2>1. pc' \in [Worker -> WorkerPC] /\ fate' \in [Packet -> Fate]
    BY <1>3, <1>4 DEF TypeOK, ReleaseFilter, Woken, WorkerPC
  <2>2. driver' = <<>> /\ tunnel' \in BOOLEAN /\ router' \in RouterState
    BY <1>4 DEF ReleaseFilter
  <2>4. <<>> \in Seq(Packet)
    OBVIOUS
  <2>5. QED BY <1>4, <2>1, <2>2, <2>4 DEF TypeOK, ReleaseFilter
<1>5. CASE WorkersJoined
  <2>1. EmptyBlock \in Content
    BY DEF EmptyBlock, Content
  <2>2. /\ fate' \in [Packet -> Fate] /\ content' \in [Block -> Content]
        /\ queue' \in [Worker -> Seq(Block)]
    BY <1>3, <1>5, <2>1 DEF WorkersJoined
  <2>3. QED BY <1>5, <2>2 DEF TypeOK, WorkersJoined
<1>6. CASE StoreExit \/ NotifyExit \/ ResolverJoined
  BY <1>6 DEF TypeOK, StoreExit, NotifyExit, ResolverJoined, Woken
<1>7. CASE Arrive
  <2>1. arrived + 1 \in Packet
    BY <1>7, BoundsAssumption DEF TypeOK, Arrive, Packet
  <2>2. driver' \in Seq(Packet) /\ arrived' \in 0 .. NumPackets
    BY <1>7, <2>1, BoundsAssumption DEF TypeOK, Arrive
  <2>3. QED BY <1>7, <2>2 DEF TypeOK, Arrive
<1>8. QED BY <1>1, <1>2, <1>4, <1>5, <1>6, <1>7 DEF Stop

\* The place of the ring at which a worker holds a block; it takes it from the next.
Seat(t) == CASE t = "adapter" -> 1 [] t = "mstcp" -> 3 [] t = "process" -> 5 [] t = "read" -> 7

RingInv == TypeOK /\ HeldInv /\ BlocksInv /\ StageInv

LEMMA LineIs ==
  ASSUME TypeOK
  PROVE  /\ Line \in [1 .. 8 -> Seq(Block)] /\ DOMAIN Line = 1 .. 8
         /\ \A t \in Worker : /\ Seat(t) \in {1, 3, 5, 7}
                              /\ Line[Seat(t)] = Grip(t) /\ Line[Seat(t) + 1] = queue[t]
         /\ \A k \in 1 .. 8 : \E t \in Worker : k \in {Seat(t), Seat(t) + 1}
         /\ \A t, u \in Worker : Seat(t) = Seat(u) => t = u
<1>1. \A t \in Worker : Grip(t) \in Seq(Block) /\ queue[t] \in Seq(Block)
  BY DEF Grip, TypeOK
<1>2. "read" \in Worker /\ "process" \in Worker /\ "mstcp" \in Worker /\ "adapter" \in Worker
  BY DEF Worker
<1>3. Line \in [1 .. 8 -> Seq(Block)] /\ DOMAIN Line = 1 .. 8
  <2>1. DOMAIN Line = 1 .. 8
    BY DEF Line
  <2>2. \A k \in 1 .. 8 : Line[k] \in Seq(Block)
    BY <1>1, <1>2 DEF Line
  <2>3. Line = [k \in 1 .. 8 |-> Line[k]]
    BY DEF Line
  <2>4. QED BY <2>1, <2>2, <2>3
<1>4. \A t \in Worker : Seat(t) \in {1, 3, 5, 7}
                        /\ Line[Seat(t)] = Grip(t) /\ Line[Seat(t) + 1] = queue[t]
  BY DEF Line, Seat, Worker
<1>5. \A k \in 1 .. 8 : \E t \in Worker : k \in {Seat(t), Seat(t) + 1}
  BY <1>2 DEF Seat
<1>6. \A t, u \in Worker : Seat(t) = Seat(u) => t = u
  BY DEF Seat, Worker
<1>7. QED BY <1>3, <1>4, <1>5, <1>6

\* A block that a worker holds is nowhere else.
LEMMA HeldOnce ==
  ASSUME RingInv, NEW t \in Worker, held[t] # 0
  PROVE  /\ held[t] \in Block /\ Line[Seat(t)] = <<held[t]>> /\ held[t] \in ToSet(Line[Seat(t)])
         /\ \A k \in 1 .. 8 : held[t] \in ToSet(Line[k]) => k = Seat(t)
         /\ \A u \in Worker : held[u] = held[t] => u = t
<1> USE DEF RingInv
<1>1. held[t] \in Block /\ Line[Seat(t)] = <<held[t]>> /\ Seat(t) \in 1 .. 8
  <2>1. Line[Seat(t)] = Grip(t) /\ Seat(t) \in {1, 3, 5, 7}
    BY LineIs
  <2>2. held[t] \in Block /\ Grip(t) = <<held[t]>>
    BY DEF TypeOK, Grip
  <2>3. QED BY <2>1, <2>2
<1>2. held[t] \in ToSet(Line[Seat(t)])
  BY <1>1 DEF ToSet
<1>3. \A k \in 1 .. 8 : held[t] \in ToSet(Line[k]) => k = Seat(t)
  BY <1>1, <1>2, LineIs DEF BlocksInv, Apart
<1>4. ASSUME NEW u \in Worker, held[u] = held[t] PROVE u = t
  <2>1. Line[Seat(u)] = <<held[t]>> /\ Seat(u) \in 1 .. 8
    <3>1. Line[Seat(u)] = Grip(u) /\ Seat(u) \in {1, 3, 5, 7}
      BY LineIs
    <3>2. Grip(u) = <<held[t]>>
      BY <1>4 DEF Grip
    <3>3. QED BY <3>1, <3>2
  <2>2. held[t] \in ToSet(Line[Seat(u)])
    BY <2>1 DEF ToSet
  <2>3. QED BY <1>3, <2>1, <2>2, LineIs
<1>5. QED BY <1>1, <1>2, <1>3, <1>4

\* A block moves on, to a place where it is what a block can be.
LEMMA Moves ==
  ASSUME RingInv, TypeOK', HeldInv', NEW a \in 1 .. 8, NEW b \in 1 .. 8,
         NEW V, V = Line', Moved(Line, V, a, b), UNCHANGED content, Running, Running',
         NEW x, x = Head(Line[a]), Staged(b, x)',
         pc["read"] = "push" => pc'["read"] = "push" \/ a = 7
  PROVE  RingInv'
<1> USE DEF RingInv
<1>1. Line \in [1 .. 8 -> Seq(Block)] /\ DOMAIN Line = 1 .. 8
  BY LineIs
<1>2. /\ Apart(V) /\ All(V) = All(Line)
      /\ \A c \in 1 .. 8 : \A y \in ToSet(V[c]) : y \in ToSet(Line[c]) \/ (y = x /\ c = b)
  <2> DEFINE W == Line
             P == 1 .. 8
  <2>1. /\ Apart(W) /\ Strewn(W, P, Block) /\ Moved(W, V, a, b) /\ x = Head(W[a])
        /\ a \in P /\ b \in P
    BY <1>1 DEF BlocksInv, Strewn
  <2> HIDE DEF W, P, RingInv
  <2>2. /\ Apart(W) => Apart(V)
        /\ All(V) = All(W)
        /\ \A c \in P : \A y \in ToSet(V[c]) :
              y \in ToSet(W[c]) \/ (y = Head(W[a]) /\ c = b)
    BY <2>1, MoveOne
  <2>3. QED BY <2>1, <2>2 DEF W, P
<1>3. BlocksInv'
  BY <1>2 DEF BlocksInv
<1>4. a = 7 => ToSet(V[7]) = {}
  <2>1. Line[7] \in {<<>>, <<held["read"]>>}
    BY DEF Line, Grip
  <2>2. a = 7 => V[7] = <<>>
    <3>1. Line[a] # <<>> /\ V[a] = Tail(Line[a])
      BY DEF Moved
    <3>2. Tail(<<held["read"]>>) = <<>>
      OBVIOUS
    <3>3. QED BY <2>1, <3>1, <3>2
  <2>3. QED BY <2>2 DEF ToSet
<1>5. ASSUME NEW k \in 1 .. 8, NEW c \in ToSet(V[k]) PROVE Staged(k, c)'
  <2>1. CASE c = x /\ k = b
    BY <2>1
  <2>2. CASE c \in ToSet(Line[k])
    <3>1. Staged(k, c)
      BY <2>2 DEF StageInv
    <3>2. k = 7 /\ pc'["read"] # "push" => pc["read"] # "push"
      BY <1>4, <1>5
    <3>3. QED BY <3>1, <3>2 DEF Staged
  <2>3. QED BY <1>2, <1>5, <2>1, <2>2
<1>6. StageInv'
  BY <1>5 DEF StageInv
<1>7. QED BY <1>3, <1>6

\* No block moves; a block that changes is one that a worker holds.
LEMMA InPlace ==
  ASSUME RingInv, TypeOK', HeldInv', UNCHANGED <<queue, held>>, Running' = Running,
         ~Running => UNCHANGED content,
         \A c \in Block : \/ content'[c] = content[c]
                          \/ \E t \in Worker : c = held[t] /\ Staged(Seat(t), c)',
         pc["read"] = "push" => pc'["read"] = "push"
  PROVE  RingInv'
<1> USE DEF RingInv
<1>1. Line' = Line
  BY DEF Line, Grip
<1>2. BlocksInv'
  BY <1>1 DEF BlocksInv
<1>3. ASSUME NEW k \in 1 .. 8, NEW c \in ToSet(Line[k]) PROVE Staged(k, c)'
  <2>1. c \in Block
    <3>1. Line[k] \in Seq(Block)
      BY LineIs
    <3>2. PICK i \in 1 .. Len(Line[k]) : c = Line[k][i]
      BY <1>3 DEF ToSet
    <3>3. QED BY <3>1, <3>2
  <2>2. CASE content'[c] = content[c]
    <3>1. Staged(k, c)
      BY <1>3 DEF StageInv
    <3>2. QED BY <2>2, <3>1 DEF Staged
  <2>3. ASSUME NEW t \in Worker, c = held[t], Staged(Seat(t), c)' PROVE Staged(k, c)'
    <3>1. held[t] # 0
      BY <2>1, <2>3, BoundsAssumption DEF Block
    <3>2. k = Seat(t)
      BY <1>3, <2>3, <3>1, HeldOnce
    <3>3. QED BY <2>3, <3>2
  <2>4. QED BY <2>1, <2>2, <2>3
<1>4. StageInv'
  BY <1>1, <1>3 DEF StageInv
<1>5. QED BY <1>2, <1>4

LineShape ==
  /\ Line \in [1 .. 8 -> Seq(Block)] /\ DOMAIN Line = 1 .. 8
  /\ \A t \in Worker : /\ Seat(t) \in {1, 3, 5, 7}
                       /\ Line[Seat(t)] = Grip(t) /\ Line[Seat(t) + 1] = queue[t]
LEMMA Seats ==
  \A t \in Worker :
    /\ Seat(t) \in {1, 3, 5, 7} /\ Seat(t) \in 1 .. 8 /\ Seat(t) + 1 \in 1 .. 8
    /\ Seat(t) + 1 # Seat(t)
BY DEF Seat, Worker
LEMMA LineIsNow == TypeOK => LineShape
BY LineIs DEF LineShape
LEMMA LineIsNext == TypeOK' => LineShape'
BY LineIsNow, PTL

\* A worker that takes a block takes the first one from its queue.
LEMMA TakeMoves ==
  ASSUME RingInv, NEW t \in Worker, TakeBlock(t)
  PROVE  Moved(Line, Line', Seat(t) + 1, Seat(t))
<1>1. /\ TypeOK /\ TypeOK' /\ pc \in [Worker -> WorkerPC] /\ held \in [Worker -> Block \cup {0}]
      /\ queue \in [Worker -> Seq(Block)]
  BY TypeQueue DEF RingInv, TypeOK, OwnQueue
<1>2. PICK x : x = Head(queue[t])
  OBVIOUS
<1>3. /\ pc[t] \in {"loop", "lock"} /\ held[t] = 0 /\ queue[t] # <<>> /\ x \in Block
      /\ queue[t] \in Seq(Block)
  BY <1>1, <1>2 DEF RingInv, TakeBlock, AtQueue, HeldInv
<1>4. /\ held' = [held EXCEPT ![t] = x]
      /\ queue' = [queue EXCEPT ![t] = Tail(queue[t])]
  BY <1>2 DEF TakeBlock
<1>5. LineShape /\ LineShape'
  BY <1>1, LineIsNow, LineIsNext
<1>6. /\ Line[Seat(t)] = <<>> /\ Line[Seat(t) + 1] = queue[t]
      /\ Line'[Seat(t)] = <<x>> /\ Line'[Seat(t) + 1] = Tail(queue[t])
  <2>1. Grip(t) = <<>> /\ Grip(t)' = <<x>> /\ queue'[t] = Tail(queue[t])
    BY <1>1, <1>3, <1>4, BoundsAssumption DEF Grip, Block
  <2>2. QED BY <1>5, <2>1 DEF LineShape
<1>7. ASSUME NEW k \in 1 .. 8, k \notin {Seat(t) + 1, Seat(t)} PROVE Line'[k] = Line[k]
  <2>1. PICK u \in Worker : k \in {Seat(u), Seat(u) + 1}
    BY <1>1, LineIs
  <2>2. u # t
    BY <1>7, <2>1
  <2>3. Grip(u)' = Grip(u) /\ queue'[u] = queue[u]
    BY <1>1, <1>4, <2>2 DEF Grip
  <2>4. QED BY <1>5, <2>1, <2>3 DEF LineShape
<1>8. Append(<<>>, x) = <<x>>
  OBVIOUS
<1>9. Keeps(Line, Line', {Seat(t) + 1, Seat(t)})
  BY <1>5, <1>7 DEF LineShape, Keeps
<1>10. Line'[Seat(t)] = Append(Line[Seat(t)], Head(Line[Seat(t) + 1]))
  BY <1>2, <1>6, <1>8
<1>11. QED BY <1>3, <1>6, <1>9, <1>10, Seats DEF Moved

LEMMA RingQueue ==
  ASSUME RingInv, NEW t \in Worker, OwnQueue(t)
  PROVE  RingInv'
<1> USE DEF RingInv
<1>1. TypeOK'
  BY TypeQueue
<1>2. Running' = Running /\ UNCHANGED <<router, content>>
  BY DEF OwnQueue, Leave, TakeBlock, FindNothing, Sleep, Running
<1>3. /\ pc \in [Worker -> WorkerPC] /\ held \in [Worker -> Block \cup {0}]
      /\ queue \in [Worker -> Seq(Block)]
  BY DEF TypeOK
<1>4. CASE Leave(t) \/ FindNothing(t) \/ Sleep(t)
  <2>1. /\ pc' \in {[pc EXCEPT ![t] = s] : s \in {"done", "about", "waiting"}}
        /\ pc[t] \in {"loop", "lock", "about"} /\ UNCHANGED <<queue, held>>
    BY <1>4 DEF Leave, FindNothing, Sleep, AtQueue
  <2>2. HeldInv'
    BY <1>2, <1>3, <1>4, <2>1 DEF HeldInv, Worker, Leave, FindNothing, Sleep
  <2>3. pc["read"] = "push" => pc'["read"] = "push"
    <3>1. "read" \in Worker
      BY DEF Worker
    <3>2. QED BY <1>3, <2>1, <3>1
  <2>4. QED BY <1>1, <1>2, <2>1, <2>2, <2>3, InPlace
<1>5. CASE TakeBlock(t)
  <2>0. PICK x : x = Head(queue[t])
    OBVIOUS
  <2>1. /\ pc[t] \in {"loop", "lock"} /\ held[t] = 0 /\ queue[t] # <<>> /\ x \in Block
        /\ queue[t] \in Seq(Block) /\ Running
    BY <1>3, <1>5, <2>0 DEF TakeBlock, AtQueue, HeldInv
  <2>2. /\ held' = [held EXCEPT ![t] = x] /\ pc' = [pc EXCEPT ![t] = "work"]
        /\ queue' = [queue EXCEPT ![t] = Tail(queue[t])]
    BY <1>5, <2>0 DEF TakeBlock
  <2>3. HeldInv'
    BY <1>2, <1>3, <2>1, <2>2, BoundsAssumption DEF HeldInv, Worker, Block
  <2>4. Moved(Line, Line', Seat(t) + 1, Seat(t))
    BY <1>5, TakeMoves DEF RingInv
  <2>5. Staged(Seat(t), x)'
    <3>1. Staged(Seat(t) + 1, x)
      <4>1. Line[Seat(t) + 1] = queue[t] /\ Seat(t) + 1 \in 1 .. 8
        BY Seats, LineIsNow DEF LineShape
      <4>2. x \in ToSet(queue[t])
        BY <2>0, <2>1, HeadAndTail
      <4>3. QED BY <4>1, <4>2 DEF StageInv
    <3>2. Seat(t) \in {1, 3, 5, 7}
      BY Seats
    <3>3. /\ Seat(t) = 1 => Seat(t) + 1 = 2
          /\ Seat(t) = 3 => Seat(t) + 1 = 4
          /\ Seat(t) = 5 => Seat(t) + 1 = 6
          /\ Seat(t) = 7 => Seat(t) + 1 = 8
      OBVIOUS
    <3>4. CASE Seat(t) = 5
      BY <3>4 DEF Staged
    <3>5. CASE Seat(t) = 1
      BY <1>2, <3>1, <3>3, <3>5 DEF Staged
    <3>6. CASE Seat(t) = 3
      BY <1>2, <3>1, <3>3, <3>6 DEF Staged
    <3>7. CASE Seat(t) = 7
      BY <1>2, <3>1, <3>3, <3>7 DEF Staged
    <3>8. QED BY <3>2, <3>4, <3>5, <3>6, <3>7
  <2>6. /\ Seat(t) \in 1 .. 8 /\ Seat(t) + 1 \in 1 .. 8 /\ x = Head(Line[Seat(t) + 1])
        /\ pc["read"] = "push" => pc'["read"] = "push"
    <3>1. "read" \in Worker
      BY DEF Worker
    <3>2. x = Head(Line[Seat(t) + 1])
      BY <2>0, LineIsNow DEF LineShape
    <3>3. pc["read"] = "push" => pc'["read"] = "push"
      BY <1>3, <2>1, <2>2, <3>1
    <3>4. QED BY <3>2, <3>3, Seats
  <2>7. QED BY <1>1, <1>2, <2>1, <2>3, <2>4, <2>5, <2>6, Moves
<1>6. QED BY <1>4, <1>5 DEF OwnQueue

Neighbours == {<<"read", "process">>, <<"process", "mstcp">>, <<"mstcp", "adapter">>,
               <<"adapter", "read">>}

\* A worker that hands a block on hands it to the end of the next queue.
LEMMA HandOnMoves ==
  ASSUME RingInv, NEW t \in Worker, NEW u \in Worker, <<t, u>> \in Neighbours, HandOn(t, u)
  PROVE  /\ Moved(Line, Line', Seat(t), Seat(u) + 1)
         /\ held[t] \in Block /\ held[t] # 0 /\ t # u /\ Running /\ pc[t] \in {"work", "push"}
<1>1. /\ TypeOK /\ TypeOK' /\ pc \in [Worker -> WorkerPC] /\ held \in [Worker -> Block \cup {0}]
      /\ queue \in [Worker -> Seq(Block)]
  BY TypeHandOn DEF RingInv, TypeOK
<1>2. PICK x : x = held[t]
  OBVIOUS
<1>3. /\ pc[t] \in {"work", "push"} /\ x \in Block /\ t # u /\ Running /\ queue[u] \in Seq(Block)
      /\ held[t] # 0
  <2>1. pc[t] \in {"work", "push"}
    BY DEF HandOn, BlockDone
  <2>2. held[t] # 0 /\ Running
    BY <2>1 DEF RingInv, HeldInv
  <2>3. t # u
    BY DEF Neighbours
  <2>4. QED BY <1>1, <1>2, <2>1, <2>2, <2>3
<1>4. /\ held' = [held EXCEPT ![t] = 0]
      /\ queue' = [queue EXCEPT ![u] = Append(queue[u], x)]
  BY <1>2 DEF HandOn
<1>5. LineShape /\ LineShape'
  BY <1>1, LineIsNow, LineIsNext
<1>6. /\ Line[Seat(t)] = <<x>> /\ Line[Seat(u) + 1] = queue[u]
      /\ Line'[Seat(t)] = <<>> /\ Line'[Seat(u) + 1] = Append(queue[u], x)
  <2>1. Grip(t) = <<x>> /\ Grip(t)' = <<>> /\ queue'[u] = Append(queue[u], x)
    BY <1>1, <1>2, <1>3, <1>4, BoundsAssumption DEF Grip, Block
  <2>2. QED BY <1>5, <2>1 DEF LineShape
<1>7. ASSUME NEW k \in 1 .. 8, k \notin {Seat(t), Seat(u) + 1} PROVE Line'[k] = Line[k]
  <2>1. PICK v \in Worker : k \in {Seat(v), Seat(v) + 1}
    BY <1>1, LineIs
  <2>2. CASE k = Seat(v)
    <3>1. v # t
      BY <1>7, <2>2
    <3>2. Grip(v)' = Grip(v)
      BY <1>1, <1>4, <3>1 DEF Grip
    <3>3. Line[Seat(v)] = Grip(v) /\ Line'[Seat(v)] = Grip(v)'
      BY <1>5 DEF LineShape
    <3>4. QED BY <2>2, <3>2, <3>3
  <2>3. CASE k = Seat(v) + 1
    <3>1. v # u
      BY <1>7, <2>3
    <3>2. queue'[v] = queue[v]
      BY <1>1, <1>4, <3>1
    <3>3. QED BY <1>5, <2>3, <3>2 DEF LineShape
  <2>4. QED BY <2>1, <2>2, <2>3
<1>8. Keeps(Line, Line', {Seat(t), Seat(u) + 1})
  BY <1>5, <1>7 DEF LineShape, Keeps
<1>9. Head(<<x>>) = x /\ Tail(<<x>>) = <<>> /\ <<x>> # <<>>
  OBVIOUS
<1>10. Seat(t) # Seat(u) + 1
  BY DEF Neighbours, Seat
<1>11. Moved(Line, Line', Seat(t), Seat(u) + 1)
  BY <1>6, <1>8, <1>9, <1>10 DEF Moved
<1>12. QED BY <1>2, <1>3, <1>11

LEMMA RingHandOn ==
  ASSUME RingInv, NEW t \in Worker, NEW u \in Worker, <<t, u>> \in Neighbours, HandOn(t, u)
  PROVE  RingInv'
<1> USE DEF RingInv
<1>1. TypeOK'
  BY TypeHandOn
<1>2. Running' = Running /\ UNCHANGED <<router, content>>
  BY DEF HandOn, Running
<1>3. /\ pc \in [Worker -> WorkerPC] /\ held \in [Worker -> Block \cup {0}]
      /\ queue \in [Worker -> Seq(Block)]
  BY DEF TypeOK
<1>4. PICK x : x = held[t]
  OBVIOUS
<1>5. /\ pc[t] \in {"work", "push"} /\ x \in Block /\ t # u /\ Running /\ held[t] # 0
  BY <1>4, HandOnMoves DEF RingInv
<1>6. /\ held' = [held EXCEPT ![t] = 0] /\ pc' = [pc EXCEPT ![t] = "loop", ![u] = Woken(@)]
      /\ queue' = [queue EXCEPT ![u] = Append(queue[u], x)]
  BY <1>4 DEF HandOn
<1>7. HeldInv'
  BY <1>2, <1>3, <1>5, <1>6, BoundsAssumption DEF HeldInv, Worker, Block, Woken
<1>8. Moved(Line, Line', Seat(t), Seat(u) + 1)
  BY HandOnMoves DEF RingInv
<1>9. Staged(Seat(u) + 1, x)'
  <2>1. Staged(Seat(t), x)
    <3>1. x \in ToSet(Line[Seat(t)]) /\ Seat(t) \in 1 .. 8
      BY <1>4, <1>5, HeldOnce, Seats
    <3>2. QED BY <3>1 DEF StageInv
  <2>2. content'[x] = content[x]
    BY <1>2
  <2>3. BlockDone(t)
    BY DEF HandOn
  <2>4. CASE t = "read" /\ u = "process"
    <3>1. Seat(t) = 7 /\ Seat(u) + 1 = 6
      BY <2>4 DEF Seat
    <3>2. Staged(7, x)
      BY <2>1, <3>1
    <3>3. Staged(6, x)'
      BY <2>2, <3>2 DEF Staged
    <3>4. QED BY <3>1, <3>3
  <2>5. CASE t = "process" /\ u = "mstcp"
    <3>1. Seat(t) = 5 /\ Seat(u) + 1 = 4
      BY <2>5 DEF Seat
    <3>2. content[x].todo = <<>>
      BY <1>4, <2>3, <2>5 DEF BlockDone
    <3>3. Staged(4, x)'
      BY <2>2, <3>2 DEF Staged
    <3>4. QED BY <3>1, <3>3
  <2>6. CASE t = "mstcp" /\ u = "adapter"
    <3>1. Seat(t) = 3 /\ Seat(u) + 1 = 2
      BY <2>6 DEF Seat
    <3>2. content[x].mstcp = <<>> /\ Staged(3, x)
      BY <1>4, <2>1, <2>3, <2>6, <3>1 DEF BlockDone
    <3>3. Staged(2, x)'
      BY <2>2, <3>2 DEF Staged
    <3>4. QED BY <3>1, <3>3
  <2>7. CASE t = "adapter" /\ u = "read"
    <3>1. Seat(t) = 1 /\ Seat(u) + 1 = 8
      BY <2>7 DEF Seat
    <3>2. content[x].adapter = <<>> /\ Staged(1, x)
      BY <1>4, <2>1, <2>3, <2>7, <3>1 DEF BlockDone
    <3>3. Staged(8, x)'
      BY <2>2, <3>2 DEF Staged
    <3>4. QED BY <3>1, <3>3
  <2>8. QED BY <2>4, <2>5, <2>6, <2>7 DEF Neighbours
<1>10. pc["read"] = "push" => pc'["read"] = "push" \/ Seat(t) = 7
  <2>1. t = "read" => Seat(t) = 7
    BY DEF Seat
  <2>2. "read" \in Worker
    BY DEF Worker
  <2>3. QED BY <1>3, <1>6, <2>1, <2>2 DEF Woken
<1>11. x = Head(Line[Seat(t)])
  <2>1. Line[Seat(t)] = <<x>>
    BY <1>4, <1>5, HeldOnce, BoundsAssumption DEF Block
  <2>2. QED BY <2>1
<1>12. QED BY <1>1, <1>2, <1>5, <1>7, <1>8, <1>9, <1>10, <1>11, Seats, Moves

LEMMA TodoOfHeld ==
  ASSUME RingInv, NEW t \in Worker, held[t] # 0
  PROVE  /\ held[t] \in Block /\ content[held[t]] \in Content
         /\ content[held[t]].todo \in Seq(Packet)
         /\ content[held[t]].mstcp \in Seq(Packet) /\ content[held[t]].adapter \in Seq(Packet)
         /\ Staged(Seat(t), held[t])
<1>1. held[t] \in Block /\ held[t] \in ToSet(Line[Seat(t)]) /\ Seat(t) \in 1 .. 8
  BY HeldOnce, Seats
<1>2. content[held[t]] \in Content
  BY <1>1 DEF RingInv, TypeOK
<1>3. Staged(Seat(t), held[t])
  BY <1>1 DEF RingInv, StageInv
<1>4. QED BY <1>1, <1>2, <1>3 DEF Content

LEMMA RingRead ==
  ASSUME RingInv, ReadThreadLocks \/ AwaitEvent \/ ReadPackets
  PROVE  RingInv'
<1> USE DEF RingInv
<1>1. TypeOK'
  BY TypeRead
<1>2. Running' = Running /\ UNCHANGED <<router, queue, held>>
  BY DEF ReadThreadLocks, AwaitEvent, ReadPackets, Running
<1>3. pc \in [Worker -> WorkerPC] /\ "read" \in Worker /\ "process" \in Worker
  BY DEF TypeOK, Worker
<1>4. CASE ReadThreadLocks \/ AwaitEvent
  <2>1. /\ UNCHANGED content
        /\ \/ pc["read"] = "loop" /\ pc' = [pc EXCEPT !["read"] = "lock"]
           \/ pc["read"] = "work" /\ pc' = [pc EXCEPT !["read"] = "fetch"]
    BY <1>4 DEF ReadThreadLocks, AwaitEvent
  <2>2. HeldInv'
    BY <1>2, <1>3, <2>1 DEF HeldInv, Worker
  <2>3. pc["read"] = "push" => pc'["read"] = "push"
    BY <2>1
  <2>4. QED BY <1>1, <1>2, <2>1, <2>2, <2>3, InPlace
<1>5. CASE ReadPackets
  <2> DEFINE n == IF Len(driver) < MaxPackets THEN Len(driver) ELSE MaxPackets
  <2>1. PICK b : b = held["read"]
    OBVIOUS
  <2>2. /\ pc["read"] = "fetch"
        /\ pc' = [pc EXCEPT !["read"] =
                    IF n = 0 /\ filterState = "running" THEN "work" ELSE "push"]
        /\ content' = [content EXCEPT ![b].todo = SubSeq(driver, 1, n)]
    BY <1>5, <2>1 DEF ReadPackets
  <2>10. held["read"] # 0 /\ Running
    BY <1>3, <2>2 DEF HeldInv
  <2>3. /\ b \in Block /\ content \in [Block -> Content] /\ Running /\ Staged(7, b)
    <3>2. Seat("read") = 7
      BY DEF Seat
    <3>3. QED BY <1>3, <2>1, <2>10, <3>2, TodoOfHeld DEF TypeOK
  <2>4. content'[b].todo = SubSeq(driver, 1, n) /\ content'[b].mstcp = content[b].mstcp
        /\ content'[b].adapter = content[b].adapter
    BY <2>2, <2>3 DEF Content
  <2>5. \A c \in Block : c # b => content'[c] = content[c]
    BY <2>2, <2>3
  <2>6. pc["process"] = "offer" => held["process"] \in Block /\ held["process"] # b
    <3>1. pc["process"] = "offer" => held["process"] # 0
      BY <1>3 DEF HeldInv
    <3>2. held["process"] # 0 => held["process"] \in Block /\ held["process"] # held["read"]
      BY <1>3, HeldOnce
    <3>3. QED BY <2>1, <3>1, <3>2
  <2>7. HeldInv'
    <3>1. pc'["process"] = pc["process"]
      BY <1>3, <2>2
    <3>2. pc'["process"] = "offer" => content'[held'["process"]].todo # <<>>
      BY <1>2, <2>5, <2>6, <3>1 DEF HeldInv
    <3>3. \A t \in Worker \ {"read"} : pc'[t] = pc[t]
      BY <1>3, <2>2
    <3>4. pc'["read"] \in {"work", "push"}
      BY <1>3, <2>2
    <3>5. QED BY <1>2, <1>3, <2>10, <3>2, <3>3, <3>4 DEF HeldInv, Worker
  <2>8. Staged(7, b)'
    <3>1. pc'["read"] # "push" => content'[b].todo = <<>>
      <4>1. pc'["read"] # "push" => n = 0
        BY <1>3, <2>2
      <4>2. SubSeq(driver, 1, 0) = <<>>
        BY DEF TypeOK
      <4>3. QED BY <2>4, <4>1, <4>2
    <3>2. QED BY <2>3, <2>4, <3>1 DEF Staged
  <2>9. \A c \in Block : content'[c] = content[c]
                         \/ \E t \in Worker : c = held[t] /\ Staged(Seat(t), c)'
    <3>1. Seat("read") = 7
      BY DEF Seat
    <3>2. b = held["read"] /\ Staged(Seat("read"), b)'
      BY <2>1, <2>8, <3>1
    <3>3. QED BY <1>3, <2>5, <3>2
  <2>11. pc["read"] = "push" => pc'["read"] = "push"
    BY <2>2
  <2>12. QED BY <1>1, <1>2, <2>3, <2>7, <2>9, <2>11, InPlace
<1>6. QED BY <1>4, <1>5

LEMMA RingProcess ==
  ASSUME RingInv,
         Decide("adapter") \/ Decide("mstcp") \/ CheckDepth \/ OfferCopy \/ NoBuffer \/ NotifyResolver
  PROVE  RingInv'
<1> USE DEF RingInv
<1>1. TypeOK'
  BY TypeProcess
<1>2. Running' = Running /\ UNCHANGED <<router, queue, held>>
  BY DEF Decide, CheckDepth, OfferCopy, NoBuffer, NotifyResolver, Running
<1>3. /\ pc \in [Worker -> WorkerPC] /\ "read" \in Worker /\ "process" \in Worker
      /\ content \in [Block -> Content]
  BY DEF TypeOK, Worker
<1>4. PICK b : b = held["process"]
  OBVIOUS
<1>5. /\ pc["process"] \in {"work", "offer", "notify"}
      /\ pc' \in {pc} \cup {[pc EXCEPT !["process"] = s] : s \in {"work", "offer", "notify"}}
      /\ pc'["process"] = "offer" => content[b].todo # <<>> /\ UNCHANGED content
  BY <1>3, <1>4 DEF Decide, CheckDepth, OfferCopy, NoBuffer, NotifyResolver, InHand, ToDecide
<1>6. \/ UNCHANGED content
      \/ content' = [content EXCEPT ![b].todo = Tail(@)]
      \/ \E v \in {"adapter", "mstcp"} :
           content' = [content EXCEPT ![b].todo = Tail(@), ![b][v] = Append(@, Head(content[b].todo))]
  BY <1>4 DEF Decide, CheckDepth, OfferCopy, NoBuffer, NotifyResolver, InHand, ToDecide
<1>7. \A c \in Block : c # b => content'[c] = content[c]
  BY <1>3, <1>6
<1>8. HeldInv'
  <2>1. pc'["process"] \in {"work", "offer", "notify"} /\ \A t \in Worker \ {"process"} : pc'[t] = pc[t]
    BY <1>3, <1>5
  <2>2. held["process"] # 0 /\ Running
    BY <1>3, <1>5 DEF HeldInv
  <2>3. pc'["process"] = "offer" => content'[held'["process"]].todo # <<>>
    BY <1>2, <1>4, <1>5
  <2>4. QED BY <1>2, <1>3, <2>1, <2>2, <2>3 DEF HeldInv, Worker
<1>9. \A c \in Block : content'[c] = content[c]
                       \/ \E t \in Worker : c = held[t] /\ Staged(Seat(t), c)'
  <2>1. Staged(5, b)'
    BY DEF Staged
  <2>2. Seat("process") = 5
    BY DEF Seat
  <2>3. QED BY <1>3, <1>4, <1>7, <2>1, <2>2
<1>10. pc["read"] = "push" => pc'["read"] = "push"
  BY <1>3, <1>5
<1>11. Running
  BY <1>3, <1>5 DEF HeldInv
<1>12. QED BY <1>1, <1>2, <1>8, <1>9, <1>10, <1>11, InPlace

LEMMA RingWrite ==
  ASSUME RingInv, NEW t \in {"mstcp", "adapter"}, Write(t)
  PROVE  RingInv'
<1> USE DEF RingInv
<1>1. TypeOK'
  BY TypeWrite
<1>2. Running' = Running /\ UNCHANGED <<router, queue, held, pc>>
  BY DEF Write, Running
<1>3. content \in [Block -> Content] /\ t \in Worker
  BY DEF TypeOK, Worker
<1>4. PICK b : b = held[t]
  OBVIOUS
<1>5. held[t] # 0 /\ Running /\ b \in Block /\ Staged(Seat(t), b)
  <2>1. pc[t] = "work"
    BY DEF Write
  <2>2. held[t] # 0 /\ Running
    BY <1>3, <2>1 DEF HeldInv
  <2>3. QED BY <1>3, <1>4, <2>2, TodoOfHeld
<1>6. content' = [content EXCEPT ![b][t] = <<>>]
  BY <1>4 DEF Write
<1>7. /\ \A c \in Block : c # b => content'[c] = content[c]
      /\ content'[b].todo = content[b].todo
      /\ t = "adapter" => content'[b].mstcp = content[b].mstcp
  <2>1. content'[b] = [content[b] EXCEPT ![t] = <<>>]
    BY <1>3, <1>5, <1>6
  <2>2. content[b] \in Content
    BY <1>3, <1>5
  <2>3. CASE t = "mstcp"
    BY <1>3, <1>6, <2>1, <2>2, <2>3 DEF Content
  <2>4. CASE t = "adapter"
    BY <1>3, <1>6, <2>1, <2>2, <2>4 DEF Content
  <2>5. QED BY <2>3, <2>4
<1>8. HeldInv'
  <2>1. pc["process"] = "offer" => /\ held["process"] \in Block
                                   /\ content[held["process"]].todo # <<>>
    BY DEF HeldInv, TypeOK, Worker
  <2>2. pc["process"] = "offer" => content'[held["process"]].todo # <<>>
    BY <1>7, <2>1
  <2>3. QED BY <1>2, <2>2 DEF HeldInv
<1>9. Staged(Seat(t), b)'
  <2>1. CASE t = "mstcp"
    <3>1. Seat(t) = 3
      BY <2>1 DEF Seat
    <3>2. Staged(3, b)
      BY <1>5, <3>1
    <3>3. Staged(3, b)'
      BY <1>7, <3>2 DEF Staged
    <3>4. QED BY <3>1, <3>3
  <2>2. CASE t = "adapter"
    <3>1. Seat(t) = 1
      BY <2>2 DEF Seat
    <3>2. Staged(1, b)
      BY <1>5, <3>1
    <3>3. Staged(1, b)'
      BY <1>7, <2>2, <3>2 DEF Staged
    <3>4. QED BY <3>1, <3>3
  <2>3. QED BY <2>1, <2>2
<1>10. \A c \in Block : content'[c] = content[c]
                        \/ \E w \in Worker : c = held[w] /\ Staged(Seat(w), c)'
  BY <1>3, <1>4, <1>7, <1>9
<1>11. QED BY <1>1, <1>2, <1>5, <1>8, <1>10, InPlace

LEMMA RingElsewhere ==
  ASSUME RingInv, UNCHANGED <<pc, queue, held, content>>, TypeOK', Running' = Running
  PROVE  RingInv'
<1>1. HeldInv'
  BY DEF RingInv, HeldInv
<1>2. QED BY <1>1, InPlace

LEMMA RingStop ==
  ASSUME RingInv, Stop
  PROVE  RingInv'
<1> USE DEF RingInv
<1>1. TypeOK'
  BY TypeLifecycle
<1>2. CASE ReleaseFilter
  <2>1. /\ Running /\ Running' /\ UNCHANGED <<queue, held, content>>
        /\ pc' = [t \in Worker |-> Woken(pc[t])]
    BY <1>2 DEF ReleaseFilter, Running
  <2>2. HeldInv'
    BY <2>1 DEF HeldInv, Woken, Worker
  <2>3. pc["read"] = "push" => pc'["read"] = "push"
    BY <2>1 DEF Woken, Worker
  <2>4. QED BY <1>1, <2>1, <2>2, <2>3, InPlace
<1>3. CASE WorkersJoined
  <2>1. /\ \A t \in Worker : pc[t] = "done" /\ queue'[t] = <<>>
        /\ ~Running' /\ UNCHANGED <<held, pc>> /\ content' = [b \in Block |-> EmptyBlock]
    BY <1>3 DEF WorkersJoined, Running
  <2>2. HeldInv'
    BY <2>1 DEF HeldInv, Worker
  <2>3. \A k \in 1 .. 8 : Line'[k] = <<>>
    <3>1. \A t \in Worker : Grip(t)' = <<>> /\ queue'[t] = <<>>
      BY <2>1, <2>2 DEF HeldInv, Grip
    <3>2. LineShape'
      BY <1>1, LineIsNext
    <3>3. ASSUME NEW k \in 1 .. 8 PROVE Line'[k] = <<>>
      <4>1. PICK t \in Worker : k \in {Seat(t), Seat(t) + 1}
        BY LineIs
      <4>2. Line'[Seat(t)] = <<>> /\ Line'[Seat(t) + 1] = <<>>
        BY <3>1, <3>2 DEF LineShape
      <4>3. QED BY <4>1, <4>2
    <3>4. QED BY <3>3
  <2>4. \A k \in 1 .. 8 : IsInjective(Line'[k]) /\ ToSet(Line'[k]) = {}
    BY <2>3 DEF IsInjective, ToSet
  <2>5. DOMAIN Line' = 1 .. 8
    BY <1>1, LineIsNext DEF LineShape
  <2>6. BlocksInv'
    BY <2>1, <2>4, <2>5 DEF BlocksInv, Apart, All
  <2>7. StageInv'
    BY <2>1, <2>4 DEF StageInv
  <2>8. QED BY <1>1, <2>2, <2>6, <2>7
<1>4. CASE StoreExit \/ NotifyExit \/ ResolverJoined
  BY <1>1, <1>4, RingElsewhere DEF StoreExit, NotifyExit, ResolverJoined, filterVars, Running
<1>5. QED BY <1>2, <1>3, <1>4 DEF Stop

LEMMA RingStart ==
  ASSUME RingInv, Start
  PROVE  RingInv'
<1> USE DEF RingInv
<1>1. TypeOK'
  BY TypeLifecycle
<1>2. ~Running /\ UNCHANGED <<held, content>>
  BY DEF Start, Running
<1>3. CASE router' = "filterStopped"
  <2>1. UNCHANGED <<pc, queue>> /\ ~Running'
    BY <1>3 DEF Start, Running
  <2>2. QED BY <1>1, <1>2, <2>1, RingElsewhere DEF Running
<1>4. CASE router' = "active"
  <2>1. /\ Running' /\ pc' = [t \in Worker |-> "loop"]
        /\ queue' = [queue EXCEPT !["read"] = [i \in Block |-> i]]
    BY <1>4 DEF Start, Running
  <2>2. \A t \in Worker : held[t] = 0
    BY <1>2 DEF HeldInv
  <2>3. HeldInv'
    BY <1>2, <2>1, <2>2 DEF HeldInv, Worker
  <2>4. LineShape /\ LineShape'
    BY <1>1, LineIsNow, LineIsNext
  <2>5. \A k \in 1 .. 8 : Line[k] = <<>>
    <3>1. ASSUME NEW k \in 1 .. 8 PROVE Line[k] = <<>>
      <4>1. Line[k] \in Seq(Block) /\ k \in DOMAIN Line
        BY <2>4 DEF LineShape
      <4>2. ToSet(Line[k]) \subseteq All(Line)
        BY <4>1 DEF All
      <4>3. ToSet(Line[k]) = {}
        BY <1>2, <4>2 DEF BlocksInv
      <4>4. QED BY <4>1, <4>3, HeadAndTail
    <3>2. QED BY <3>1
  <2>6. "read" \in Worker /\ queue \in [Worker -> Seq(Block)] /\ Seat("read") = 7
    BY DEF Worker, TypeOK, Seat
  <2>7. \A k \in 1 .. 7 : Line'[k] = <<>>
    <3>1. ASSUME NEW k \in 1 .. 7 PROVE Line'[k] = <<>>
      <4>1. PICK t \in Worker : k \in {Seat(t), Seat(t) + 1}
        BY LineIs
      <4>2. CASE k = Seat(t)
        BY <1>2, <2>2, <2>4, <4>2 DEF LineShape, Grip
      <4>3. CASE k = Seat(t) + 1
        <5>1. t # "read"
          BY <2>6, <4>3
        <5>2. queue'[t] = queue[t] /\ Line[Seat(t) + 1] = queue[t]
          BY <2>1, <2>4, <2>6, <5>1 DEF LineShape
        <5>3. QED BY <2>4, <2>5, <4>3, <5>2 DEF LineShape
      <4>4. QED BY <4>1, <4>2, <4>3
    <3>2. QED BY <3>1
  <2>8. Line'[8] = [i \in Block |-> i]
    <3>1. Line'[8] = queue'["read"]
      BY DEF Line
    <3>2. QED BY <2>1, <2>6, <3>1
  <2>9. /\ \A k \in 1 .. 7 : IsInjective(Line'[k]) /\ ToSet(Line'[k]) = {}
        /\ IsInjective(Line'[8]) /\ ToSet(Line'[8]) = Block
    BY <2>7, <2>8 DEF IsInjective, ToSet
  <2>10. DOMAIN Line' = 1 .. 8
    BY <2>4 DEF LineShape
  <2>11. BlocksInv'
    BY <2>1, <2>9, <2>10 DEF BlocksInv, Apart, All
  <2>12. StageInv'
    <3>1. \A b \in Block : content'[b] = EmptyBlock
      BY <1>2 DEF StageInv
    <3>2. \A b \in Block : Staged(8, b)'
      BY <3>1 DEF Staged, EmptyBlock
    <3>3. QED BY <2>1, <2>9, <3>2 DEF StageInv
  <2>13. QED BY <1>1, <2>3, <2>11, <2>12
<1>5. QED BY <1>3, <1>4 DEF Start

LEMMA RingStep ==
  ASSUME RingInv, [Next]_vars
  PROVE  RingInv'
<1> USE DEF RingInv
<1>1. CASE ReadThread
  BY <1>1, RingRead, RingQueue, RingHandOn DEF ReadThread, Worker, Neighbours
<1>2. CASE ProcessThread
  BY <1>2, RingProcess, RingQueue, RingHandOn DEF ProcessThread, Worker, Neighbours
<1>3. CASE MstcpThread
  BY <1>3, RingWrite, RingQueue, RingHandOn DEF MstcpThread, Worker, Neighbours
<1>4. CASE AdapterThread
  BY <1>4, RingWrite, RingQueue, RingHandOn DEF AdapterThread, Worker, Neighbours
<1>5. CASE ResolverThread
  BY <1>5, TypeResolver, RingElsewhere
     DEF ResolverThread, ResolverLeaves, ResolverSwaps, ResolverFindsNothing, ResolverBlocks,
         ResolverTimesOut, ResolverDecides, ResolverSends, filterVars, Running
<1>6. CASE StopBegins \/ Arrive
  <2>1. TypeOK' /\ UNCHANGED <<pc, queue, held, content>>
    BY <1>6, TypeLifecycle DEF StopBegins, Arrive, filterVars
  <2>2. Running' = Running
    BY <1>6 DEF StopBegins, Arrive, Running
  <2>3. QED BY <2>1, <2>2, RingElsewhere
<1>7. CASE UNCHANGED vars
  BY <1>7, RingElsewhere DEF vars, filterVars, TypeOK, Running
<1>8. QED BY <1>1, <1>2, <1>3, <1>4, <1>5, <1>6, <1>7, RingStart, RingStop DEF Next

LEMMA RingInitially == Init => RingInv
<1> SUFFICES ASSUME Init PROVE RingInv
  OBVIOUS
<1>1. TypeOK /\ HeldInv
  BY TypeInit
<1>2. ~Running /\ \A t \in Worker : held[t] = 0 /\ queue[t] = <<>>
  BY DEF Init, Running
<1>3. \A k \in 1 .. 8 : Line[k] = <<>>
  <2>1. \A t \in Worker : Grip(t) = <<>>
    BY <1>2 DEF Grip
  <2>2. QED BY <1>1, <1>2, <2>1, LineIs
<1>4. \A k \in 1 .. 8 : IsInjective(Line[k]) /\ ToSet(Line[k]) = {}
  BY <1>3 DEF IsInjective, ToSet
<1>5. DOMAIN Line = 1 .. 8
  BY <1>1, LineIs
<1>6. QED BY <1>1, <1>2, <1>4, <1>5 DEF RingInv, BlocksInv, Apart, All, StageInv, Init

-----------------------------------------------------------------------------
(***************************************************************************)
(* Where the packets are.                                                  *)
(***************************************************************************)
\* The places, by name.
FreeName == {"driver", "resolveQueue", "batch", "toAdapters", "toMstcp", "sent"}
Field == {"todo", "mstcp", "adapter"}
Free(f) == <<0, f>>
InBlock(b, f) == <<b, f>>

LEMMA PlaceNames ==
  /\ \A f \in FreeName : Free(f) \in Place
  /\ \A f, g \in FreeName : Free(f) = Free(g) => f = g
  /\ \A b \in Block, f \in Field : InBlock(b, f) \in Place
  /\ \A b \in Block, f \in Field, g \in FreeName : InBlock(b, f) # Free(g)
  /\ \A b, c \in Block, f, g \in Field : InBlock(b, f) = InBlock(c, g) => b = c /\ f = g
  /\ \A a \in Place : \/ \E f \in FreeName : a = Free(f)
                      \/ \E b \in Block, f \in Field : a = InBlock(b, f)
<1>1. \A b \in Block : b # 0
  BY BoundsAssumption DEF Block
<1>2. QED BY <1>1 DEF Place, Free, InBlock, FreeName, Field

WhereShape ==
  /\ Strewn(Whereabouts, Place, Packet) /\ DOMAIN Whereabouts = Place
  /\ \A f \in FreeName : Whereabouts[Free(f)] = Outside[f]
  /\ \A b \in Block, f \in Field : Whereabouts[InBlock(b, f)] = content[b][f]

LEMMA WhereIs == TypeOK => WhereShape
<1> SUFFICES ASSUME TypeOK PROVE WhereShape
  OBVIOUS
<1>1. DOMAIN Whereabouts = Place
  BY DEF Whereabouts
<1>2. \A f \in FreeName : Whereabouts[Free(f)] = Outside[f]
  <2>1. \A f \in FreeName : Free(f) \in Place /\ Free(f)[1] = 0 /\ Free(f)[2] = f
    BY PlaceNames DEF Free
  <2>2. QED BY <2>1 DEF Whereabouts
<1>3. \A b \in Block, f \in Field : Whereabouts[InBlock(b, f)] = content[b][f]
  <2>1. \A b \in Block, f \in Field :
          InBlock(b, f) \in Place /\ InBlock(b, f)[1] = b /\ InBlock(b, f)[2] = f /\ b # 0
    <3>1. \A b \in Block, f \in Field : InBlock(b, f)[1] = b /\ InBlock(b, f)[2] = f
      BY DEF InBlock
    <3>2. \A b \in Block : b # 0
      BY BoundsAssumption DEF Block
    <3>3. QED BY <3>1, <3>2, PlaceNames
  <2>2. QED BY <2>1 DEF Whereabouts
<1>4. \A f \in FreeName : Outside[f] \in Seq(Packet)
  BY DEF FreeName, Outside, TypeOK
<1>5. \A b \in Block, f \in Field : content[b][f] \in Seq(Packet)
  BY DEF Field, Content, TypeOK
<1>6. \A a \in Place : Whereabouts[a] \in Seq(Packet)
  BY <1>2, <1>3, <1>4, <1>5, PlaceNames
<1>7. Whereabouts = [a \in Place |-> Whereabouts[a]]
  BY DEF Whereabouts
<1>8. QED BY <1>1, <1>2, <1>3, <1>6, <1>7 DEF WhereShape, Strewn
LEMMA WhereIsNext == TypeOK' => WhereShape'
BY WhereIs, PTL

\* All that is on the way, and the fates of what is there.
Present == {p \in 1 .. arrived : fate[p] \notin Discarded}
Gathered == Apart(Whereabouts) /\ All(Whereabouts) = Present
NotYet == \A p \in Packet : p > arrived => fate[p] = "none"
WhereInv == Gathered /\ NotYet /\ FateInv

LEMMA FatesAt ==
  /\ FateAt(Free("driver")) = {"none"}
  /\ \A f \in {"resolveQueue", "batch", "toAdapters", "toMstcp"} : FateAt(Free(f)) = {"deferred"}
  /\ FateAt(Free("sent")) = {"mstcp", "adapter", "deferred"}
  /\ \A b : FateAt(InBlock(b, "todo")) = {"none"}
  /\ \A b : \A v \in {"mstcp", "adapter"} : FateAt(InBlock(b, v)) = {v}
BY DEF FateAt, Free, InBlock

LEMMA FatesOfPlaces == \A a \in Place : FateAt(a) \cap Discarded = {}
<1>1. \A f \in FreeName : FateAt(Free(f)) \cap Discarded = {}
  BY FatesAt DEF FreeName, Discarded
<1>2. \A b \in Block, f \in Field : FateAt(InBlock(b, f)) \cap Discarded = {}
  BY FatesAt DEF Field, Discarded
<1>3. QED BY <1>1, <1>2, PlaceNames

\* The packets that are somewhere have arrived.
LEMMA Arrived ==
  ASSUME TypeOK, Gathered, NEW a \in Place, NEW p \in ToSet(Whereabouts[a])
  PROVE  p \in Packet /\ p \in Present /\ p \in All(Whereabouts) /\ p \in 1 .. arrived
<1>1. p \in All(Whereabouts)
  BY WhereIs DEF WhereShape, All
<1>2. Present \subseteq Packet
  BY BoundsAssumption DEF Present, TypeOK, Packet
<1>3. QED BY <1>1, <1>2 DEF Gathered, Present

\* One packet goes from a place to another, and gets a fate of that place.
LEMMA PassOn ==
  ASSUME TypeOK, TypeOK', Gathered, NotYet, FateInv, NEW V, V = Whereabouts',
         NEW a \in Place, NEW b \in Place, Moved(Whereabouts, V, a, b),
         NEW x, x = Head(Whereabouts[a]), arrived' = arrived,
         \A p \in Packet : p # x => fate'[p] = fate[p],
         fate'[x] \in FateAt(b)
  PROVE  (Gathered /\ NotYet /\ FateInv)'
<1> DEFINE W == Whereabouts
<1>1. /\ Strewn(W, Place, Packet) /\ Moved(W, V, a, b) /\ W[a] # <<>>
      /\ Apart(W) /\ DOMAIN W = Place /\ a \in Place /\ b \in Place
  BY WhereIs DEF WhereShape, Gathered, Moved
<1> HIDE DEF W
<1>2. /\ Apart(V) /\ All(V) = All(W) /\ x \in ToSet(V[b])
      /\ \A c \in Place : \A y \in ToSet(V[c]) : y \in ToSet(W[c]) \/ (y = x /\ c = b)
  <2>1. /\ Apart(V) /\ All(V) = All(W) /\ Head(W[a]) \in ToSet(V[b])
        /\ \A c \in Place : \A y \in ToSet(V[c]) :
              y \in ToSet(W[c]) \/ (y = Head(W[a]) /\ c = b)
    BY ONLY <1>1, MoveOne
  <2>2. x = Head(W[a])
    BY DEF W
  <2>3. QED BY <2>1, <2>2
<1>3. x \in ToSet(W[a])
  BY <1>1, HeadAndTail DEF Strewn, W
<1>4. x \in Packet /\ x \in Present /\ x \in 1 .. arrived
  BY <1>3, Arrived DEF W
<1>5. fate'[x] \notin Discarded
  BY FatesOfPlaces
<1>6. Present' = Present
  <2>1. \A p \in 1 .. arrived : p \in Packet
    BY BoundsAssumption DEF TypeOK, Packet
  <2>2. QED BY <1>4, <1>5, <2>1 DEF Present
<1>7. Gathered'
  BY <1>2, <1>6 DEF Gathered, W
<1>8. NotYet'
  <2>1. ~(x > arrived)
    <3>1. arrived \in Nat
      BY BoundsAssumption DEF TypeOK
    <3>2. QED BY ONLY <1>4, <3>1
  <2>2. QED BY <2>1 DEF NotYet
<1>9. FateInv'
  <2>1. DOMAIN V = Place
    BY <1>1 DEF Moved, Keeps
  <2>2. ASSUME NEW c \in Place, NEW y \in ToSet(V[c]) PROVE fate'[y] \in FateAt(c)
    <3>1. CASE y = x
      <4>1. c = b
        BY <1>2, <2>1, <2>2, <3>1 DEF Apart
      <4>2. QED BY <3>1, <4>1
    <3>2. CASE y # x
      <4>1. y \in ToSet(W[c])
        BY <1>2, <2>2, <3>2
      <4>2. y \in Packet /\ fate[y] \in FateAt(c)
        BY <4>1, Arrived DEF W, FateInv
      <4>3. QED BY <3>2, <4>2
    <3>3. QED BY <3>1, <3>2
  <2>3. QED BY <2>2 DEF FateInv, FateAt
<1>10. QED BY <1>7, <1>8, <1>9

\* One packet is dropped.
LEMMA DropOne ==
  ASSUME TypeOK, TypeOK', Gathered, NotYet, FateInv, NEW V, V = Whereabouts',
         NEW a \in Place, Taken(Whereabouts, V, a),
         NEW x, x = Head(Whereabouts[a]), arrived' = arrived,
         fate' = [fate EXCEPT ![x] = "dropped"]
  PROVE  (Gathered /\ NotYet /\ FateInv)'
<1> DEFINE W == Whereabouts
<1>1. /\ Strewn(W, Place, Packet) /\ Taken(W, V, a) /\ W[a] # <<>>
      /\ Apart(W) /\ DOMAIN W = Place /\ a \in Place
  BY WhereIs DEF WhereShape, Gathered, Taken
<1> HIDE DEF W
<1>2. /\ Apart(V) /\ All(V) = All(W) \ {x}
      /\ \A c \in Place : ToSet(V[c]) \subseteq ToSet(W[c])
  <2>1. Reduced(W, V, Place, {Head(W[a])})
    BY ONLY <1>1, TakeOne
  <2>2. x = Head(W[a])
    BY DEF W
  <2>3. QED BY <2>1, <2>2 DEF Reduced
<1>3. x \in ToSet(W[a])
  BY <1>1, HeadAndTail DEF Strewn, W
<1>4. x \in Packet /\ x \in Present /\ x \in 1 .. arrived
  BY <1>3, Arrived DEF W
<1>5. fate'[x] = "dropped" /\ \A p \in Packet : p # x => fate'[p] = fate[p]
  BY <1>4 DEF TypeOK
<1>6. Present' = Present \ {x}
  <2>1. \A p \in 1 .. arrived : p \in Packet
    BY BoundsAssumption DEF TypeOK, Packet
  <2>2. QED BY <1>4, <1>5, <2>1 DEF Present, Discarded
<1>7. Gathered'
  BY <1>2, <1>6 DEF Gathered, W
<1>8. NotYet'
  <2>1. ~(x > arrived)
    <3>1. arrived \in Nat
      BY BoundsAssumption DEF TypeOK
    <3>2. QED BY ONLY <1>4, <3>1
  <2>2. QED BY <1>5, <2>1 DEF NotYet
<1>9. FateInv'
  <2>1. DOMAIN V = Place
    BY <1>1 DEF Taken, Keeps
  <2>2. ASSUME NEW c \in Place, NEW y \in ToSet(V[c]) PROVE fate'[y] \in FateAt(c)
    <3>1. y \in ToSet(W[c]) /\ y # x
      BY <1>2, <2>1, <2>2 DEF All
    <3>2. y \in Packet /\ fate[y] \in FateAt(c)
      BY <3>1, Arrived DEF W, FateInv
    <3>3. QED BY <1>5, <3>1, <3>2
  <2>3. QED BY <2>2 DEF FateInv, FateAt
<1>10. QED BY <1>7, <1>8, <1>9

\* Many packets go from a place to another where they have the same fates.
LEMMA CarryOn ==
  ASSUME TypeOK, TypeOK', Gathered, NotYet, FateInv, NEW a, NEW b,
         Shifted(Whereabouts, Whereabouts', Place, a, b),
         a \in Place, b \in Place, FateAt(a) \subseteq FateAt(b), UNCHANGED <<arrived, fate>>
  PROVE  (Gathered /\ NotYet /\ FateInv)'
<1>1. Gathered' /\ NotYet'
  BY DEF Gathered, NotYet, Present, Shifted
<1>2. ASSUME NEW c \in Place, NEW y \in ToSet(Whereabouts'[c]) PROVE fate'[y] \in FateAt(c)
  BY <1>2 DEF FateInv, Shifted
<1>3. FateInv'
  BY <1>2 DEF FateInv, FateAt
<1>4. QED BY <1>1, <1>3

\* Some places are emptied by stop().
LEMMA ThrowOut ==
  ASSUME TypeOK, TypeOK', Gathered, NotYet, FateInv, NEW V, V = Whereabouts',
         NEW S, S \subseteq Place, Emptied(Whereabouts, V, S), arrived' = arrived,
         NEW D, D = UNION {ToSet(Whereabouts[a]) : a \in S}, fate' = Discard(D, "stopped")
  PROVE  (Gathered /\ NotYet /\ FateInv)'
<1> DEFINE W == Whereabouts
<1>1. /\ Strewn(W, Place, Packet) /\ Emptied(W, V, S) /\ S \subseteq Place
      /\ Apart(W) /\ DOMAIN W = Place
  BY WhereIs DEF WhereShape, Gathered
<1>2. D = UNION {ToSet(W[a]) : a \in S}
  OBVIOUS
<1> HIDE DEF W
<1>3. /\ Apart(V) /\ All(V) = All(W) \ D
      /\ \A c \in Place : ToSet(V[c]) \subseteq ToSet(W[c])
  <2>1. Reduced(W, V, Place, UNION {ToSet(W[a]) : a \in S})
    BY ONLY <1>1, TakeAll
  <2>2. Reduced(W, V, Place, D)
    BY <1>2, <2>1
  <2>3. QED BY <2>2 DEF Reduced
<1>4. D \subseteq Present /\ D \subseteq 1 .. arrived
  <2>1. ASSUME NEW p \in D PROVE p \in Present /\ p \in 1 .. arrived
    <3>1. PICK a \in S : p \in ToSet(W[a])
      BY <1>2
    <3>2. QED BY <3>1, Arrived DEF W
  <2>2. QED BY <2>1
<1>5. \A p \in Packet : fate'[p] = IF p \in D THEN "stopped" ELSE fate[p]
  BY DEF Discard
<1>6. Present' = Present \ D
  <2>1. \A p \in 1 .. arrived : p \in Packet
    BY BoundsAssumption DEF TypeOK, Packet
  <2>2. QED BY <1>4, <1>5, <2>1 DEF Present, Discarded
<1>7. Gathered'
  BY <1>3, <1>6 DEF Gathered, W
<1>8. NotYet'
  <2>1. \A p \in D : ~(p > arrived)
    <3>1. arrived \in Nat
      BY BoundsAssumption DEF TypeOK
    <3>2. QED BY ONLY <1>4, <3>1
  <2>2. QED BY <1>5, <2>1 DEF NotYet
<1>9. FateInv'
  <2>1. DOMAIN V = Place
    BY <1>1 DEF Emptied, Keeps
  <2>2. ASSUME NEW c \in Place, NEW y \in ToSet(V[c]) PROVE fate'[y] \in FateAt(c)
    <3>1. y \in ToSet(W[c]) /\ y \notin D
      BY <1>3, <2>1, <2>2 DEF All
    <3>2. y \in Packet /\ fate[y] \in FateAt(c)
      BY <3>1, Arrived DEF W, FateInv
    <3>3. QED BY <1>5, <3>1, <3>2
  <2>3. QED BY <2>2 DEF FateInv, FateAt
<1>10. QED BY <1>7, <1>8, <1>9

\* Which places a step leaves as they are.
LEMMA WhereKeeps ==
  ASSUME TypeOK, TypeOK', NEW S,
         \A f \in FreeName : Free(f) \in S \/ Outside'[f] = Outside[f],
         \A b \in Block, f \in Field : InBlock(b, f) \in S \/ content'[b][f] = content[b][f]
  PROVE  Keeps(Whereabouts, Whereabouts', S)
<1>1. WhereShape /\ WhereShape'
  BY WhereIs, WhereIsNext
<1>2. ASSUME NEW a \in Place, a \notin S PROVE Whereabouts'[a] = Whereabouts[a]
  <2>1. ASSUME NEW f \in FreeName, a = Free(f) PROVE Whereabouts'[a] = Whereabouts[a]
    BY <1>1, <1>2, <2>1 DEF WhereShape
  <2>2. ASSUME NEW b \in Block, NEW f \in Field, a = InBlock(b, f)
        PROVE  Whereabouts'[a] = Whereabouts[a]
    BY <1>1, <1>2, <2>2 DEF WhereShape
  <2>3. QED BY <2>1, <2>2, PlaceNames
<1>3. QED BY <1>1, <1>2 DEF Keeps, WhereShape

Whole == RingInv /\ WhereInv /\ ShutdownInv

LEMMA WhereDecide ==
  ASSUME Whole, RingInv', NEW v \in {"adapter", "mstcp"}, Decide(v)
  PROVE  WhereInv'
<1> USE DEF Whole
<1>1. PICK b : b = held["process"]
  OBVIOUS
<1>2. /\ pc["process"] = "work" /\ content[b].todo # <<>>
      /\ content' = [content EXCEPT ![b].todo = Tail(@), ![b][v] = Append(@, Head(content[b].todo))]
      /\ fate' = [fate EXCEPT ![Head(content[b].todo)] = v]
      /\ Outside' = Outside /\ UNCHANGED <<resolver, batch, toAdapters, toMstcp, arrived>>
  BY <1>1 DEF Decide, InHand, ToDecide, Outside, driverVars, resolverVars
<1>3. b \in Block /\ content[b] \in Content /\ content \in [Block -> Content] /\ TypeOK /\ TypeOK'
      /\ fate \in [Packet -> Fate]
  <2>1. "process" \in Worker
    BY DEF Worker
  <2>2. held["process"] # 0
    BY <1>2, <2>1 DEF RingInv, HeldInv
  <2>3. QED BY <1>1, <2>1, <2>2, TodoOfHeld DEF RingInv, TypeOK
<1>4. PICK x : x = Head(content[b].todo)
  OBVIOUS
<1>5. /\ content'[b].todo = Tail(content[b].todo) /\ content'[b][v] = Append(content[b][v], x)
      /\ \A f \in Field : f \notin {"todo", v} => content'[b][f] = content[b][f]
      /\ \A c \in Block : c # b => content'[c] = content[c]
  <2>1. CASE v = "adapter"
    BY <1>2, <1>3, <1>4, <2>1 DEF Content, Field
  <2>2. CASE v = "mstcp"
    BY <1>2, <1>3, <1>4, <2>2 DEF Content, Field
  <2>3. QED BY <2>1, <2>2
<1>6. InBlock(b, "todo") \in Place /\ InBlock(b, v) \in Place /\ InBlock(b, "todo") # InBlock(b, v)
      /\ v \in Field /\ "todo" \in Field
  BY <1>3, PlaceNames DEF Field
<1>7. WhereShape /\ WhereShape'
  BY <1>3, WhereIs, WhereIsNext
<1>8. Keeps(Whereabouts, Whereabouts', {InBlock(b, "todo"), InBlock(b, v)})
  <2>1. \A f \in FreeName : Outside'[f] = Outside[f]
    BY <1>2
  <2>2. ASSUME NEW c \in Block, NEW f \in Field
        PROVE  InBlock(c, f) \in {InBlock(b, "todo"), InBlock(b, v)} \/ content'[c][f] = content[c][f]
    BY <1>5
  <2>3. QED BY <1>3, <2>1, <2>2, WhereKeeps
<1>9. Moved(Whereabouts, Whereabouts', InBlock(b, "todo"), InBlock(b, v))
      /\ x = Head(Whereabouts[InBlock(b, "todo")])
  <2>1. /\ Whereabouts[InBlock(b, "todo")] = content[b].todo
        /\ Whereabouts[InBlock(b, v)] = content[b][v]
        /\ Whereabouts'[InBlock(b, "todo")] = content'[b].todo
        /\ Whereabouts'[InBlock(b, v)] = content'[b][v]
    BY <1>3, <1>6, <1>7 DEF WhereShape
  <2>2. QED BY <1>2, <1>4, <1>5, <1>6, <1>8, <2>1 DEF Moved
<1>10. x \in Packet
  <2>1. content[b].todo \in Seq(Packet)
    BY <1>3 DEF Content
  <2>2. QED BY <1>2, <1>4, <2>1
<1>11. \A p \in Packet : p # x => fate'[p] = fate[p]
  BY <1>2, <1>3, <1>4
<1>12. fate'[x] \in FateAt(InBlock(b, v))
  BY <1>2, <1>3, <1>4, <1>10, FatesAt
<1>13. (Gathered /\ NotYet /\ FateInv)'
  BY <1>2, <1>3, <1>6, <1>9, <1>11, <1>12, PassOn DEF WhereInv
<1>14. QED BY <1>2, <1>13 DEF WhereInv

\* The packet in hand is dropped.
LEMMA WhereDrop ==
  ASSUME Whole, RingInv', NEW b \in Block, b = held["process"], content[b].todo # <<>>,
         content' = [content EXCEPT ![b].todo = Tail(@)],
         fate' = [fate EXCEPT ![Head(content[b].todo)] = "dropped"],
         Outside' = Outside, UNCHANGED <<resolver, batch, toAdapters, toMstcp, arrived>>
  PROVE  WhereInv'
<1> USE DEF Whole
<1>1. content[b] \in Content /\ content \in [Block -> Content] /\ TypeOK /\ TypeOK'
  BY DEF RingInv, TypeOK
<1>2. PICK x : x = Head(content[b].todo)
  OBVIOUS
<1>3. /\ content'[b].todo = Tail(content[b].todo)
      /\ \A f \in Field : f # "todo" => content'[b][f] = content[b][f]
      /\ \A c \in Block : c # b => content'[c] = content[c]
  BY <1>1 DEF Content, Field
<1>4. InBlock(b, "todo") \in Place /\ "todo" \in Field
  BY PlaceNames DEF Field
<1>5. WhereShape /\ WhereShape'
  BY <1>1, WhereIs, WhereIsNext
<1>6. Keeps(Whereabouts, Whereabouts', {InBlock(b, "todo")})
  <2>1. \A f \in FreeName : Outside'[f] = Outside[f]
    OBVIOUS
  <2>2. ASSUME NEW c \in Block, NEW f \in Field
        PROVE  InBlock(c, f) \in {InBlock(b, "todo")} \/ content'[c][f] = content[c][f]
    BY <1>3
  <2>3. QED BY <1>1, <2>1, <2>2, WhereKeeps
<1>7. Taken(Whereabouts, Whereabouts', InBlock(b, "todo"))
      /\ x = Head(Whereabouts[InBlock(b, "todo")])
  <2>1. /\ Whereabouts[InBlock(b, "todo")] = content[b].todo
        /\ Whereabouts'[InBlock(b, "todo")] = content'[b].todo
    BY <1>4, <1>5 DEF WhereShape
  <2>2. QED BY <1>2, <1>3, <1>6, <2>1 DEF Taken
<1>8. (Gathered /\ NotYet /\ FateInv)'
  BY <1>1, <1>2, <1>4, <1>7, DropOne DEF WhereInv
<1>9. QED BY <1>8 DEF WhereInv

\* The packet in hand goes to the resolve queue.
LEMMA WhereDefer ==
  ASSUME Whole, RingInv', NEW b \in Block, b = held["process"], content[b].todo # <<>>,
         content' = [content EXCEPT ![b].todo = Tail(@)],
         fate' = [fate EXCEPT ![Head(content[b].todo)] = "deferred"],
         resolveQueue' = Append(resolveQueue, Head(content[b].todo)),
         UNCHANGED <<driver, sent, resolver, batch, toAdapters, toMstcp, arrived>>
  PROVE  WhereInv'
<1> USE DEF Whole
<1>1. content[b] \in Content /\ content \in [Block -> Content] /\ TypeOK /\ TypeOK'
      /\ fate \in [Packet -> Fate]
  BY DEF RingInv, TypeOK
<1>2. PICK x : x = Head(content[b].todo)
  OBVIOUS
<1>3. /\ content'[b].todo = Tail(content[b].todo)
      /\ \A f \in Field : f # "todo" => content'[b][f] = content[b][f]
      /\ \A c \in Block : c # b => content'[c] = content[c]
  BY <1>1 DEF Content, Field
<1>4. /\ InBlock(b, "todo") \in Place /\ "todo" \in Field /\ "resolveQueue" \in FreeName
      /\ Free("resolveQueue") \in Place /\ InBlock(b, "todo") # Free("resolveQueue")
  BY PlaceNames DEF Field, FreeName
<1>5. WhereShape /\ WhereShape'
  BY <1>1, WhereIs, WhereIsNext
<1>6. Keeps(Whereabouts, Whereabouts', {InBlock(b, "todo"), Free("resolveQueue")})
  <2>1. \A f \in FreeName : Free(f) \in {InBlock(b, "todo"), Free("resolveQueue")}
                            \/ Outside'[f] = Outside[f]
    BY DEF FreeName, Outside
  <2>2. ASSUME NEW c \in Block, NEW f \in Field
        PROVE  \/ InBlock(c, f) \in {InBlock(b, "todo"), Free("resolveQueue")}
               \/ content'[c][f] = content[c][f]
    BY <1>3
  <2>3. QED BY <1>1, <2>1, <2>2, WhereKeeps
<1>7. Moved(Whereabouts, Whereabouts', InBlock(b, "todo"), Free("resolveQueue"))
      /\ x = Head(Whereabouts[InBlock(b, "todo")])
  <2>1. /\ Whereabouts[InBlock(b, "todo")] = content[b].todo
        /\ Whereabouts'[InBlock(b, "todo")] = content'[b].todo
        /\ Whereabouts[Free("resolveQueue")] = resolveQueue
        /\ Whereabouts'[Free("resolveQueue")] = resolveQueue'
    BY <1>4, <1>5 DEF WhereShape, Outside
  <2>2. QED BY <1>2, <1>3, <1>4, <1>6, <2>1 DEF Moved
<1>8. x \in Packet
  <2>1. content[b].todo \in Seq(Packet)
    BY <1>1 DEF Content
  <2>2. QED BY <1>2, <2>1
<1>9. /\ \A p \in Packet : p # x => fate'[p] = fate[p]
      /\ fate'[x] \in FateAt(Free("resolveQueue"))
  BY <1>1, <1>2, <1>8, FatesAt
<1>10. (Gathered /\ NotYet /\ FateInv)'
  BY <1>1, <1>2, <1>4, <1>7, <1>9, PassOn DEF WhereInv
<1>11. QED BY <1>10 DEF WhereInv

\* Nothing moves.
LEMMA WhereStays ==
  ASSUME WhereInv,
         UNCHANGED <<content, driver, resolveQueue, batch, toAdapters, toMstcp, sent, arrived, fate>>
  PROVE  WhereInv'
<1>1. Whereabouts' = Whereabouts
  BY DEF Whereabouts, Outside
<1>2. QED BY <1>1 DEF WhereInv, Gathered, Present, NotYet, FateInv, FateAt

LEMMA WhereProcess ==
  ASSUME Whole, RingInv',
         Decide("adapter") \/ Decide("mstcp") \/ CheckDepth \/ OfferCopy \/ NoBuffer \/ NotifyResolver
  PROVE  WhereInv'
<1>1. CASE Decide("adapter") \/ Decide("mstcp")
  BY <1>1, WhereDecide
<1>2. CASE NotifyResolver
  BY <1>2, WhereStays DEF Whole, NotifyResolver, driverVars
<1>3. CASE CheckDepth \/ OfferCopy \/ NoBuffer
  <2>1. PICK b : b = held["process"]
    OBVIOUS
  <2>2. b \in Block /\ content[b].todo # <<>>
    <3>1. pc["process"] \in {"work", "offer"} /\ "process" \in Worker
      BY <1>3 DEF CheckDepth, OfferCopy, NoBuffer, Worker
    <3>2. b \in Block
      BY <2>1, <3>1, TodoOfHeld DEF Whole, RingInv, HeldInv
    <3>3. QED BY <1>3, <2>1, <3>1, <3>2 DEF Whole, RingInv, HeldInv, CheckDepth, OfferCopy, NoBuffer,
                                             InHand, ToDecide
  <2>3. UNCHANGED <<driver, sent, resolver, batch, toAdapters, toMstcp, arrived>>
    BY <1>3 DEF CheckDepth, OfferCopy, NoBuffer, driverVars, resolverVars
  <2>4. \/ UNCHANGED <<content, fate, resolveQueue>>
        \/ /\ content' = [content EXCEPT ![b].todo = Tail(@)] /\ UNCHANGED resolveQueue
           /\ fate' = [fate EXCEPT ![Head(content[b].todo)] = "dropped"]
        \/ /\ content' = [content EXCEPT ![b].todo = Tail(@)]
           /\ fate' = [fate EXCEPT ![Head(content[b].todo)] = "deferred"]
           /\ resolveQueue' = Append(resolveQueue, Head(content[b].todo))
    BY <1>3, <2>1 DEF CheckDepth, OfferCopy, NoBuffer, resolverVars, InHand, ToDecide
  <2>5. CASE UNCHANGED <<content, fate, resolveQueue>>
    BY <2>3, <2>5, WhereStays DEF Whole
  <2>6. CASE /\ content' = [content EXCEPT ![b].todo = Tail(@)] /\ UNCHANGED resolveQueue
             /\ fate' = [fate EXCEPT ![Head(content[b].todo)] = "dropped"]
    <3>1. Outside' = Outside
      BY <2>3, <2>6 DEF Outside
    <3>2. QED BY <2>1, <2>2, <2>3, <2>6, <3>1, WhereDrop
  <2>7. CASE /\ content' = [content EXCEPT ![b].todo = Tail(@)]
             /\ fate' = [fate EXCEPT ![Head(content[b].todo)] = "deferred"]
             /\ resolveQueue' = Append(resolveQueue, Head(content[b].todo))
    BY <2>1, <2>2, <2>3, <2>7, WhereDefer
  <2>8. QED BY <2>4, <2>5, <2>6, <2>7
<1>4. QED BY <1>1, <1>2, <1>3

LEMMA WhereRead ==
  ASSUME Whole, RingInv', ReadPackets
  PROVE  WhereInv'
<1> USE DEF Whole
<1>1. PICK b : b = held["read"]
  OBVIOUS
<1>2. PICK n : n = IF Len(driver) < MaxPackets THEN Len(driver) ELSE MaxPackets
  OBVIOUS
<1>3. /\ pc["read"] = "fetch"
      /\ content' = [content EXCEPT ![b].todo = SubSeq(driver, 1, n)]
      /\ driver' = SubSeq(driver, n + 1, Len(driver))
      /\ UNCHANGED <<resolver, resolveQueue, batch, toAdapters, toMstcp, arrived, sent, fate>>
  BY <1>1, <1>2 DEF ReadPackets, resolverVars
<1>4. /\ b \in Block /\ content[b] \in Content /\ content \in [Block -> Content] /\ TypeOK /\ TypeOK'
      /\ content[b].todo = <<>>
  <2>1. "read" \in Worker /\ Seat("read") = 7
    BY DEF Worker, Seat
  <2>2. held["read"] # 0
    BY <1>3, <2>1 DEF RingInv, HeldInv
  <2>3. Staged(7, b) /\ b \in Block /\ content[b] \in Content
    BY <1>1, <2>1, <2>2, TodoOfHeld
  <2>4. content[b].todo = <<>>
    BY <1>3, <2>3 DEF Staged
  <2>5. QED BY <2>3, <2>4 DEF RingInv, TypeOK
<1>5. /\ content'[b].todo = SubSeq(driver, 1, n)
      /\ \A f \in Field : f # "todo" => content'[b][f] = content[b][f]
      /\ \A c \in Block : c # b => content'[c] = content[c]
  BY <1>3, <1>4 DEF Content, Field
<1>6. n \in 0 .. Len(driver)
  <2>1. Len(driver) \in Nat
    BY <1>4 DEF TypeOK
  <2>2. QED BY <1>2, <2>1, BoundsAssumption
<1>7. /\ InBlock(b, "todo") \in Place /\ "todo" \in Field /\ "driver" \in FreeName
      /\ Free("driver") \in Place /\ InBlock(b, "todo") # Free("driver")
  BY <1>4, PlaceNames DEF Field, FreeName
<1>8. WhereShape /\ WhereShape'
  BY <1>4, WhereIs, WhereIsNext
<1>9. Keeps(Whereabouts, Whereabouts', {Free("driver"), InBlock(b, "todo")})
  <2>1. \A f \in FreeName : Free(f) \in {Free("driver"), InBlock(b, "todo")}
                            \/ Outside'[f] = Outside[f]
    BY <1>3 DEF FreeName, Outside
  <2>2. ASSUME NEW c \in Block, NEW f \in Field
        PROVE  \/ InBlock(c, f) \in {Free("driver"), InBlock(b, "todo")}
               \/ content'[c][f] = content[c][f]
    BY <1>5
  <2>3. QED BY <1>4, <2>1, <2>2, WhereKeeps
<1>10. Carried(Whereabouts, Whereabouts', Free("driver"), InBlock(b, "todo"), n)
  <2>1. /\ Whereabouts[InBlock(b, "todo")] = content[b].todo
        /\ Whereabouts'[InBlock(b, "todo")] = content'[b].todo
        /\ Whereabouts[Free("driver")] = driver
        /\ Whereabouts'[Free("driver")] = driver'
    BY <1>4, <1>7, <1>8 DEF WhereShape, Outside
  <2>2. QED BY <1>3, <1>4, <1>5, <1>6, <1>7, <1>9, <2>1 DEF Carried
<1> DEFINE W == Whereabouts
           V == Whereabouts'
           p == Free("driver")
           q == InBlock(b, "todo")
<1>11. Strewn(W, Place, Packet) /\ Carried(W, V, p, q, n) /\ p \in Place /\ q \in Place
  BY <1>7, <1>8, <1>10 DEF WhereShape
<1>12. FateAt(p) \subseteq FateAt(q) /\ UNCHANGED <<arrived, fate>>
  BY <1>3, FatesAt
<1> HIDE DEF W, V, p, q
<1>13. Shifted(W, V, Place, p, q)
  BY ONLY <1>11, MoveFirst
<1>14. (Gathered /\ NotYet /\ FateInv)'
  BY <1>4, <1>11, <1>12, <1>13, CarryOn DEF WhereInv, W, V
<1>15. QED BY <1>3, <1>14 DEF WhereInv

LEMMA WhereWrite ==
  ASSUME Whole, RingInv', NEW t \in {"mstcp", "adapter"}, Write(t)
  PROVE  WhereInv'
<1> USE DEF Whole
<1>1. PICK b : b = held[t]
  OBVIOUS
<1>2. /\ pc[t] = "work"
      /\ content' = [content EXCEPT ![b][t] = <<>>]
      /\ sent' = sent \o content[b][t]
      /\ UNCHANGED <<driver, resolver, resolveQueue, batch, toAdapters, toMstcp, arrived, fate>>
  BY <1>1 DEF Write, driverVars, resolverVars
<1>3. /\ b \in Block /\ content[b] \in Content /\ content \in [Block -> Content] /\ TypeOK /\ TypeOK'
      /\ t \in Field
  <2>1. t \in Worker /\ t \in Field
    BY DEF Worker, Field
  <2>2. held[t] # 0
    BY <1>2, <2>1 DEF RingInv, HeldInv
  <2>3. b \in Block /\ content[b] \in Content
    BY <1>1, <2>1, <2>2, TodoOfHeld
  <2>4. QED BY <2>1, <2>3 DEF RingInv, TypeOK
<1>4. /\ content'[b][t] = <<>>
      /\ \A f \in Field : f # t => content'[b][f] = content[b][f]
      /\ \A c \in Block : c # b => content'[c] = content[c]
  <2>1. content'[b] = [content[b] EXCEPT ![t] = <<>>]
    BY <1>2, <1>3
  <2>2. CASE t = "mstcp"
    BY <1>2, <1>3, <2>1, <2>2 DEF Content, Field
  <2>3. CASE t = "adapter"
    BY <1>2, <1>3, <2>1, <2>3 DEF Content, Field
  <2>4. QED BY <2>2, <2>3
<1>5. /\ InBlock(b, t) \in Place /\ "sent" \in FreeName
      /\ Free("sent") \in Place /\ InBlock(b, t) # Free("sent")
  BY <1>3, PlaceNames DEF FreeName
<1>6. WhereShape /\ WhereShape'
  BY <1>3, WhereIs, WhereIsNext
<1>7. Keeps(Whereabouts, Whereabouts', {InBlock(b, t), Free("sent")})
  <2>1. \A f \in FreeName : Free(f) \in {InBlock(b, t), Free("sent")}
                            \/ Outside'[f] = Outside[f]
    BY <1>2 DEF FreeName, Outside
  <2>2. ASSUME NEW c \in Block, NEW f \in Field
        PROVE  \/ InBlock(c, f) \in {InBlock(b, t), Free("sent")}
               \/ content'[c][f] = content[c][f]
    BY <1>4
  <2>3. QED BY <1>3, <2>1, <2>2, WhereKeeps
<1>8. Poured(Whereabouts, Whereabouts', InBlock(b, t), Free("sent"))
  <2>1. /\ Whereabouts[InBlock(b, t)] = content[b][t]
        /\ Whereabouts'[InBlock(b, t)] = content'[b][t]
        /\ Whereabouts[Free("sent")] = sent
        /\ Whereabouts'[Free("sent")] = sent'
    BY <1>3, <1>5, <1>6 DEF WhereShape, Outside
  <2>2. QED BY <1>2, <1>4, <1>5, <1>7, <2>1 DEF Poured
<1> DEFINE W == Whereabouts
           V == Whereabouts'
           p == InBlock(b, t)
           q == Free("sent")
<1>9. Strewn(W, Place, Packet) /\ Poured(W, V, p, q) /\ p \in Place /\ q \in Place
  BY <1>5, <1>6, <1>8 DEF WhereShape
<1>10. FateAt(p) \subseteq FateAt(q) /\ UNCHANGED <<arrived, fate>>
  BY <1>2, FatesAt
<1> HIDE DEF W, V, p, q
<1>11. Shifted(W, V, Place, p, q)
  BY ONLY <1>9, MoveWhole
<1>12. (Gathered /\ NotYet /\ FateInv)'
  BY <1>3, <1>9, <1>10, <1>11, CarryOn DEF WhereInv, W, V
<1>13. QED BY <1>2, <1>12 DEF WhereInv

\* A step of the resolver leaves the blocks alone.
LEMMA WhereResolverDecides ==
  ASSUME Whole, RingInv', ResolverDecides
  PROVE  WhereInv'
<1> USE DEF Whole
<1>1. /\ resolver = "resolve" /\ batch # <<>> /\ batch' = Tail(batch)
      /\ UNCHANGED <<content, driver, resolver, resolveQueue, arrived, sent, fate>>
  BY DEF ResolverDecides, filterVars, driverVars
<1>2. PICK f \in {"toAdapters", "toMstcp"} :
        /\ f = "toAdapters" => toAdapters' = Append(toAdapters, Head(batch)) /\ UNCHANGED toMstcp
        /\ f = "toMstcp" => toMstcp' = Append(toMstcp, Head(batch)) /\ UNCHANGED toAdapters
  BY DEF ResolverDecides
<1>3. /\ "batch" \in FreeName /\ f \in FreeName /\ Free("batch") \in Place /\ Free(f) \in Place
      /\ Free("batch") # Free(f) /\ f # "batch"
  BY PlaceNames DEF FreeName
<1>4. TypeOK /\ TypeOK' /\ WhereShape /\ WhereShape'
  BY WhereIs, WhereIsNext DEF RingInv
<1>5. PICK x : x = Head(batch)
  OBVIOUS
<1>6. /\ Outside["batch"] = batch /\ Outside'["batch"] = Tail(batch)
      /\ Outside'[f] = Append(Outside[f], x)
      /\ \A g \in FreeName : g \notin {"batch", f} => Outside'[g] = Outside[g]
  <2>1. CASE f = "toAdapters"
    BY <1>1, <1>2, <1>5, <2>1 DEF Outside, FreeName
  <2>2. CASE f = "toMstcp"
    BY <1>1, <1>2, <1>5, <2>2 DEF Outside, FreeName
  <2>3. QED BY <2>1, <2>2
<1>7. Keeps(Whereabouts, Whereabouts', {Free("batch"), Free(f)})
  <2>1. \A g \in FreeName : Free(g) \in {Free("batch"), Free(f)} \/ Outside'[g] = Outside[g]
    BY <1>6
  <2>2. \A c \in Block, g \in Field : \/ InBlock(c, g) \in {Free("batch"), Free(f)}
                                      \/ content'[c][g] = content[c][g]
    BY <1>1
  <2>3. QED BY <1>4, <2>1, <2>2, WhereKeeps
<1>8. Moved(Whereabouts, Whereabouts', Free("batch"), Free(f)) /\ x = Head(Whereabouts[Free("batch")])
  <2>1. /\ Whereabouts[Free("batch")] = batch /\ Whereabouts'[Free("batch")] = Tail(batch)
        /\ Whereabouts[Free(f)] = Outside[f] /\ Whereabouts'[Free(f)] = Append(Outside[f], x)
    BY <1>3, <1>4, <1>6 DEF WhereShape
  <2>2. QED BY <1>1, <1>3, <1>5, <1>7, <2>1 DEF Moved
<1>9. fate'[x] \in FateAt(Free(f))
  <2>1. x \in ToSet(batch)
    BY <1>1, <1>4, <1>5, HeadAndTail DEF TypeOK
  <2>2. Whereabouts[Free("batch")] = batch
    BY <1>3, <1>4, <1>6 DEF WhereShape
  <2>3. fate[x] \in FateAt(Free("batch"))
    BY <1>3, <2>1, <2>2 DEF WhereInv, FateInv
  <2>4. QED BY <1>1, <2>3, FatesAt
<1>10. (Gathered /\ NotYet /\ FateInv)'
  BY <1>1, <1>3, <1>4, <1>8, <1>9, PassOn DEF WhereInv
<1>11. QED BY <1>1, <1>10 DEF WhereInv

LEMMA WhereResolverSwaps ==
  ASSUME Whole, RingInv', ResolverSwaps
  PROVE  WhereInv'
<1> USE DEF Whole
<1>1. /\ resolver = "loop" /\ batch' = resolveQueue /\ resolveQueue' = <<>> /\ resolver' = "resolve"
      /\ UNCHANGED <<content, driver, toAdapters, toMstcp, arrived, sent, fate>>
  BY DEF ResolverSwaps, filterVars, driverVars
<1>2. batch = <<>>
  BY <1>1 DEF ShutdownInv, IdleHoldsNothing
<1>3. /\ Free("batch") \in Place /\ Free("resolveQueue") \in Place
      /\ Free("batch") # Free("resolveQueue")
      /\ "batch" \in FreeName /\ "resolveQueue" \in FreeName
  BY PlaceNames DEF FreeName
<1>4. TypeOK /\ TypeOK' /\ WhereShape /\ WhereShape'
  BY WhereIs, WhereIsNext DEF RingInv
<1>5. Keeps(Whereabouts, Whereabouts', {Free("resolveQueue"), Free("batch")})
  <2>1. \A g \in FreeName : Free(g) \in {Free("resolveQueue"), Free("batch")}
                            \/ Outside'[g] = Outside[g]
    BY <1>1 DEF Outside, FreeName
  <2>2. \A c \in Block, g \in Field : \/ InBlock(c, g) \in {Free("resolveQueue"), Free("batch")}
                                      \/ content'[c][g] = content[c][g]
    BY <1>1
  <2>3. QED BY <1>4, <2>1, <2>2, WhereKeeps
<1>6. Poured(Whereabouts, Whereabouts', Free("resolveQueue"), Free("batch"))
  <2>1. /\ Whereabouts[Free("batch")] = batch /\ Whereabouts'[Free("batch")] = batch'
        /\ Whereabouts[Free("resolveQueue")] = resolveQueue
        /\ Whereabouts'[Free("resolveQueue")] = resolveQueue'
    BY <1>3, <1>4 DEF WhereShape, Outside
  <2>2. batch' = batch \o resolveQueue
    BY <1>1, <1>2, <1>4 DEF TypeOK
  <2>3. QED BY <1>1, <1>3, <1>5, <2>1, <2>2 DEF Poured
<1> DEFINE W == Whereabouts
           V == Whereabouts'
           p == Free("resolveQueue")
           q == Free("batch")
<1>7. Strewn(W, Place, Packet) /\ Poured(W, V, p, q) /\ p \in Place /\ q \in Place
  BY <1>3, <1>4, <1>6 DEF WhereShape
<1>8. FateAt(p) \subseteq FateAt(q) /\ UNCHANGED <<arrived, fate>>
  BY <1>1, FatesAt
<1> HIDE DEF W, V, p, q
<1>9. Shifted(W, V, Place, p, q)
  BY ONLY <1>7, MoveWhole
<1>10. (Gathered /\ NotYet /\ FateInv)'
  BY <1>4, <1>7, <1>8, <1>9, CarryOn DEF WhereInv, W, V
<1>11. QED BY <1>1, <1>10 DEF WhereInv

LEMMA WhereResolverSends ==
  ASSUME Whole, RingInv', ResolverSends
  PROVE  WhereInv'
<1> USE DEF Whole
<1>1. /\ resolver = "resolve" /\ batch = <<>> /\ sent' = sent \o toAdapters \o toMstcp
      /\ toAdapters' = <<>> /\ toMstcp' = <<>> /\ resolver' = "loop"
      /\ UNCHANGED <<content, driver, resolveQueue, batch, arrived, fate>>
  BY DEF ResolverSends, filterVars, driverVars
<1> DEFINE W == Whereabouts
           V == Whereabouts'
           p == Free("toAdapters")
           q == Free("toMstcp")
           r == Free("sent")
           U == [W EXCEPT ![p] = <<>>, ![r] = W[r] \o W[p]]
<1>2. /\ p \in Place /\ q \in Place /\ r \in Place /\ p # q /\ p # r /\ q # r
      /\ "toAdapters" \in FreeName /\ "toMstcp" \in FreeName /\ "sent" \in FreeName
  BY PlaceNames DEF FreeName
<1>3. TypeOK /\ TypeOK' /\ WhereShape /\ WhereShape'
  BY WhereIs, WhereIsNext DEF RingInv
<1>4. /\ Keeps(W, V, {p, q, r}) /\ W[p] = toAdapters /\ W[q] = toMstcp /\ W[r] = sent
      /\ V[p] = <<>> /\ V[q] = <<>> /\ V[r] = sent'
  <2>1. \A g \in FreeName : Free(g) \in {p, q, r} \/ Outside'[g] = Outside[g]
    BY <1>1 DEF Outside, FreeName
  <2>2. \A c \in Block, g \in Field : InBlock(c, g) \in {p, q, r} \/ content'[c][g] = content[c][g]
    BY <1>1
  <2>3. Keeps(W, V, {p, q, r})
    BY <1>3, <2>1, <2>2, WhereKeeps
  <2>4. /\ W[p] = toAdapters /\ W[q] = toMstcp /\ W[r] = sent
    BY <1>2, <1>3 DEF WhereShape, Outside
  <2>5. /\ V[p] = toAdapters' /\ V[q] = toMstcp' /\ V[r] = sent'
    BY <1>2, <1>3 DEF WhereShape, Outside
  <2>6. QED BY <1>1, <2>3, <2>4, <2>5
<1>5. FateAt(p) \subseteq FateAt(r) /\ FateAt(q) \subseteq FateAt(r)
  BY FatesAt
<1>6. Strewn(W, Place, Packet)
  BY <1>3 DEF WhereShape
<1>7. sent' = (W[r] \o W[p]) \o W[q]
  BY <1>1, <1>4
<1> HIDE DEF p, q, r, W, V
<1>8. Strewn(U, Place, Packet)
  <2>1. W[r] \o W[p] \in Seq(Packet) /\ <<>> \in Seq(Packet)
    BY <1>2, <1>6 DEF Strewn
  <2>2. QED BY <1>6, <2>1 DEF Strewn
<1>9. Poured(W, U, p, r)
  BY <1>2, <1>6 DEF Strewn, Poured, Keeps
<1>10. Poured(U, V, q, r)
  BY <1>2, <1>4, <1>6, <1>7 DEF Strewn, Poured, Keeps
<1> HIDE DEF U
<1>11. Shifted(W, U, Place, p, r)
  BY ONLY <1>2, <1>6, <1>9, MoveWhole
<1>12. Shifted(U, V, Place, q, r)
  BY ONLY <1>2, <1>8, <1>10, MoveWhole
<1>13. /\ Apart(W) => Apart(V)
       /\ All(V) = All(W)
       /\ \A c \in Place : \A y \in ToSet(V[c]) :
             y \in ToSet(W[c]) \/ (c = r /\ (y \in ToSet(W[p]) \/ y \in ToSet(W[q])))
  BY <1>2, <1>11, <1>12 DEF Shifted
<1>14. Gathered' /\ NotYet'
  BY <1>1, <1>13 DEF WhereInv, Gathered, NotYet, Present, W, V
<1>15. FateInv'
  <2>1. ASSUME NEW c \in Place, NEW y \in ToSet(V[c]) PROVE fate'[y] \in FateAt(c)
    <3>1. \A d \in Place : \A z \in ToSet(W[d]) : fate[z] \in FateAt(d)
      BY DEF WhereInv, FateInv, W
    <3>2. fate' = fate
      BY <1>1
    <3>3. QED BY <1>2, <1>5, <1>13, <2>1, <3>1, <3>2
  <2>2. QED BY <2>1 DEF FateInv, FateAt, V
<1>16. QED BY <1>1, <1>14, <1>15 DEF WhereInv

LEMMA WhereArrive ==
  ASSUME Whole, RingInv', Arrive
  PROVE  WhereInv'
<1> USE DEF Whole
<1>1. /\ arrived < NumPackets /\ arrived' = arrived + 1 /\ driver' = Append(driver, arrived + 1)
      /\ UNCHANGED <<content, resolver, resolveQueue, batch, toAdapters, toMstcp, sent, fate>>
  BY DEF Arrive, filterVars, resolverVars
<1> DEFINE W == Whereabouts
           V == Whereabouts'
           p == Free("driver")
<1>2. PICK x : x = arrived + 1
  OBVIOUS
<1>3. p \in Place /\ "driver" \in FreeName
  BY PlaceNames DEF FreeName
<1>4. TypeOK /\ TypeOK' /\ WhereShape /\ WhereShape' /\ arrived \in Nat
  BY WhereIs, WhereIsNext, BoundsAssumption DEF RingInv, TypeOK
<1>5. x \in Packet /\ x \notin 1 .. arrived /\ 1 .. arrived' = 1 .. arrived \cup {x}
  BY <1>1, <1>2, <1>4, BoundsAssumption DEF Packet
<1>6. Strewn(W, Place, Packet) /\ Added(W, V, p, x)
  <2>1. Keeps(W, V, {p})
    <3>1. \A g \in FreeName : Free(g) \in {p} \/ Outside'[g] = Outside[g]
      BY <1>1 DEF Outside, FreeName
    <3>2. \A c \in Block, g \in Field : InBlock(c, g) \in {p} \/ content'[c][g] = content[c][g]
      BY <1>1
    <3>3. QED BY <1>4, <3>1, <3>2, WhereKeeps
  <2>2. W[p] = driver /\ V[p] = driver'
    BY <1>3, <1>4 DEF WhereShape, Outside
  <2>3. QED BY <1>1, <1>2, <1>4, <2>1, <2>2 DEF WhereShape, Added
<1>7. Apart(W) /\ All(W) = Present /\ x \notin All(W)
  BY <1>5 DEF WhereInv, Gathered, Present
<1> HIDE DEF W, V, p
<1>8. /\ Apart(V) /\ All(V) = All(W) \cup {x}
      /\ \A c \in Place : \A y \in ToSet(V[c]) : y \in ToSet(W[c]) \/ (y = x /\ c = p)
  BY ONLY <1>3, <1>5, <1>6, <1>7, AddOne
<1>9. fate[x] = "none"
  <2>1. x > arrived
    BY <1>2, <1>4
  <2>2. QED BY <1>5, <2>1 DEF WhereInv, NotYet
<1>10. Gathered'
  <2>1. Present' = Present \cup {x}
    BY <1>1, <1>5, <1>9 DEF Present, Discarded
  <2>2. QED BY <1>7, <1>8, <2>1 DEF Gathered, V
<1>11. NotYet'
  <2>1. \A y \in Packet : y > arrived' => y > arrived
    BY <1>1, <1>4, BoundsAssumption DEF Packet
  <2>2. QED BY <1>1, <2>1 DEF WhereInv, NotYet
<1>12. FateInv'
  <2>1. ASSUME NEW c \in Place, NEW y \in ToSet(V[c]) PROVE fate'[y] \in FateAt(c)
    <3>1. CASE y \in ToSet(W[c])
      BY <1>1, <3>1 DEF WhereInv, FateInv, W
    <3>2. CASE y = x /\ c = p
      BY <1>1, <1>9, <3>2, FatesAt DEF p
    <3>3. QED BY <1>8, <2>1, <3>1, <3>2
  <2>2. QED BY <2>1 DEF FateInv, FateAt, V
<1>13. QED BY <1>1, <1>10, <1>11, <1>12 DEF WhereInv

LEMMA WhereRelease ==
  ASSUME Whole, RingInv', ReleaseFilter
  PROVE  WhereInv'
<1> USE DEF Whole
<1>1. /\ driver' = <<>> /\ fate' = Discard(ToSet(driver), "stopped")
      /\ UNCHANGED <<content, resolver, resolveQueue, batch, toAdapters, toMstcp, sent, arrived>>
  BY DEF ReleaseFilter, resolverVars
<1> DEFINE S == {Free("driver")}
<1>2. Free("driver") \in Place /\ "driver" \in FreeName
  BY PlaceNames DEF FreeName
<1>3. TypeOK /\ TypeOK' /\ WhereShape /\ WhereShape'
  BY WhereIs, WhereIsNext DEF RingInv
<1>4. Emptied(Whereabouts, Whereabouts', S)
  <2>1. Keeps(Whereabouts, Whereabouts', S)
    <3>1. \A g \in FreeName : Free(g) \in S \/ Outside'[g] = Outside[g]
      BY <1>1 DEF Outside, FreeName
    <3>2. \A c \in Block, g \in Field : InBlock(c, g) \in S \/ content'[c][g] = content[c][g]
      BY <1>1
    <3>3. QED BY <1>3, <3>1, <3>2, WhereKeeps
  <2>2. Whereabouts'[Free("driver")] = <<>>
    BY <1>1, <1>2, <1>3 DEF WhereShape, Outside
  <2>3. QED BY <2>1, <2>2 DEF Emptied
<1>5. ToSet(driver) = UNION {ToSet(Whereabouts[a]) : a \in S}
  <2>1. Whereabouts[Free("driver")] = driver
    BY <1>2, <1>3 DEF WhereShape, Outside
  <2>2. QED BY <2>1
<1>6. (Gathered /\ NotYet /\ FateInv)'
  BY <1>1, <1>2, <1>3, <1>4, <1>5, ThrowOut DEF WhereInv
<1>7. QED BY <1>1, <1>6 DEF WhereInv

LEMMA WhereJoined ==
  ASSUME Whole, RingInv', WorkersJoined
  PROVE  WhereInv'
<1> USE DEF Whole
<1>1. /\ content' = [b \in Block |-> EmptyBlock] /\ fate' = Discard(InBlocks, "stopped")
      /\ UNCHANGED <<driver, resolver, resolveQueue, batch, toAdapters, toMstcp, sent, arrived>>
  BY DEF WorkersJoined, driverVars, resolverVars
<1> DEFINE S == Block \X Field
<1>2. /\ \A b \in Block, f \in Field : InBlock(b, f) \in S /\ content'[b][f] = <<>>
      /\ \A a \in S : \E b \in Block, f \in Field : a = InBlock(b, f)
      /\ S \subseteq Place
  BY <1>1 DEF InBlock, Field, EmptyBlock, Place
<1>3. TypeOK /\ TypeOK' /\ WhereShape /\ WhereShape'
  BY WhereIs, WhereIsNext DEF RingInv
<1> HIDE DEF S
<1>4. Emptied(Whereabouts, Whereabouts', S)
  <2>1. Keeps(Whereabouts, Whereabouts', S)
    <3>1. \A g \in FreeName : Free(g) \in S \/ Outside'[g] = Outside[g]
      BY <1>1 DEF Outside, FreeName
    <3>2. \A c \in Block, g \in Field : InBlock(c, g) \in S \/ content'[c][g] = content[c][g]
      BY <1>2
    <3>3. QED BY <1>3, <3>1, <3>2, WhereKeeps
  <2>2. ASSUME NEW a \in S PROVE Whereabouts'[a] = <<>>
    <3>1. PICK b \in Block, f \in Field : a = InBlock(b, f)
      BY <1>2
    <3>2. Whereabouts'[InBlock(b, f)] = content'[b][f]
      BY <1>3 DEF WhereShape
    <3>3. QED BY <1>2, <3>1, <3>2
  <2>3. QED BY <2>1, <2>2 DEF Emptied
<1>5. InBlocks = UNION {ToSet(Whereabouts[a]) : a \in S}
  <2>1. ASSUME NEW y \in InBlocks PROVE y \in UNION {ToSet(Whereabouts[a]) : a \in S}
    <3>1. PICK b \in Block, f \in Field : y \in ToSet(content[b][f])
      BY DEF InBlocks, Field
    <3>2. Whereabouts[InBlock(b, f)] = content[b][f] /\ InBlock(b, f) \in S
      BY <1>2, <1>3 DEF WhereShape
    <3>3. QED BY <3>1, <3>2
  <2>2. ASSUME NEW a \in S, NEW y \in ToSet(Whereabouts[a]) PROVE y \in InBlocks
    <3>1. PICK b \in Block, f \in Field : a = InBlock(b, f)
      BY <1>2
    <3>2. y \in ToSet(content[b][f])
      BY <1>3, <2>2, <3>1 DEF WhereShape
    <3>3. QED BY <3>2 DEF InBlocks, Field
  <2>3. QED BY <2>1, <2>2
<1>6. (Gathered /\ NotYet /\ FateInv)'
  BY <1>1, <1>2, <1>3, <1>4, <1>5, ThrowOut DEF WhereInv
<1>7. QED BY <1>1, <1>6 DEF WhereInv

LEMMA WhereStep ==
  ASSUME Whole, RingInv', [Next]_vars
  PROVE  WhereInv'
<1> DEFINE Still == UNCHANGED <<content, driver, resolveQueue, batch, toAdapters, toMstcp, sent,
                               arrived, fate>>
<1>1. Still => WhereInv'
  BY WhereStays DEF Whole
<1>2. \A t : OwnQueue(t) => Still
  BY DEF OwnQueue, Leave, TakeBlock, FindNothing, Sleep, driverVars, resolverVars
<1>3. \A t, u : HandOn(t, u) => Still
  BY DEF HandOn, driverVars, resolverVars
<1>4. ReadThreadLocks \/ AwaitEvent => Still
  BY DEF ReadThreadLocks, AwaitEvent, driverVars, resolverVars
<1>5. StopBegins \/ Start \/ StoreExit \/ NotifyExit \/ ResolverJoined \/ UNCHANGED vars => Still
  BY DEF StopBegins, Start, StoreExit, NotifyExit, ResolverJoined, vars, filterVars, driverVars,
         resolverVars
<1>6. ResolverLeaves \/ ResolverFindsNothing \/ ResolverBlocks \/ ResolverTimesOut => Still
  BY DEF ResolverLeaves, ResolverFindsNothing, ResolverBlocks, ResolverTimesOut, filterVars,
         driverVars
<1> HIDE DEF Still
<1>7. CASE ReadThread
  BY <1>1, <1>2, <1>3, <1>4, <1>7, WhereRead DEF ReadThread
<1>8. CASE ProcessThread
  BY <1>1, <1>2, <1>3, <1>8, WhereProcess DEF ProcessThread
<1>9. CASE MstcpThread \/ AdapterThread
  BY <1>1, <1>2, <1>3, <1>9, WhereWrite DEF MstcpThread, AdapterThread
<1>10. CASE ResolverThread
  BY <1>1, <1>6, <1>10, WhereResolverDecides, WhereResolverSwaps, WhereResolverSends
     DEF ResolverThread
<1>11. CASE Stop
  BY <1>1, <1>5, <1>11, WhereRelease, WhereJoined DEF Stop
<1>12. QED BY <1>1, <1>5, <1>7, <1>8, <1>9, <1>10, <1>11, WhereArrive DEF Next

LEMMA WhereInitially == Init /\ TypeOK => WhereInv
<1> SUFFICES ASSUME Init, TypeOK PROVE WhereInv
  OBVIOUS
<1>1. ToSet(<<>>) = {} /\ IsInjective(<<>>)
  BY DEF ToSet, IsInjective
<1>2. WhereShape
  BY WhereIs
<1>3. ASSUME NEW a \in Place PROVE Whereabouts[a] = <<>>
  <2>1. ASSUME NEW f \in FreeName, a = Free(f) PROVE Whereabouts[a] = <<>>
    <3>1. Outside[f] = <<>>
      BY DEF Init, Outside, FreeName
    <3>2. QED BY <1>2, <2>1, <3>1 DEF WhereShape
  <2>2. ASSUME NEW b \in Block, NEW f \in Field, a = InBlock(b, f) PROVE Whereabouts[a] = <<>>
    <3>1. content[b][f] = <<>>
      BY DEF Init, EmptyBlock, Field
    <3>2. QED BY <1>2, <2>2, <3>1 DEF WhereShape
  <2>3. QED BY <2>1, <2>2, PlaceNames
<1>4. DOMAIN Whereabouts = Place
  BY <1>2 DEF WhereShape
<1>5. \A a \in Place : ToSet(Whereabouts[a]) = {} /\ IsInjective(Whereabouts[a])
  BY <1>1, <1>3
<1>6. Gathered
  <2>1. Apart(Whereabouts) /\ All(Whereabouts) = {}
    BY <1>4, <1>5 DEF Apart, All
  <2>2. Present = {}
    BY DEF Init, Present
  <2>3. QED BY <2>1, <2>2 DEF Gathered
<1>7. NotYet
  BY DEF Init, NotYet
<1>8. FateInv
  BY <1>5 DEF FateInv
<1>9. QED BY <1>6, <1>7, <1>8 DEF WhereInv

LEMMA GatheredSays == WhereInv /\ TypeOK => NothingLostOrDoubled
<1> SUFFICES ASSUME WhereInv, TypeOK PROVE NothingLostOrDoubled
  OBVIOUS
<1>1. DOMAIN Whereabouts = Place
  BY WhereIs DEF WhereShape
<1>2. Apart(Whereabouts) /\ All(Whereabouts) = Present
  BY DEF WhereInv, Gathered
<1>3. /\ \A a \in Place : IsInjective(Whereabouts[a])
      /\ \A a \in Place : \A p \in ToSet(Whereabouts[a]) :
           \A b \in Place \ {a} : p \notin ToSet(Whereabouts[b])
  BY <1>1, <1>2 DEF Apart
<1>4. UNION {ToSet(Whereabouts[a]) : a \in Place} = Present
  BY <1>1, <1>2 DEF All
<1>5. QED BY <1>3, <1>4 DEF NothingLostOrDoubled, Present

-----------------------------------------------------------------------------
(***************************************************************************)
(* The order of the packets.                                               *)
(***************************************************************************)
\* Sequences of numbers in increasing order.
LEMMA IncreasingTail ==
  ASSUME NEW X, NEW s, s \in Seq(X), s # <<>>, Increasing(s)
  PROVE  Increasing(Tail(s)) /\ Below({Head(s)}, ToSet(Tail(s)))
<1>1. PICK t : t = Tail(s)
  OBVIOUS
<1>2. /\ Len(s) \in Nat /\ Len(s) >= 1 /\ DOMAIN s = 1 .. Len(s) /\ Head(s) = s[1]
      /\ DOMAIN t = 1 .. Len(s) - 1
      /\ \A i \in 1 .. Len(s) - 1 : t[i] = s[i + 1]
  BY <1>1
<1>3. \A i \in DOMAIN t : i + 1 \in DOMAIN s /\ 1 < i + 1 /\ t[i] = s[i + 1] /\ i \in Int
  BY <1>2
<1>4. 1 \in DOMAIN s
  BY <1>2
<1>5. ASSUME NEW i \in DOMAIN t, NEW j \in DOMAIN t, i < j PROVE t[i] < t[j]
  <2>1. i + 1 < j + 1
    BY <1>3, <1>5
  <2>2. QED BY <1>3, <1>5, <2>1 DEF Increasing
<1>6. \A i \in DOMAIN t : s[1] < t[i]
  BY <1>3, <1>4 DEF Increasing
<1>7. QED BY <1>1, <1>2, <1>5, <1>6 DEF Increasing, Below, ToSet

LEMMA IncreasingAppend ==
  ASSUME NEW X, NEW s, NEW x, s \in Seq(X), x \in X, Increasing(s), Below(ToSet(s), {x})
  PROVE  Increasing(Append(s, x))
<1>1. PICK t : t = Append(s, x)
  OBVIOUS
<1>2. /\ Len(s) \in Nat /\ DOMAIN s = 1 .. Len(s) /\ DOMAIN t = 1 .. Len(s) + 1
      /\ t[Len(s) + 1] = x /\ \A i \in DOMAIN s : t[i] = s[i]
  BY <1>1
<1>3. ASSUME NEW i \in DOMAIN t, NEW j \in DOMAIN t, i < j PROVE t[i] < t[j]
  <2>1. i \in DOMAIN s /\ (j \in DOMAIN s \/ j = Len(s) + 1)
    BY <1>2, <1>3
  <2>2. s[i] < x
    BY <2>1 DEF Below, ToSet
  <2>3. QED BY <1>2, <1>3, <2>1, <2>2 DEF Increasing
<1>4. QED BY <1>1, <1>3 DEF Increasing

LEMMA IncreasingCut ==
  ASSUME NEW X, NEW s, NEW n, s \in Seq(X), n \in 0 .. Len(s), Increasing(s)
  PROVE  /\ Increasing(SubSeq(s, 1, n)) /\ Increasing(SubSeq(s, n + 1, Len(s)))
         /\ Below(ToSet(SubSeq(s, 1, n)), ToSet(SubSeq(s, n + 1, Len(s))))
<1>1. PICK a, b, m : a = SubSeq(s, 1, n) /\ b = SubSeq(s, n + 1, Len(s)) /\ m = Len(s)
  OBVIOUS
<1>2. /\ m \in Nat /\ n \in 0 .. m
      /\ DOMAIN a = 1 .. n /\ DOMAIN b = 1 .. m - n /\ DOMAIN s = 1 .. m
      /\ \A i \in 1 .. n : a[i] = s[i]
      /\ \A i \in 1 .. m - n : b[i] = s[n + i]
  BY <1>1
<1>3. /\ \A i \in DOMAIN a : i \in DOMAIN s /\ a[i] = s[i]
      /\ \A i \in DOMAIN b : n + i \in DOMAIN s /\ b[i] = s[n + i]
      /\ \A i, j \in DOMAIN b : i < j => n + i < n + j
      /\ \A i \in DOMAIN a, j \in DOMAIN b : i < n + j
  BY <1>2
<1>4. Increasing(a) /\ Increasing(b) /\ Below(ToSet(a), ToSet(b))
  BY <1>3 DEF Increasing, Below, ToSet
<1>5. QED BY <1>1, <1>4

\* Of packets with the same verdict those that left earlier had arrived earlier.
Sifted(s, g) ==
  \A i, j \in DOMAIN s : (i < j /\ g[s[i]] = g[s[j]] /\ g[s[i]] # "deferred") => s[i] < s[j]
SiftedBelow(s, t, g) ==
  \A x \in ToSet(s), y \in ToSet(t) : g[x] = g[y] /\ g[x] # "deferred" => x < y

LEMMA SiftedJoin ==
  ASSUME NEW X, NEW s, NEW t, NEW g, s \in Seq(X), t \in Seq(X),
         Sifted(s, g), Sifted(t, g), SiftedBelow(s, t, g)
  PROVE  Sifted(s \o t, g)
<1>1. PICK u, m, n : u = s \o t /\ m = Len(s) /\ n = Len(t)
  OBVIOUS
<1>2. /\ m \in Nat /\ n \in Nat /\ DOMAIN s = 1 .. m /\ DOMAIN t = 1 .. n /\ DOMAIN u = 1 .. m + n
      /\ \A i \in 1 .. m : u[i] = s[i]
      /\ \A i \in 1 .. n : u[m + i] = t[i]
  BY <1>1
<1>3. \A i \in DOMAIN u : \/ i \in DOMAIN s /\ u[i] = s[i]
                          \/ i - m \in DOMAIN t /\ i > m /\ u[i] = t[i - m]
  <2> SUFFICES ASSUME NEW i \in 1 .. m + n
               PROVE \/ i \in 1 .. m /\ u[i] = s[i]
                     \/ i - m \in 1 .. n /\ i > m /\ u[i] = t[i - m]
    BY <1>2
  <2>1. CASE i \in 1 .. m
    BY <1>2, <2>1
  <2>2. CASE i \notin 1 .. m
    <3>1. i - m \in 1 .. n /\ i > m /\ m + (i - m) = i
      BY <1>2, <2>2
    <3>2. u[m + (i - m)] = t[i - m]
      BY <1>2, <3>1
    <3>3. QED BY <3>1, <3>2
  <2>3. QED BY <2>1, <2>2
<1>4. ASSUME NEW i \in DOMAIN u, NEW j \in DOMAIN u, i < j, g[u[i]] = g[u[j]], g[u[i]] # "deferred"
      PROVE  u[i] < u[j]
  <2>1. CASE i \in DOMAIN s /\ j \in DOMAIN s
    BY <1>2, <1>4, <2>1 DEF Sifted
  <2>2. CASE i \in DOMAIN s /\ j \notin DOMAIN s
    <3>1. u[i] = s[i] /\ u[j] = t[j - m] /\ j - m \in DOMAIN t
      BY <1>2, <1>3, <2>2
    <3>2. u[i] \in ToSet(s) /\ u[j] \in ToSet(t)
      BY <2>2, <3>1 DEF ToSet
    <3>3. QED BY <1>4, <3>2 DEF SiftedBelow
  <2>3. CASE i \notin DOMAIN s
    <3>1. i > m /\ j \notin DOMAIN s /\ i - m < j - m
      BY <1>2, <1>4, <2>3
    <3>2. u[i] = t[i - m] /\ i - m \in DOMAIN t /\ u[j] = t[j - m] /\ j - m \in DOMAIN t
      BY <1>3, <2>3, <3>1
    <3>3. QED BY <1>4, <3>1, <3>2 DEF Sifted
  <2>4. QED BY <2>1, <2>2, <2>3
<1>5. QED BY <1>1, <1>4 DEF Sifted

\* Which of two blocks is earlier in the ring.
Earlier(W, b, c) ==
  \/ \E k, l \in DOMAIN W : k < l /\ b \in ToSet(W[k]) /\ c \in ToSet(W[l])
  \/ \E k \in DOMAIN W : \E i, j \in DOMAIN W[k] : i < j /\ W[k][i] = b /\ W[k][j] = c

\* Two blocks at one place of the ring, one before the other.
Before(s, b, c) == \E i, j \in DOMAIN s : i < j /\ s[i] = b /\ s[j] = c

LEMMA BeforeTail ==
  ASSUME NEW X, NEW s, NEW b, NEW c, s \in Seq(X), s # <<>>, Before(Tail(s), b, c)
  PROVE  Before(s, b, c)
<1>1. PICK t : t = Tail(s)
  OBVIOUS
<1>2. \A i \in DOMAIN t : i + 1 \in DOMAIN s /\ t[i] = s[i + 1] /\ i \in Int
  BY <1>1
<1>3. PICK i \in DOMAIN t, j \in DOMAIN t : i < j /\ t[i] = b /\ t[j] = c
  BY <1>1 DEF Before
<1>4. i + 1 < j + 1
  BY <1>2, <1>3
<1>5. QED BY <1>2, <1>3, <1>4 DEF Before

LEMMA BeforeHead ==
  ASSUME NEW X, NEW s, NEW c, s \in Seq(X), s # <<>>, c \in ToSet(Tail(s))
  PROVE  Before(s, Head(s), c)
<1>1. PICK t : t = Tail(s)
  OBVIOUS
<1>2. \A i \in DOMAIN t : i + 1 \in DOMAIN s /\ t[i] = s[i + 1] /\ 1 < i + 1
  BY <1>1
<1>3. Head(s) = s[1] /\ 1 \in DOMAIN s
  OBVIOUS
<1>4. PICK i \in DOMAIN t : t[i] = c
  BY <1>1 DEF ToSet
<1>5. QED BY <1>2, <1>3, <1>4 DEF Before

LEMMA BeforeAppend ==
  ASSUME NEW X, NEW s, NEW x, NEW b, NEW c, s \in Seq(X), x \in X, Before(Append(s, x), b, c)
  PROVE  Before(s, b, c) \/ (c = x /\ b \in ToSet(s))
<1>1. PICK t : t = Append(s, x)
  OBVIOUS
<1>2. /\ Len(s) \in Nat /\ DOMAIN s = 1 .. Len(s) /\ DOMAIN t = 1 .. Len(s) + 1
      /\ t[Len(s) + 1] = x /\ \A i \in DOMAIN s : t[i] = s[i]
  BY <1>1
<1>3. PICK i \in DOMAIN t, j \in DOMAIN t : i < j /\ t[i] = b /\ t[j] = c
  BY <1>1 DEF Before
<1>4. i \in DOMAIN s /\ s[i] = b
  BY <1>2, <1>3
<1>5. j \in DOMAIN s \/ j = Len(s) + 1
  BY <1>2
<1>6. QED BY <1>2, <1>3, <1>4, <1>5 DEF Before, ToSet

LEMMA EarlierIs ==
  ASSUME NEW W, NEW b, NEW c
  PROVE  Earlier(W, b, c) <=>
           \/ \E k, l \in DOMAIN W : k < l /\ b \in ToSet(W[k]) /\ c \in ToSet(W[l])
           \/ \E k \in DOMAIN W : Before(W[k], b, c)
BY DEF Earlier, Before

\* A block that moves to the end of the place before its own gets ahead of none; one that
\* goes from the front to the back gets behind all.
LEMMA EarlierMoved ==
  ASSUME NEW X, NEW W, NEW V, NEW a, NEW e, NEW b, NEW c, Strewn(W, 1 .. 8, X),
         a \in 1 .. 8, e \in 1 .. 8, Moved(W, V, a, e), a = e + 1 \/ (a = 1 /\ e = 8),
         Earlier(V, b, c)
  PROVE  Earlier(W, b, c) \/ (e = 8 /\ c = Head(W[a]))
<1>1. PICK x : x = Head(W[a])
  OBVIOUS
<1>2. /\ DOMAIN W = 1 .. 8 /\ DOMAIN V = 1 .. 8 /\ W[a] \in Seq(X) /\ W[e] \in Seq(X)
      /\ W[a] # <<>> /\ V[a] = Tail(W[a]) /\ V[e] = Append(W[e], x) /\ a # e
      /\ \A k \in 1 .. 8 : k # a /\ k # e => V[k] = W[k]
  BY <1>1 DEF Strewn, Moved, Keeps
<1>3. /\ x \in X /\ x \in ToSet(W[a])
      /\ ToSet(W[a]) = {x} \cup ToSet(V[a])
      /\ ToSet(V[e]) = ToSet(W[e]) \cup {x}
  BY <1>1, <1>2, HeadAndTail, Appended
<1>4. \A k \in 1 .. 8 : \A y \in ToSet(V[k]) : y \in ToSet(W[k]) \/ (y = x /\ k = e)
  BY <1>2, <1>3
<1>5. ASSUME NEW k \in 1 .. 8, NEW l \in 1 .. 8, k < l, b \in ToSet(V[k]), c \in ToSet(V[l])
      PROVE  Earlier(W, b, c) \/ (e = 8 /\ c = x)
  <2>1. CASE b \in ToSet(W[k]) /\ c \in ToSet(W[l])
    BY <1>2, <1>5, <2>1 DEF Earlier
  <2>2. CASE b \in ToSet(W[k]) /\ c = x /\ l = e
    <3>1. CASE e = 8
      BY <2>2, <3>1
    <3>2. CASE a = e + 1
      <4>1. k < a
        BY <1>5, <2>2, <3>2
      <4>2. QED BY <1>2, <1>3, <2>2, <4>1 DEF Earlier
    <3>3. QED BY <3>1, <3>2
  <2>3. CASE b = x /\ k = e
    <3>1. a = e + 1 /\ (l = a \/ a < l)
      BY <1>5, <2>3
    <3>2. l # e
      BY <1>5, <2>3
    <3>3. CASE l = a
      <4>1. Before(W[a], x, c)
        BY <1>1, <1>2, <1>5, <3>3, BeforeHead
      <4>2. QED BY <1>2, <2>3, <4>1, EarlierIs
    <3>4. CASE a < l
      <4>1. c \in ToSet(W[l])
        BY <1>4, <1>5, <3>2
      <4>2. QED BY <1>2, <1>3, <2>3, <3>4, <4>1 DEF Earlier
    <3>5. QED BY <3>1, <3>3, <3>4
  <2>4. QED BY <1>4, <1>5, <2>1, <2>2, <2>3
<1>6. ASSUME NEW k \in 1 .. 8, Before(V[k], b, c)
      PROVE  Earlier(W, b, c) \/ (e = 8 /\ c = x)
  <2>1. CASE k # a /\ k # e
    BY <1>2, <1>6, <2>1, EarlierIs
  <2>2. CASE k = a
    <3>1. Before(W[a], b, c)
      BY <1>2, <1>6, <2>2, BeforeTail
    <3>2. QED BY <1>2, <3>1, EarlierIs
  <2>3. CASE k = e
    <3>1. Before(W[e], b, c) \/ (c = x /\ b \in ToSet(W[e]))
      <4>1. W[e] \in Seq(X) /\ x \in X /\ Before(Append(W[e], x), b, c)
        BY <1>2, <1>3, <1>6, <2>3
      <4>2. QED BY ONLY <4>1, BeforeAppend
    <3>2. CASE Before(W[e], b, c)
      BY <1>2, <3>2, EarlierIs
    <3>3. CASE c = x /\ b \in ToSet(W[e])
      <4>1. CASE e = 8
        BY <3>3, <4>1
      <4>2. CASE a = e + 1
        <5>1. e < a
          BY <4>2
        <5>2. QED BY <1>2, <1>3, <3>3, <5>1 DEF Earlier
      <4>3. QED BY <4>1, <4>2
    <3>4. QED BY <3>1, <3>2, <3>3
  <2>4. QED BY <2>1, <2>2, <2>3
<1>7. QED BY <1>1, <1>2, <1>5, <1>6, EarlierIs

BlockInOrder(b) ==
  /\ Increasing(content[b].todo) /\ Increasing(content[b].mstcp) /\ Increasing(content[b].adapter)
  /\ Below(ToSet(content[b].mstcp) \cup ToSet(content[b].adapter), ToSet(content[b].todo))
  /\ Below(Packets(b), ToSet(driver))
BlocksInOrder ==
  \A b, c \in Block : Earlier(Line, b, c) => Below(Packets(b), Packets(c))
SentFirst ==
  \A p \in ToSet(sent), v \in {"mstcp", "adapter"} : fate[p] = v =>
    /\ Below({p}, ToSet(driver))
    /\ \A b \in Block : Below({p}, ToSet(content[b][v]) \cup ToSet(content[b].todo))
SortInv ==
  /\ Increasing(driver)
  /\ \A b \in Block : BlockInOrder(b)
  /\ BlocksInOrder
  /\ SentFirst
  /\ Sifted(sent, fate)

LEMMA SortInitially == Init => SortInv
<1> SUFFICES ASSUME Init PROVE SortInv
  OBVIOUS
<1>1. ToSet(<<>>) = {} /\ Increasing(<<>>)
  BY DEF ToSet, Increasing
<1>2. driver = <<>> /\ sent = <<>>
      /\ \A b \in Block : content[b].todo = <<>> /\ content[b].mstcp = <<>> /\ content[b].adapter = <<>>
  BY DEF Init, EmptyBlock
<1>3. \A b \in Block : Packets(b) = {}
  BY <1>1, <1>2 DEF Packets
<1>4. \A b \in Block : BlockInOrder(b)
  BY <1>1, <1>2, <1>3 DEF BlockInOrder, Below
<1>5. BlocksInOrder
  BY <1>3 DEF BlocksInOrder, Below
<1>6. SentFirst
  BY <1>1, <1>2 DEF SentFirst
<1>7. Sifted(sent, fate)
  BY <1>2 DEF Sifted
<1>8. QED BY <1>1, <1>2, <1>4, <1>5, <1>6, <1>7 DEF SortInv

\* Packets that are thrown out were not sent.
LEMMA SentKeepFates ==
  ASSUME Whole, NEW p \in ToSet(sent)
  PROVE  /\ p \in Packet /\ p \notin ToSet(driver)
         /\ \A b \in Block, f \in Field : p \notin ToSet(content[b][f])
<1>1. TypeOK /\ WhereShape /\ DOMAIN Whereabouts = Place
  BY WhereIs DEF Whole, RingInv, WhereShape
<1>2. /\ Free("sent") \in Place /\ Free("driver") \in Place /\ Free("sent") # Free("driver")
      /\ Whereabouts[Free("sent")] = sent /\ Whereabouts[Free("driver")] = driver
  BY <1>1, PlaceNames DEF WhereShape, FreeName, Outside
<1>3. Apart(Whereabouts)
  BY DEF Whole, WhereInv, Gathered
<1>4. p \notin ToSet(driver)
  BY <1>1, <1>2, <1>3 DEF Apart
<1>5. ASSUME NEW b \in Block, NEW f \in Field PROVE p \notin ToSet(content[b][f])
  <2>1. /\ InBlock(b, f) \in Place /\ InBlock(b, f) # Free("sent")
        /\ Whereabouts[InBlock(b, f)] = content[b][f]
    BY <1>1, PlaceNames DEF WhereShape, FreeName
  <2>2. QED BY <1>1, <1>2, <1>3, <2>1 DEF Apart
<1>6. p \in Packet
  BY <1>1, <1>2, Arrived DEF Whole, WhereInv
<1>7. QED BY <1>4, <1>5, <1>6

\* Packets leave a block, or the driver, from the front or altogether; blocks move on, or
\* change places when they are empty.
Fewer(b) ==
  /\ ToSet(content'[b].todo) \subseteq ToSet(content[b].todo)
  /\ ToSet(content'[b].mstcp) \subseteq ToSet(content[b].mstcp)
  /\ ToSet(content'[b].adapter) \subseteq ToSet(content[b].adapter)
  /\ Increasing(content'[b].todo) /\ Increasing(content'[b].mstcp)
  /\ Increasing(content'[b].adapter)
NotAhead(b, c) ==
  Earlier(Line', b, c) => Earlier(Line, b, c) \/ Packets(b)' = {} \/ Packets(c)' = {}

LEMMA BlocksLess ==
  ASSUME SortInv, ToSet(driver') \subseteq ToSet(driver),
         \A b \in Block : Fewer(b), \A b, c \in Block : NotAhead(b, c)
  PROVE  (\A b \in Block : BlockInOrder(b)') /\ BlocksInOrder'
<1>1. \A b \in Block : Packets(b)' \subseteq Packets(b)
  BY DEF Packets, Fewer
<1>2. \A b \in Block : BlockInOrder(b)'
  BY <1>1 DEF SortInv, BlockInOrder, Below, Fewer
<1>3. BlocksInOrder'
  <2> SUFFICES ASSUME NEW b \in Block, NEW c \in Block, Earlier(Line', b, c)
               PROVE  Below(Packets(b)', Packets(c)')
    BY DEF BlocksInOrder
  <2>1. CASE Packets(b)' = {} \/ Packets(c)' = {}
    BY <2>1 DEF Below
  <2>2. CASE Earlier(Line, b, c)
    BY <1>1, <2>2 DEF SortInv, BlocksInOrder, Below
  <2>3. QED BY <2>1, <2>2 DEF NotAhead
<1>4. QED BY <1>2, <1>3

LEMMA SortLess ==
  ASSUME SortInv, UNCHANGED sent, \A p \in ToSet(sent) : fate'[p] = fate[p],
         ToSet(driver') \subseteq ToSet(driver), Increasing(driver'),
         \A b \in Block : Fewer(b), \A b, c \in Block : NotAhead(b, c)
  PROVE  SortInv'
<1>1. SentFirst'
  <2> SUFFICES ASSUME NEW p \in ToSet(sent), NEW v \in {"mstcp", "adapter"}, fate[p] = v
               PROVE  /\ Below({p}, ToSet(driver'))
                      /\ \A b \in Block : Below({p}, ToSet(content'[b][v]) \cup ToSet(content'[b].todo))
    BY DEF SentFirst
  <2>1. /\ Below({p}, ToSet(driver))
        /\ \A b \in Block : Below({p}, ToSet(content[b][v]) \cup ToSet(content[b].todo))
    BY DEF SortInv, SentFirst
  <2>2. \A b \in Block : ToSet(content'[b][v]) \subseteq ToSet(content[b][v])
    BY DEF Fewer
  <2>3. \A b \in Block : ToSet(content'[b].todo) \subseteq ToSet(content[b].todo)
    BY DEF Fewer
  <2>4. QED BY <2>1, <2>2, <2>3 DEF Below
<1>2. Sifted(sent, fate)'
  <2>1. \A i \in DOMAIN sent : sent[i] \in ToSet(sent)
    BY DEF ToSet
  <2>2. QED BY <2>1 DEF SortInv, Sifted
<1>3. QED BY <1>1, <1>2, BlocksLess DEF SortInv

\* Blocks move on, and what they hold does not change.
LEMMA SortMoves ==
  ASSUME SortInv, UNCHANGED <<content, driver, sent, fate>>, \A b, c \in Block : NotAhead(b, c)
  PROVE  SortInv'
BY SortLess DEF SortInv, Fewer, BlockInOrder

LEMMA SortStays ==
  ASSUME SortInv, UNCHANGED <<content, driver, sent, fate, queue, held>>
  PROVE  SortInv'
<1>1. Line' = Line
  BY DEF Line, Grip
<1>2. QED BY <1>1, SortMoves DEF NotAhead

LEMMA SortQueue ==
  ASSUME RingInv, SortInv, NEW t \in Worker, OwnQueue(t)
  PROVE  SortInv'
<1>1. UNCHANGED <<content, driver, sent, fate>>
  BY DEF OwnQueue, Leave, TakeBlock, FindNothing, Sleep, driverVars
<1>2. CASE Leave(t) \/ FindNothing(t) \/ Sleep(t)
  BY <1>1, <1>2, SortStays DEF Leave, FindNothing, Sleep
<1>3. CASE TakeBlock(t)
  <2>1. Moved(Line, Line', Seat(t) + 1, Seat(t)) /\ Strewn(Line, 1 .. 8, Block)
        /\ Seat(t) \in 1 .. 8 /\ Seat(t) + 1 \in 1 .. 8 /\ Seat(t) # 8
    BY <1>3, TakeMoves, LineIs, Seats DEF RingInv, Strewn
  <2>2. PICK W, V, a, e : W = Line /\ V = Line' /\ a = Seat(t) + 1 /\ e = Seat(t)
    OBVIOUS
  <2>3. /\ Moved(W, V, a, e) /\ Strewn(W, 1 .. 8, Block) /\ a \in 1 .. 8 /\ e \in 1 .. 8
        /\ a = e + 1 /\ e # 8
    BY <2>1, <2>2
  <2>4. \A b, c : Earlier(V, b, c) => Earlier(W, b, c)
    BY ONLY <2>3, EarlierMoved
  <2>5. QED BY <1>1, <2>2, <2>4, SortMoves DEF NotAhead
<1>4. QED BY <1>2, <1>3 DEF OwnQueue

LEMMA SortHandOn ==
  ASSUME RingInv, SortInv, NEW t \in Worker, NEW u \in Worker, <<t, u>> \in Neighbours, HandOn(t, u)
  PROVE  SortInv'
<1>1. UNCHANGED <<content, driver, sent, fate>>
  BY DEF HandOn, driverVars
<1>2. PICK W, V, a, e, x : W = Line /\ V = Line' /\ a = Seat(t) /\ e = Seat(u) + 1 /\ x = held[t]
  OBVIOUS
<1>3. Moved(Line, Line', Seat(t), Seat(u) + 1) /\ held[t] # 0
  BY HandOnMoves
<1>4. Line[Seat(t)] = <<held[t]>> /\ Staged(Seat(t), held[t]) /\ held[t] \in Block
  BY <1>3, HeldOnce, TodoOfHeld
<1>5. /\ Moved(W, V, a, e) /\ Strewn(W, 1 .. 8, Block) /\ a \in 1 .. 8 /\ e \in 1 .. 8
  BY <1>2, <1>3, LineIs, Seats DEF RingInv, Strewn
<1>6. a = e + 1 \/ (a = 1 /\ e = 8 /\ t = "adapter")
  BY <1>2 DEF Neighbours, Seat
<1>7. Head(W[a]) = x
  BY <1>2, <1>4
<1>8. e = 8 => Packets(x)' = {}
  <2>1. CASE t = "adapter"
    <3>1. Seat(t) = 1 /\ content[x].adapter = <<>>
      BY <1>2, <2>1 DEF Seat, HandOn, BlockDone
    <3>2. content[x].todo = <<>> /\ content[x].mstcp = <<>>
      BY <1>2, <1>4, <3>1 DEF Staged
    <3>3. Packets(x)' = {}
      BY <1>1, <3>1, <3>2 DEF Packets, ToSet
    <3>4. QED BY <3>3
  <2>2. CASE t # "adapter"
    <3>1. e # 8
      BY <1>2, <2>2 DEF Neighbours, Seat
    <3>2. QED BY <3>1
  <2>3. QED BY <2>1, <2>2
<1>9. \A b, c : Earlier(V, b, c) => Earlier(W, b, c) \/ (e = 8 /\ c = Head(W[a]))
  BY ONLY <1>5, <1>6, EarlierMoved
<1>10. QED BY <1>1, <1>2, <1>7, <1>8, <1>9, SortMoves DEF NotAhead

LEMMA PacketsAreNumbers == \A p \in Packet : p \in Int
  BY BoundsAssumption DEF Packet

\* The packet in hand gets a verdict.
LEMMA SortDecide ==
  ASSUME Whole, SortInv, NEW v \in {"adapter", "mstcp"}, Decide(v)
  PROVE  SortInv'
<1>1. PICK b, x : b = held["process"] /\ x = Head(content[b].todo)
  OBVIOUS
<1>2. /\ pc["process"] = "work" /\ content[b].todo # <<>>
      /\ content' = [content EXCEPT ![b].todo = Tail(@), ![b][v] = Append(@, Head(content[b].todo))]
      /\ fate' = [fate EXCEPT ![x] = v] /\ UNCHANGED <<driver, sent, queue, held>>
  BY <1>1 DEF Decide, InHand, ToDecide, driverVars
<1>3. b \in Block /\ content \in [Block -> Content] /\ content[b] \in Content /\ fate \in [Packet -> Fate]
      /\ content[b].todo \in Seq(Packet) /\ content[b][v] \in Seq(Packet)
  <2>1. held["process"] # 0 /\ "process" \in Worker
    BY <1>2 DEF Whole, RingInv, HeldInv, Worker
  <2>2. QED BY <1>1, <2>1, TodoOfHeld DEF Whole, RingInv, TypeOK
<1>4. /\ content'[b].todo = Tail(content[b].todo) /\ content'[b][v] = Append(content[b][v], x)
      /\ \A f \in Field : f \notin {"todo", v} => content'[b][f] = content[b][f]
      /\ \A c \in Block : c # b => content'[c] = content[c]
  <2>1. CASE v = "adapter"
    BY <1>1, <1>2, <1>3, <2>1 DEF Content, Field
  <2>2. CASE v = "mstcp"
    BY <1>1, <1>2, <1>3, <2>2 DEF Content, Field
  <2>3. QED BY <2>1, <2>2
<1>5. /\ x \in Packet /\ ToSet(content[b].todo) = {x} \cup ToSet(content'[b].todo)
      /\ x \in ToSet(content[b].todo)
  BY <1>1, <1>2, <1>3, <1>4, HeadAndTail
<1>6. ToSet(content'[b][v]) = ToSet(content[b][v]) \cup {x}
  <2>1. ToSet(Append(content[b][v], x)) = ToSet(content[b][v]) \cup {x}
    BY <1>3, <1>5, Appended
  <2>2. QED BY <1>4, <2>1
<1>7. BlockInOrder(b)
  BY <1>3 DEF SortInv
<1>8. Increasing(content'[b].todo) /\ Below({x}, ToSet(content'[b].todo))
  <2>1. content[b].todo \in Seq(Packet) /\ content[b].todo # <<>> /\ Increasing(content[b].todo)
    BY <1>2, <1>3, <1>7 DEF BlockInOrder
  <2>2. /\ Increasing(Tail(content[b].todo))
        /\ Below({Head(content[b].todo)}, ToSet(Tail(content[b].todo)))
    BY ONLY <2>1, IncreasingTail
  <2>3. QED BY <1>1, <1>4, <2>2
<1>9. Increasing(content'[b][v])
  <2>1. Below(ToSet(content[b][v]), {x}) /\ Increasing(content[b][v])
    BY <1>5, <1>7 DEF BlockInOrder, Below
  <2>2. Increasing(Append(content[b][v], x))
    BY <1>3, <1>5, <2>1, IncreasingAppend
  <2>3. QED BY <1>4, <2>2
<1>10. \A c \in Block : Packets(c)' = Packets(c)
  <2>1. Packets(b)' = Packets(b)
    <3>1. CASE v = "adapter"
      <4>1. content'[b].mstcp = content[b].mstcp
        BY <1>4, <3>1 DEF Field
      <4>2. QED BY <1>5, <1>6, <3>1, <4>1 DEF Packets
    <3>2. CASE v = "mstcp"
      <4>1. content'[b].adapter = content[b].adapter
        BY <1>4, <3>2 DEF Field
      <4>2. QED BY <1>5, <1>6, <3>2, <4>1 DEF Packets
    <3>3. QED BY <3>1, <3>2
  <2>2. QED BY <1>4, <2>1 DEF Packets
<1>11. BlockInOrder(b)'
  <2>1. Below(ToSet(content[b].mstcp) \cup ToSet(content[b].adapter) \cup {x}, ToSet(content'[b].todo))
    BY <1>5, <1>7, <1>8 DEF BlockInOrder, Below
  <2>2. CASE v = "adapter"
    <3>1. content'[b].mstcp = content[b].mstcp
      BY <1>4, <2>2 DEF Field
    <3>2. Below(ToSet(content'[b].mstcp) \cup ToSet(content'[b].adapter), ToSet(content'[b].todo))
      BY <1>6, <2>1, <2>2, <3>1 DEF Below
    <3>3. QED BY <1>2, <1>3, <1>7, <1>8, <1>9, <1>10, <2>2, <3>1, <3>2 DEF BlockInOrder
  <2>3. CASE v = "mstcp"
    <3>1. content'[b].adapter = content[b].adapter
      BY <1>4, <2>3 DEF Field
    <3>2. Below(ToSet(content'[b].mstcp) \cup ToSet(content'[b].adapter), ToSet(content'[b].todo))
      BY <1>6, <2>1, <2>3, <3>1 DEF Below
    <3>3. QED BY <1>2, <1>3, <1>7, <1>8, <1>9, <1>10, <2>3, <3>1, <3>2 DEF BlockInOrder
  <2>4. QED BY <2>2, <2>3
<1>12. \A c \in Block : BlockInOrder(c)'
  <2>1. \A c \in Block : c # b => BlockInOrder(c)'
    BY <1>2, <1>4, <1>10 DEF SortInv, BlockInOrder
  <2>2. QED BY <1>11, <2>1
<1>13. BlocksInOrder'
  <2>1. Line' = Line
    BY <1>2 DEF Line, Grip
  <2>2. QED BY <1>10, <2>1 DEF SortInv, BlocksInOrder
<1>14. \A p \in ToSet(sent) : p # x /\ fate'[p] = fate[p]
  <2>1. "todo" \in Field
    BY DEF Field
  <2>2. QED BY <1>2, <1>3, <1>5, <2>1, SentKeepFates
<1>15. SentFirst'
  <2> SUFFICES ASSUME NEW p \in ToSet(sent), NEW u \in {"mstcp", "adapter"}, fate[p] = u
               PROVE  /\ Below({p}, ToSet(driver))
                      /\ \A c \in Block : Below({p}, ToSet(content'[c][u]) \cup ToSet(content'[c].todo))
    BY <1>2, <1>14 DEF SentFirst
  <2>1. /\ Below({p}, ToSet(driver))
        /\ \A c \in Block : Below({p}, ToSet(content[c][u]) \cup ToSet(content[c].todo))
    BY DEF SortInv, SentFirst
  <2>2. ToSet(content'[b][u]) \subseteq ToSet(content[b][u]) \cup {x}
    BY <1>4, <1>6 DEF Field
  <2>3. Below({p}, ToSet(content'[b][u]) \cup ToSet(content'[b].todo))
    BY <1>3, <1>5, <2>1, <2>2 DEF Below
  <2>4. QED BY <1>4, <2>1, <2>3
<1>16. Sifted(sent, fate)'
  <2>1. \A i \in DOMAIN sent : sent[i] \in ToSet(sent)
    BY DEF ToSet
  <2>2. QED BY <1>2, <1>14, <2>1 DEF SortInv, Sifted
<1>17. QED BY <1>2, <1>12, <1>13, <1>15, <1>16 DEF SortInv

\* The packet in hand leaves its block without a verdict.
LEMMA SortGone ==
  ASSUME Whole, SortInv, NEW b \in Block, content[b].todo # <<>>,
         content' = [content EXCEPT ![b].todo = Tail(@)], UNCHANGED <<driver, sent, queue, held>>,
         NEW f, fate' = [fate EXCEPT ![Head(content[b].todo)] = f]
  PROVE  SortInv'
<1>1. content \in [Block -> Content] /\ content[b] \in Content /\ fate \in [Packet -> Fate]
      /\ content[b].todo \in Seq(Packet)
  BY DEF Whole, RingInv, TypeOK, Content
<1>2. /\ content'[b].todo = Tail(content[b].todo)
      /\ content'[b].mstcp = content[b].mstcp /\ content'[b].adapter = content[b].adapter
      /\ \A c \in Block : c # b => content'[c] = content[c]
  BY <1>1 DEF Content
<1>3. /\ Head(content[b].todo) \in ToSet(content[b].todo)
      /\ ToSet(content'[b].todo) \subseteq ToSet(content[b].todo)
  BY <1>1, <1>2, HeadAndTail
<1>4. BlockInOrder(b)
  BY DEF SortInv
<1>5. Increasing(content'[b].todo)
  <2>1. content[b].todo \in Seq(Packet) /\ content[b].todo # <<>> /\ Increasing(content[b].todo)
    BY <1>1, <1>4 DEF BlockInOrder
  <2>2. Increasing(Tail(content[b].todo))
    BY ONLY <2>1, IncreasingTail
  <2>3. QED BY <1>2, <2>2
<1>6. \A c \in Block : Fewer(c)
  <2>1. Fewer(b)
    BY <1>2, <1>3, <1>4, <1>5 DEF Fewer, BlockInOrder
  <2>2. \A c \in Block : c # b => Fewer(c)
    BY <1>2 DEF Fewer, SortInv, BlockInOrder
  <2>3. QED BY <2>1, <2>2
<1>7. \A p \in ToSet(sent) : fate'[p] = fate[p]
  <2>1. "todo" \in Field
    BY DEF Field
  <2>2. QED BY <1>1, <1>3, <2>1, SentKeepFates
<1>8. Line' = Line
  BY DEF Line, Grip
<1>9. QED BY <1>6, <1>7, <1>8, SortLess DEF SortInv, NotAhead

LEMMA SortProcess ==
  ASSUME Whole, SortInv,
         Decide("adapter") \/ Decide("mstcp") \/ CheckDepth \/ OfferCopy \/ NoBuffer \/ NotifyResolver
  PROVE  SortInv'
<1>1. CASE Decide("adapter") \/ Decide("mstcp")
  BY <1>1, SortDecide
<1>2. CASE NotifyResolver
  BY <1>2, SortStays DEF NotifyResolver, driverVars
<1>3. CASE CheckDepth \/ OfferCopy \/ NoBuffer
  <2>1. PICK b : b = held["process"]
    OBVIOUS
  <2>2. b \in Block /\ content[b].todo # <<>>
    <3>1. pc["process"] \in {"work", "offer"} /\ "process" \in Worker
      BY <1>3 DEF CheckDepth, OfferCopy, NoBuffer, Worker
    <3>2. b \in Block
      BY <2>1, <3>1, TodoOfHeld DEF Whole, RingInv, HeldInv
    <3>3. QED BY <1>3, <2>1, <3>1, <3>2 DEF Whole, RingInv, HeldInv, CheckDepth, OfferCopy, NoBuffer,
                                             InHand, ToDecide
  <2>3. UNCHANGED <<driver, sent, queue, held>>
    BY <1>3 DEF CheckDepth, OfferCopy, NoBuffer, driverVars
  <2>4. \/ UNCHANGED <<content, fate>>
        \/ /\ content' = [content EXCEPT ![b].todo = Tail(@)]
           /\ \E f : fate' = [fate EXCEPT ![Head(content[b].todo)] = f]
    BY <1>3, <2>1 DEF CheckDepth, OfferCopy, NoBuffer, InHand, ToDecide
  <2>5. CASE UNCHANGED <<content, fate>>
    BY <2>3, <2>5, SortStays
  <2>6. CASE content' = [content EXCEPT ![b].todo = Tail(@)]
             /\ \E f : fate' = [fate EXCEPT ![Head(content[b].todo)] = f]
    BY <2>2, <2>3, <2>6, SortGone
  <2>7. QED BY <2>4, <2>5, <2>6
<1>4. QED BY <1>1, <1>2, <1>3

\* A read takes the first packets of the driver, and the block it fills is the last that
\* is not empty.
LEMMA SortRead ==
  ASSUME Whole, SortInv, ReadPackets
  PROVE  SortInv'
<1>1. PICK b, n : b = held["read"] /\ n = IF Len(driver) < MaxPackets THEN Len(driver) ELSE MaxPackets
  OBVIOUS
<1>2. /\ pc["read"] = "fetch" /\ UNCHANGED <<sent, fate, queue, held>>
      /\ content' = [content EXCEPT ![b].todo = SubSeq(driver, 1, n)]
      /\ driver' = SubSeq(driver, n + 1, Len(driver))
  BY <1>1 DEF ReadPackets
<1>3. /\ driver \in Seq(Packet) /\ n \in 0 .. Len(driver)
      /\ b \in Block /\ content \in [Block -> Content] /\ content[b] \in Content /\ Staged(7, b)
      /\ held["read"] # 0 /\ "read" \in Worker /\ Seat("read") = 7
  <2>1. driver \in Seq(Packet) /\ n \in 0 .. Len(driver)
    BY <1>1, BoundsAssumption DEF Whole, RingInv, TypeOK
  <2>2. "read" \in Worker /\ Seat("read") = 7
    BY DEF Worker, Seat
  <2>3. held["read"] # 0
    BY <1>2, <2>2 DEF Whole, RingInv, HeldInv
  <2>4. b \in Block /\ content[b] \in Content /\ Staged(7, b)
    BY <1>1, <2>2, <2>3, TodoOfHeld DEF Whole
  <2>5. QED BY <2>1, <2>2, <2>3, <2>4 DEF Whole, RingInv, TypeOK
<1>4. content[b].todo = <<>> /\ content[b].mstcp = <<>> /\ content[b].adapter = <<>>
  BY <1>2, <1>3 DEF Staged
<1>5. /\ content'[b].todo = SubSeq(driver, 1, n)
      /\ content'[b].mstcp = <<>> /\ content'[b].adapter = <<>>
      /\ \A c \in Block : c # b => content'[c] = content[c]
  BY <1>2, <1>3, <1>4 DEF Content
<1>6. /\ Increasing(content'[b].todo) /\ Increasing(driver')
      /\ Below(ToSet(content'[b].todo), ToSet(driver'))
  <2>1. driver \in Seq(Packet) /\ n \in 0 .. Len(driver) /\ Increasing(driver)
    BY <1>3 DEF SortInv
  <2>2. /\ Increasing(SubSeq(driver, 1, n)) /\ Increasing(SubSeq(driver, n + 1, Len(driver)))
        /\ Below(ToSet(SubSeq(driver, 1, n)), ToSet(SubSeq(driver, n + 1, Len(driver))))
    BY ONLY <2>1, IncreasingCut
  <2>3. QED BY <1>2, <1>5, <2>2
<1>7. ToSet(driver) = ToSet(content'[b].todo) \cup ToSet(driver')
  BY <1>2, <1>3, <1>5, Cut
<1>8. ToSet(<<>>) = {} /\ Increasing(<<>>)
  BY DEF ToSet, Increasing
<1>9. /\ Packets(b) = {} /\ Packets(b)' = ToSet(content'[b].todo)
      /\ \A c \in Block : c # b => Packets(c)' = Packets(c)
  BY <1>4, <1>5, <1>8 DEF Packets
<1>10. \A c \in Block : BlockInOrder(c)'
  <2>1. BlockInOrder(b)'
    BY <1>5, <1>6, <1>8, <1>9 DEF BlockInOrder, Below
  <2>2. \A c \in Block : c # b => BlockInOrder(c)'
    BY <1>5, <1>7, <1>9 DEF SortInv, BlockInOrder, Below
  <2>3. QED BY <2>1, <2>2
<1>11. \A c \in Block : Earlier(Line, b, c) => c # b /\ Packets(c) = {}
  <2> SUFFICES ASSUME NEW c \in Block, Earlier(Line, b, c) PROVE c # b /\ Packets(c) = {}
    OBVIOUS
  <2>1. \A k \in 1 .. 8 : b \in ToSet(Line[k]) => k = 7
    BY <1>1, <1>3, HeldOnce DEF Whole
  <2>2. Line[7] = <<b>> /\ DOMAIN Line = 1 .. 8
    BY <1>1, <1>3, HeldOnce, LineIs DEF Whole, RingInv
  <2>3. ASSUME NEW k \in DOMAIN Line, NEW i \in DOMAIN Line[k], NEW j \in DOMAIN Line[k], i < j,
               Line[k][i] = b, Line[k][j] = c
        PROVE  FALSE
    <3>1. b \in ToSet(Line[k])
      BY <2>3 DEF ToSet
    <3>2. k = 7
      BY <2>1, <2>2, <3>1
    <3>3. DOMAIN Line[k] = {1}
      BY <2>2, <3>2
    <3>4. QED BY <2>3, <3>3
  <2>4. PICK k \in DOMAIN Line, l \in DOMAIN Line : k < l /\ b \in ToSet(Line[k]) /\ c \in ToSet(Line[l])
    BY <2>3 DEF Earlier
  <2>5. l = 8
    BY <2>1, <2>2, <2>4
  <2>6. Staged(8, c) /\ c # b
    <3>1. StageInv
      BY DEF Whole, RingInv
    <3>2. Staged(l, c)
      BY <2>2, <2>4, <3>1 DEF StageInv
    <3>3. QED BY <2>1, <2>4, <2>5, <3>2
  <2>7. QED BY <1>8, <2>6 DEF Staged, Packets
<1>12. BlocksInOrder'
  <2>1. Line' = Line
    BY <1>2 DEF Line, Grip
  <2> SUFFICES ASSUME NEW c \in Block, NEW d \in Block, Earlier(Line, c, d)
               PROVE  Below(Packets(c)', Packets(d)')
    BY <2>1 DEF BlocksInOrder
  <2>2. CASE c = b
    <3>1. Packets(d)' = {}
      BY <1>9, <1>11, <2>2
    <3>2. QED BY <3>1 DEF Below
  <2>3. CASE c # b /\ d = b
    <3>1. Below(Packets(c), ToSet(driver))
      BY DEF SortInv, BlockInOrder
    <3>2. QED BY <1>7, <1>9, <2>3, <3>1 DEF Below
  <2>4. CASE c # b /\ d # b
    BY <1>9, <2>4 DEF SortInv, BlocksInOrder
  <2>5. QED BY <2>2, <2>3, <2>4
<1>13. SentFirst'
  <2> SUFFICES ASSUME NEW p \in ToSet(sent), NEW v \in {"mstcp", "adapter"}, fate[p] = v
               PROVE  /\ Below({p}, ToSet(driver'))
                      /\ \A c \in Block : Below({p}, ToSet(content'[c][v]) \cup ToSet(content'[c].todo))
    BY <1>2 DEF SentFirst
  <2>1. /\ Below({p}, ToSet(driver))
        /\ \A c \in Block : Below({p}, ToSet(content[c][v]) \cup ToSet(content[c].todo))
    BY DEF SortInv, SentFirst
  <2>2. Below({p}, ToSet(content'[b].todo)) /\ Below({p}, ToSet(driver'))
    BY <1>7, <2>1 DEF Below
  <2>3. content'[b][v] = <<>>
    BY <1>5
  <2>4. Below({p}, ToSet(content'[b][v]) \cup ToSet(content'[b].todo))
    BY <1>8, <2>2, <2>3 DEF Below
  <2>5. QED BY <1>5, <2>1, <2>2, <2>4
<1>14. Sifted(sent, fate)'
  BY <1>2 DEF SortInv, Sifted
<1>15. QED BY <1>6, <1>10, <1>12, <1>13, <1>14 DEF SortInv

\* A packet arrives after all others.
LEMMA SortArrive ==
  ASSUME Whole, SortInv, Arrive
  PROVE  SortInv'
<1>1. PICK x : x = arrived + 1
  OBVIOUS
<1>2. /\ driver' = Append(driver, x) /\ arrived \in Nat /\ x \in Packet /\ driver \in Seq(Packet)
      /\ UNCHANGED <<content, sent, fate, queue, held>> /\ TypeOK /\ Gathered
  BY <1>1, BoundsAssumption DEF Arrive, Whole, WhereInv, RingInv, TypeOK, Packet, filterVars
<1>3. \A a \in Place : \A p \in ToSet(Whereabouts[a]) : p < x
  <2> SUFFICES ASSUME NEW a \in Place, NEW p \in ToSet(Whereabouts[a]) PROVE p < x
    OBVIOUS
  <2>1. p \in 1 .. arrived
    BY <1>2, Arrived
  <2>2. QED BY ONLY <1>1, <1>2, <2>1
<1>4. WhereShape
  BY <1>2, WhereIs
<1>5. Below(ToSet(driver), {x}) /\ Below(ToSet(sent), {x})
  <2>1. /\ Free("driver") \in Place /\ Free("sent") \in Place
        /\ Whereabouts[Free("driver")] = driver /\ Whereabouts[Free("sent")] = sent
    BY <1>4, PlaceNames DEF WhereShape, FreeName, Outside
  <2>2. QED BY <1>3, <2>1 DEF Below
<1>6. \A b \in Block : Below(Packets(b), {x})
  <2> SUFFICES ASSUME NEW b \in Block PROVE Below(Packets(b), {x})
    OBVIOUS
  <2>1. \A f \in Field : InBlock(b, f) \in Place /\ Whereabouts[InBlock(b, f)] = content[b][f]
    BY <1>4, PlaceNames DEF WhereShape
  <2>2. \A f \in Field : Below(ToSet(content[b][f]), {x})
    BY <1>3, <2>1 DEF Below
  <2>3. QED BY <2>2 DEF Field, Packets, Below
<1>7. ToSet(driver') = ToSet(driver) \cup {x}
  BY <1>2, Appended
<1>8. Increasing(driver')
  BY <1>2, <1>5, IncreasingAppend DEF SortInv
<1>9. \A b \in Block : Packets(b)' = Packets(b)
  BY <1>2 DEF Packets
<1>10. \A b \in Block : BlockInOrder(b)'
  BY <1>2, <1>6, <1>7, <1>9 DEF SortInv, BlockInOrder, Below
<1>11. BlocksInOrder'
  <2>1. Line' = Line
    BY <1>2 DEF Line, Grip
  <2>2. QED BY <1>9, <2>1 DEF SortInv, BlocksInOrder
<1>12. SentFirst'
  BY <1>2, <1>5, <1>7 DEF SortInv, SentFirst, Below
<1>13. Sifted(sent, fate)'
  BY <1>2 DEF SortInv, Sifted
<1>14. QED BY <1>8, <1>10, <1>11, <1>12, <1>13 DEF SortInv

\* What a worker writes of its block is next in the order of that verdict.
LEMMA WrittenIsNext ==
  ASSUME Whole, SortInv, NEW t \in {"mstcp", "adapter"}, pc[t] = "work",
         NEW p \in ToSet(content[held[t]][t]), NEW c \in Block, c # held[t]
  PROVE  Below({p}, ToSet(content[c][t]) \cup ToSet(content[c].todo))
<1>1. PICK b : b = held[t]
  OBVIOUS
<1>2. t \in Worker /\ held[t] # 0 /\ Running
  BY DEF Whole, RingInv, HeldInv, Worker
<1>3. /\ b \in Block /\ b \in ToSet(Line[Seat(t)]) /\ Line[Seat(t)] = <<b>>
      /\ DOMAIN Line = 1 .. 8 /\ Seat(t) \in 1 .. 8
  BY <1>1, <1>2, HeldOnce, LineIs, Seats DEF Whole, RingInv
<1>4. p \in Packets(b)
  BY <1>1 DEF Packets
<1>5. PICK k \in 1 .. 8 : c \in ToSet(Line[k])
  BY <1>2, <1>3 DEF Whole, RingInv, BlocksInv, All
<1>6. Staged(k, c)
  BY <1>5 DEF Whole, RingInv, StageInv
<1>7. CASE Seat(t) < k
  <2>1. Earlier(Line, b, c)
    BY <1>3, <1>5, <1>7 DEF Earlier
  <2>2. Below(Packets(b), Packets(c))
    BY <1>3, <2>1 DEF SortInv, BlocksInOrder
  <2>3. QED BY <1>4, <2>2 DEF Below, Packets
<1>8. CASE k = Seat(t)
  BY <1>1, <1>3, <1>5, <1>8 DEF ToSet
<1>9. CASE k < Seat(t)
  <2>1. ToSet(<<>>) = {}
    BY DEF ToSet
  <2>2. t = "mstcp" /\ k \in {1, 2}
    BY <1>9 DEF Seat
  <2>3. content[c].todo = <<>> /\ content[c].mstcp = <<>>
    BY <1>6, <2>2 DEF Staged
  <2>4. QED BY <2>1, <2>2, <2>3 DEF Below
<1>10. QED BY <1>3, <1>5, <1>7, <1>8, <1>9

LEMMA SortWrite ==
  ASSUME Whole, SortInv, NEW t \in {"mstcp", "adapter"}, Write(t)
  PROVE  SortInv'
<1>1. PICK b, s : b = held[t] /\ s = content[b][t]
  OBVIOUS
<1>2. /\ pc[t] = "work" /\ UNCHANGED <<driver, fate, queue, held>>
      /\ content' = [content EXCEPT ![b][t] = <<>>] /\ sent' = sent \o s
  BY <1>1 DEF Write, driverVars
<1>3. /\ b \in Block /\ content \in [Block -> Content] /\ content[b] \in Content
      /\ s \in Seq(Packet) /\ sent \in Seq(Packet) /\ held[t] # 0 /\ TypeOK
  <2>1. t \in Worker /\ held[t] # 0
    BY <1>2 DEF Whole, RingInv, HeldInv, Worker
  <2>2. QED BY <1>1, <2>1, TodoOfHeld DEF Whole, RingInv, TypeOK
<1>4. /\ content'[b][t] = <<>>
      /\ \A f \in Field : f # t => content'[b][f] = content[b][f]
      /\ \A c \in Block : c # b => content'[c] = content[c]
  <2>1. CASE t = "adapter"
    BY <1>2, <1>3, <2>1 DEF Content, Field
  <2>2. CASE t = "mstcp"
    BY <1>2, <1>3, <2>2 DEF Content, Field
  <2>3. QED BY <2>1, <2>2
<1>5. ToSet(<<>>) = {} /\ Increasing(<<>>)
  BY DEF ToSet, Increasing
<1>6. \A c \in Block : Fewer(c)
  <2>1. BlockInOrder(b)
    BY <1>3 DEF SortInv
  <2>2. Fewer(b)
    BY <1>4, <1>5, <2>1 DEF Fewer, BlockInOrder, Field
  <2>3. \A c \in Block : c # b => Fewer(c)
    BY <1>4 DEF Fewer, SortInv, BlockInOrder
  <2>4. QED BY <2>2, <2>3
<1>7. (\A c \in Block : BlockInOrder(c)') /\ BlocksInOrder'
  <2>1. Line' = Line
    BY <1>2 DEF Line, Grip
  <2>2. QED BY <1>2, <1>6, <2>1, BlocksLess DEF NotAhead
<1>8. \A p \in ToSet(s) : fate[p] = t
  <2>1. /\ InBlock(b, t) \in Place /\ Whereabouts[InBlock(b, t)] = s
        /\ FateAt(InBlock(b, t)) = {t}
    BY <1>1, <1>3, WhereIs, PlaceNames, FatesAt DEF WhereShape, Field
  <2>2. QED BY <2>1 DEF Whole, WhereInv, FateInv
<1>9. ToSet(sent') = ToSet(sent) \cup ToSet(s)
  BY <1>2, <1>3, Joined
<1>10. \A c \in Block, f \in Field : ToSet(content'[c][f]) \subseteq ToSet(content[c][f])
  BY <1>6 DEF Fewer, Field
<1>11. ASSUME NEW p \in ToSet(sent'), NEW v \in {"mstcp", "adapter"}, fate[p] = v
       PROVE  /\ Below({p}, ToSet(driver))
              /\ \A c \in Block : Below({p}, ToSet(content'[c][v]) \cup ToSet(content'[c].todo))
  <2>1. CASE p \in ToSet(sent)
    <3>1. /\ Below({p}, ToSet(driver))
          /\ \A c \in Block : Below({p}, ToSet(content[c][v]) \cup ToSet(content[c].todo))
      BY <1>11, <2>1 DEF SortInv, SentFirst
    <3>2. v \in Field /\ "todo" \in Field
      BY DEF Field
    <3>3. QED BY <1>10, <3>1, <3>2 DEF Below
  <2>2. CASE p \in ToSet(s)
    <3>1. v = t /\ BlockInOrder(b) /\ p \in Packets(b)
      BY <1>1, <1>3, <1>8, <1>11, <2>2 DEF SortInv, Packets
    <3>2. Below({p}, ToSet(driver)) /\ Below({p}, ToSet(content[b].todo))
      BY <1>1, <2>2, <3>1 DEF BlockInOrder, Below
    <3>3. Below({p}, ToSet(content'[b][v]) \cup ToSet(content'[b].todo))
      BY <1>4, <1>5, <3>1, <3>2 DEF Field
    <3>4. \A c \in Block : c # b => Below({p}, ToSet(content[c][v]) \cup ToSet(content[c].todo))
      BY <1>1, <1>2, <2>2, <3>1, WrittenIsNext
    <3>5. QED BY <1>4, <3>2, <3>3, <3>4
  <2>3. QED BY <1>9, <1>11, <2>1, <2>2
<1>12. SentFirst'
  BY <1>2, <1>11 DEF SentFirst
<1>13. Sifted(sent', fate)
  <2>1. Sifted(s, fate)
    <3>1. BlockInOrder(b)
      BY <1>3 DEF SortInv
    <3>2. Increasing(s)
      BY <1>1, <3>1 DEF BlockInOrder
    <3>3. QED BY ONLY <3>2 DEF Increasing, Sifted
  <2>2. SiftedBelow(sent, s, fate)
    <3> SUFFICES ASSUME NEW x \in ToSet(sent), NEW y \in ToSet(s), fate[x] = fate[y] PROVE x < y
      BY DEF SiftedBelow
    <3>1. fate[x] = t
      BY <1>8
    <3>2. Below({x}, ToSet(content[b][t]))
      BY <1>3, <3>1 DEF SortInv, SentFirst, Below
    <3>3. QED BY <1>1, <3>2 DEF Below
  <2>3. sent \in Seq(Packet) /\ s \in Seq(Packet) /\ Sifted(sent, fate) /\ Sifted(s, fate)
        /\ SiftedBelow(sent, s, fate)
    BY <1>3, <2>1, <2>2 DEF SortInv
  <2>4. Sifted(sent \o s, fate)
    BY ONLY <2>3, SiftedJoin
  <2>5. QED BY <1>2, <2>4
<1>14. QED BY <1>2, <1>7, <1>12, <1>13 DEF SortInv, Sifted

\* What the resolver sends was deferred.
LEMMA SortSends ==
  ASSUME Whole, SortInv, ResolverSends
  PROVE  SortInv'
<1>1. PICK s : s = toAdapters \o toMstcp
  OBVIOUS
<1>2. /\ UNCHANGED <<content, driver, fate, queue, held>> /\ TypeOK
      /\ sent \in Seq(Packet) /\ toAdapters \in Seq(Packet) /\ toMstcp \in Seq(Packet)
  BY DEF ResolverSends, filterVars, driverVars, Whole, RingInv, TypeOK
<1>3. /\ s \in Seq(Packet) /\ ToSet(s) = ToSet(toAdapters) \cup ToSet(toMstcp)
      /\ sent' = sent \o s
  <2>1. sent' = (sent \o toAdapters) \o toMstcp
    BY DEF ResolverSends
  <2>2. (sent \o toAdapters) \o toMstcp = sent \o s
    BY <1>1, <1>2
  <2>3. QED BY <1>1, <1>2, <2>1, <2>2, Joined
<1>4. \A p \in ToSet(s) : fate[p] = "deferred"
  <2>1. \A f \in {"toAdapters", "toMstcp"} : Free(f) \in Place /\ Whereabouts[Free(f)] = Outside[f]
    BY <1>2, WhereIs, PlaceNames DEF WhereShape, FreeName
  <2>2. \A f \in {"toAdapters", "toMstcp"} : FateAt(Free(f)) = {"deferred"}
    BY FatesAt
  <2>3. Outside["toAdapters"] = toAdapters /\ Outside["toMstcp"] = toMstcp
    BY DEF Outside
  <2>4. QED BY <1>3, <2>1, <2>2, <2>3 DEF Whole, WhereInv, FateInv
<1>5. ToSet(sent') = ToSet(sent) \cup ToSet(s)
  BY <1>2, <1>3, Joined
<1>6. SentFirst'
  <2> SUFFICES ASSUME NEW p \in ToSet(sent'), NEW v \in {"mstcp", "adapter"}, fate[p] = v
               PROVE  /\ Below({p}, ToSet(driver))
                      /\ \A b \in Block : Below({p}, ToSet(content[b][v]) \cup ToSet(content[b].todo))
    BY <1>2 DEF SentFirst
  <2>1. p \in ToSet(sent)
    BY <1>4, <1>5
  <2>2. QED BY <2>1 DEF SortInv, SentFirst
<1>7. Sifted(sent', fate)
  <2>1. \A i \in DOMAIN s : fate[s[i]] = "deferred"
    BY <1>4 DEF ToSet
  <2>2. sent \in Seq(Packet) /\ s \in Seq(Packet) /\ Sifted(sent, fate) /\ Sifted(s, fate)
        /\ SiftedBelow(sent, s, fate)
    BY <1>2, <1>3, <1>4, <2>1 DEF SortInv, Sifted, SiftedBelow
  <2>3. Sifted(sent \o s, fate)
    BY ONLY <2>2, SiftedJoin
  <2>4. QED BY <1>3, <2>3
<1>8. \A b \in Block : Packets(b)' = Packets(b)
  BY <1>2 DEF Packets
<1>9. \A b \in Block : BlockInOrder(b)'
  BY <1>2, <1>8 DEF SortInv, BlockInOrder
<1>10. BlocksInOrder'
  <2>1. Line' = Line
    BY <1>2 DEF Line, Grip
  <2>2. QED BY <1>8, <2>1 DEF SortInv, BlocksInOrder
<1>11. QED BY <1>2, <1>6, <1>7, <1>9, <1>10 DEF SortInv, Sifted

\* stop() throws out what the driver holds, and then what is in the blocks.
LEMMA SortRelease ==
  ASSUME Whole, SortInv, ReleaseFilter
  PROVE  SortInv'
<1>1. /\ driver' = <<>> /\ fate' = Discard(ToSet(driver), "stopped")
      /\ UNCHANGED <<content, sent, queue, held>>
  BY DEF ReleaseFilter
<1>2. ToSet(<<>>) = {} /\ Increasing(<<>>)
  BY DEF ToSet, Increasing
<1>3. \A p \in ToSet(sent) : fate'[p] = fate[p]
  BY <1>1, SentKeepFates DEF Discard
<1>4. \A b \in Block : Fewer(b)
  BY <1>1 DEF Fewer, SortInv, BlockInOrder
<1>5. Line' = Line
  BY <1>1 DEF Line, Grip
<1>6. QED BY <1>1, <1>2, <1>3, <1>4, <1>5, SortLess DEF NotAhead

LEMMA SortJoined ==
  ASSUME Whole, SortInv, WorkersJoined
  PROVE  SortInv'
<1>1. /\ content' = [b \in Block |-> EmptyBlock] /\ fate' = Discard(InBlocks, "stopped")
      /\ UNCHANGED <<driver, sent>>
  BY DEF WorkersJoined, driverVars
<1>2. ToSet(<<>>) = {} /\ Increasing(<<>>)
  BY DEF ToSet, Increasing
<1>3. \A b \in Block : content'[b].todo = <<>> /\ content'[b].mstcp = <<>> /\ content'[b].adapter = <<>>
  BY <1>1 DEF EmptyBlock
<1>4. \A b \in Block : Fewer(b) /\ Packets(b)' = {}
  BY <1>2, <1>3 DEF Fewer, Packets
<1>5. ASSUME NEW p \in ToSet(sent) PROVE fate'[p] = fate[p]
  <2>1. p \in Packet /\ p \notin InBlocks
    BY SentKeepFates DEF InBlocks, Field
  <2>2. QED BY <1>1, <2>1 DEF Discard
<1>6. QED BY <1>1, <1>4, <1>5, SortLess DEF NotAhead, SortInv

\* The blocks are empty when the filter starts.
LEMMA SortStart ==
  ASSUME Whole, SortInv, Start
  PROVE  SortInv'
<1>1. UNCHANGED <<content, driver, sent, fate>> /\ ~Running
  BY DEF Start, Running
<1>2. \A b \in Block : content[b] = EmptyBlock
  BY <1>1 DEF Whole, RingInv, StageInv
<1>3. \A b \in Block : Packets(b)' = {}
  BY <1>1, <1>2 DEF Packets, EmptyBlock, ToSet
<1>4. QED BY <1>1, <1>3, SortMoves DEF NotAhead

LEMMA SortStep ==
  ASSUME Whole, SortInv, [Next]_vars
  PROVE  SortInv'
<1> DEFINE Still == UNCHANGED <<content, driver, sent, fate, queue, held>>
<1>1. ReadThreadLocks \/ AwaitEvent => Still
  BY DEF ReadThreadLocks, AwaitEvent, driverVars
<1>2. StopBegins \/ StoreExit \/ NotifyExit \/ ResolverJoined \/ UNCHANGED vars => Still
  BY DEF StopBegins, StoreExit, NotifyExit, ResolverJoined, vars, filterVars, driverVars
<1>3. ResolverLeaves \/ ResolverSwaps \/ ResolverFindsNothing \/ ResolverBlocks \/ ResolverTimesOut
        \/ ResolverDecides => Still
  BY DEF ResolverLeaves, ResolverSwaps, ResolverFindsNothing, ResolverBlocks, ResolverTimesOut,
         ResolverDecides, filterVars, driverVars
<1>4. Still => SortInv'
  BY SortStays
<1> HIDE DEF Still
<1>5. RingInv
  BY DEF Whole
<1>6. CASE ReadThread
  BY <1>1, <1>4, <1>5, <1>6, SortRead, SortQueue, SortHandOn DEF ReadThread, Worker, Neighbours
<1>7. CASE ProcessThread
  BY <1>5, <1>7, SortProcess, SortQueue, SortHandOn DEF ProcessThread, Worker, Neighbours
<1>8. CASE MstcpThread
  BY <1>5, <1>8, SortWrite, SortQueue, SortHandOn DEF MstcpThread, Worker, Neighbours
<1>9. CASE AdapterThread
  BY <1>5, <1>9, SortWrite, SortQueue, SortHandOn DEF AdapterThread, Worker, Neighbours
<1>10. CASE ResolverThread
  BY <1>3, <1>4, <1>10, SortSends DEF ResolverThread
<1>11. CASE Stop
  BY <1>2, <1>4, <1>11, SortRelease, SortJoined DEF Stop
<1>12. QED BY <1>2, <1>4, <1>6, <1>7, <1>8, <1>9, <1>10, <1>11, SortStart, SortArrive DEF Next

-----------------------------------------------------------------------------
(***************************************************************************)
(* The theorems.                                                           *)
(***************************************************************************)

LEMMA WholeInitially == Init => Whole /\ SortInv
BY RingInitially, WhereInitially, SortInitially, ShutdownInit DEF Whole, RingInv

LEMMA WholeStep == Whole /\ [Next]_vars => Whole'
BY RingStep, WhereStep, ShutdownNext DEF Whole

(* When stop() has returned, or a failed start(), no deferred packet is left *)
(* behind: socks_local_router.h:707 stores resolver_should_exit_ only after  *)
(* stop_filter() has joined the thread that enqueues.                        *)
THEOREM StopStrandsNothing == Spec => []NothingStranded
<1>1. ShutdownInv => NothingStranded
  BY DEF ShutdownInv, DoneIsDrained, IdleHoldsNothing, InactiveIsDone, NothingStranded
<1>2. QED BY <1>1, ShutdownInit, ShutdownNext, PTL DEF Spec

(* Every variable of the pipeline keeps its type: a worker only looks at a   *)
(* block that it holds, every queue holds blocks, and the resolve queue      *)
(* never exceeds max_resolve_queue_depth_, although its depth is tested      *)
(* before the copy is made and again when it is queued.                      *)
THEOREM PacketTypesHold == Spec => []TypeOK
<1>1. RingInv => TypeOK
  BY DEF RingInv
<1>2. QED BY <1>1, RingInitially, RingStep, PTL DEF Spec

(* Between the driver, the three lists of every block, the resolve queue,    *)
(* the resolver's batch and its two send lists no packet that arrived is     *)
(* lost or doubled: each is at one place, once, until it has been given back *)
(* to the driver, unless it was dropped for want of room or a buffer or      *)
(* stop() found it in a queue.                                               *)
THEOREM PacketsStayWhole == Spec => []NothingLostOrDoubled
<1>1. Whole => NothingLostOrDoubled
  BY GatheredSays DEF Whole, RingInv
<1>2. QED BY <1>1, WholeInitially, WholeStep, PTL DEF Spec

(* Four threads hand the blocks from one to the next and none overtakes      *)
(* another: packets that got the same direct verdict leave in the order of   *)
(* their arrival, whatever the resolver sends in between.                    *)
THEOREM PacketsKeepOrder == Spec => []OrderKept
<1>1. SortInv => OrderKept
  BY DEF SortInv, Sifted, OrderKept
<1>2. Whole /\ SortInv /\ [Next]_vars => SortInv'
  BY SortStep
<1>3. QED BY <1>1, <1>2, WholeInitially, WholeStep, PTL DEF Spec
=============================================================================
