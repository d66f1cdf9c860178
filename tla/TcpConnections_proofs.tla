------------------------ MODULE TcpConnections_proofs ------------------------
(***************************************************************************)
(* Proofs about the connections of the local TCP proxy: the completion     *)
(* port they work through (CompletionPort), for any finite pool of         *)
(* workers, any number of servers and any number of keys; and the relay of *)
(* a connection (TcpRelay), for any size of its buffers, any number of     *)
(* bytes and any lengths of receives and sends.                            *)
(***************************************************************************)
EXTENDS CompletionPort, TcpRelay, FiniteSetTheorems, WellFoundedInduction, TLAPS

------------------------------------------------------------------------------
\* Numbers, for these proofs and those of ProxyServices_proofs: the models take a
\* minimum where the code takes the first free place, and a place is free while
\* there are fewer things than places.

\* Every set of natural numbers that is not empty has a least element: the
\* order of the numbers is well-founded, so the set has a minimal element.
LEMMA LeastOf ==
  ASSUME NEW T \in SUBSET Nat, T # {}
  PROVE  \E x \in T : \A y \in T : x <= y
<1>1. PICK r : r = {ss \in Nat \X Nat : ss[1] < ss[2]}
  OBVIOUS
<1>2. IsWellFoundedOn(r, Nat)
  BY <1>1, NatLessThanWellFounded DEF OpToRel
<1>3. \E x \in T : \A y \in T : ~(<<y, x>> \in r)
  BY <1>2, WFMin
<1>4. \A x, y \in Nat : <<y, x>> \notin r => x <= y
  BY <1>1
<1>5. QED BY <1>3, <1>4

\* A function from at least as many numbers to the numbers up to n without one
\* of them takes some value twice.
LEMMA TwoShareAValue ==
  ASSUME NEW m \in Nat, NEW n \in Nat, n <= m, NEW k \in 1 .. n,
         NEW f \in [1 .. m -> (1 .. n) \ {k}]
  PROVE  \E i, j \in 1 .. m : i # j /\ f[i] = f[j]
<1>1. IsFiniteSet(1 .. m) /\ Cardinality(1 .. m) = m
  BY FS_Interval
<1>2. IsFiniteSet(1 .. n) /\ Cardinality(1 .. n) = n
  BY FS_Interval
<1>3. IsFiniteSet((1 .. n) \ {k}) /\ Cardinality((1 .. n) \ {k}) = n - 1
  BY FS_RemoveElement, <1>2
<1>4. Cardinality((1 .. n) \ {k}) < Cardinality(1 .. m)
  BY <1>1, <1>3
<1>5. QED BY <1>1, <1>3, <1>4, FS_PigeonHole

------------------------------------------------------------------------------
\* The completion port and its workers.

WithToken  == {"taken", "calling", "counted", "working"}
WithCallee == {"calling", "counted", "working"}
Counted    == {"counted", "working"}
Holding    == {"registering", "running", "ended"}

\* A completion belongs to a socket that was opened.
TokensAreOpened == \A w \in Worker : worker[w] \in WithToken => token[w] \in opened

\* The copy of a handler is that of the server of the socket.
CalleeIsOwner == \A w \in Worker : worker[w] \in WithCallee => callee[w] = token[w][2]

\* The key of a socket leads to its server or to nobody: keys below nextKey
\* are never given a second handler.
KeysAreOwned ==
  \A c \in opened : c[1] < nextKey /\ handlers[c[1]] \in {c[2], NoOwner}

\* A server that has registered and not yet unregistered has its key.
HoldersHaveKeys ==
  \A o \in Owner : server[o] \in Holding =>
    key[o] \in CompletionKey /\ key[o] < nextKey /\ handlers[key[o]] = o

\* active_iocp_operations_ counts the workers between CountIn and its end.
Inside(o) == {w \in Worker : worker[w] \in Counted /\ callee[w] = o}
CountIsExact == \A o \in Owner : operations[o] = Cardinality(Inside(o))

\* The inductive invariant, in two parts: whose a completion is, and how many
\* are worked on.
OwnerInv ==
  /\ PortTypeOK /\ TokensAreOpened /\ CalleeIsOwner /\ KeysAreOwned /\ HoldersHaveKeys
PortInv == OwnerInv /\ CountIsExact /\ NoWorkAfterStop

-----------------------------------------------------------------------------
(* Whose a completion is *)

LEMMA OwnerInit == PortInit => OwnerInv
<1> SUFFICES ASSUME PortInit PROVE OwnerInv
  OBVIOUS
<1>1. TokensAreOpened /\ CalleeIsOwner /\ KeysAreOwned /\ HoldersHaveKeys
  BY DEF PortInit, TokensAreOpened, CalleeIsOwner, KeysAreOwned, HoldersHaveKeys,
         WithToken, WithCallee, Holding
<1>2. token \in [Worker -> (CompletionKey \X Owner) \cup {<<0, NoOwner>>}]
  BY DEF PortInit
<1>3. 1 \in 1 .. MaxKey + 1
  BY KeyAssumption
<1>4. PortTypeOK
  BY <1>2, <1>3 DEF PortInit, PortTypeOK
<1>5. QED BY <1>1, <1>4 DEF OwnerInv

LEMMA OwnerStutters == OwnerInv /\ UNCHANGED portVars => OwnerInv'
BY DEF OwnerInv, PortTypeOK, TokensAreOpened, CalleeIsOwner, KeysAreOwned,
       HoldersHaveKeys, portVars

LEMMA TakeFacts ==
  ASSUME OwnerInv, NEW w \in Worker, worker[w] \in WithCallee
  PROVE  callee[w] \in Owner
BY DEF OwnerInv, PortTypeOK, TokensAreOpened, CalleeIsOwner, WithToken, WithCallee

\* Steps of the pool and of the workers that leave the servers alone, without
\* what operations counts.
LEMMA PoolKeeps ==
  ASSUME OwnerInv, StartPool \/ StartPoolFails \/ StopPool
  PROVE  OwnerInv'
<1>1. CASE StartPool
  BY <1>1
  DEF OwnerInv, PortTypeOK, TokensAreOpened, CalleeIsOwner, KeysAreOwned,
      HoldersHaveKeys, WithToken, WithCallee, StartPool
<1>2. CASE StartPoolFails
  <2>1. worker' \in [Worker -> {"off", "waiting"}]
    BY <1>2 DEF StartPoolFails
  <2>2. \A w \in Worker : worker'[w] \notin WithToken /\ worker'[w] \notin WithCallee
    BY <2>1 DEF WithToken, WithCallee
  <2>3. PortTypeOK'
    BY <1>2, <2>1 DEF OwnerInv, PortTypeOK, StartPoolFails
  <2>4. QED
    BY <1>2, <2>2, <2>3
    DEF OwnerInv, TokensAreOpened, CalleeIsOwner, KeysAreOwned, HoldersHaveKeys,
        StartPoolFails
<1>3. CASE StopPool
  BY <1>3
  DEF OwnerInv, PortTypeOK, TokensAreOpened, CalleeIsOwner, KeysAreOwned,
      HoldersHaveKeys, StopPool
<1>4. QED BY <1>1, <1>2, <1>3

LEMMA WorkerKeeps ==
  ASSUME OwnerInv, operations' \in [Owner -> Nat], NEW w \in Worker,
         \/ WorkerEnds(w) \/ CopyHandler(w) \/ CountIn(w) \/ LookAtEnd(w) \/ Work(w)
         \/ \E c \in queue : TakeCompletion(w, c)
  PROVE  OwnerInv'
<1>1. CASE WorkerEnds(w)
  BY <1>1
  DEF OwnerInv, PortTypeOK, TokensAreOpened, CalleeIsOwner, KeysAreOwned,
      HoldersHaveKeys, WithToken, WithCallee, WorkerEnds
<1>2. CASE CopyHandler(w)
  BY <1>2
  DEF OwnerInv, PortTypeOK, TokensAreOpened, CalleeIsOwner, KeysAreOwned,
      HoldersHaveKeys, WithToken, WithCallee, CopyHandler
<1>3. CASE CountIn(w)
  BY <1>3
  DEF OwnerInv, PortTypeOK, TokensAreOpened, CalleeIsOwner, KeysAreOwned,
      HoldersHaveKeys, WithToken, WithCallee, CountIn
<1>4. CASE LookAtEnd(w)
  BY <1>4
  DEF OwnerInv, PortTypeOK, TokensAreOpened, CalleeIsOwner, KeysAreOwned,
      HoldersHaveKeys, WithToken, WithCallee, LookAtEnd
<1>5. CASE Work(w)
  BY <1>5
  DEF OwnerInv, PortTypeOK, TokensAreOpened, CalleeIsOwner, KeysAreOwned,
      HoldersHaveKeys, WithToken, WithCallee, Work
<1>6. CASE \E c \in queue : TakeCompletion(w, c)
  BY <1>6
  DEF OwnerInv, PortTypeOK, TokensAreOpened, CalleeIsOwner, KeysAreOwned,
      HoldersHaveKeys, WithToken, WithCallee, TakeCompletion
<1>7. QED BY <1>1, <1>2, <1>3, <1>4, <1>5, <1>6

LEMMA ServerKeeps ==
  ASSUME OwnerInv, NEW o \in Owner,
         \/ EmplaceHandler(o) \/ Associated(o) \/ AssociateFails(o)
         \/ SetEnd(o) \/ Unregister(o) \/ StopEndsFor(o)
  PROVE  OwnerInv'
<1>1. CASE EmplaceHandler(o)
  BY <1>1, KeyAssumption
  DEF OwnerInv, PortTypeOK, TokensAreOpened, CalleeIsOwner, KeysAreOwned,
      HoldersHaveKeys, Holding, CompletionKey, EmplaceHandler, NewKey
<1>2. CASE Associated(o)
  BY <1>2
  DEF OwnerInv, PortTypeOK, TokensAreOpened, CalleeIsOwner, KeysAreOwned,
      HoldersHaveKeys, Holding, Associated
<1>3. CASE AssociateFails(o)
  BY <1>3, OwnerAssumption
  DEF OwnerInv, PortTypeOK, TokensAreOpened, CalleeIsOwner, KeysAreOwned,
      HoldersHaveKeys, Holding, CompletionKey, AssociateFails
<1>4. CASE SetEnd(o)
  BY <1>4
  DEF OwnerInv, PortTypeOK, TokensAreOpened, CalleeIsOwner, KeysAreOwned,
      HoldersHaveKeys, Holding, SetEnd
<1>5. CASE Unregister(o)
  BY <1>5, OwnerAssumption
  DEF OwnerInv, PortTypeOK, TokensAreOpened, CalleeIsOwner, KeysAreOwned,
      HoldersHaveKeys, Holding, CompletionKey, Unregister
<1>6. CASE StopEndsFor(o)
  BY <1>6
  DEF OwnerInv, PortTypeOK, TokensAreOpened, CalleeIsOwner, KeysAreOwned,
      HoldersHaveKeys, Holding, StopEndsFor
<1>7. QED BY <1>1, <1>2, <1>3, <1>4, <1>5, <1>6

LEMMA CompletesKeeps ==
  ASSUME OwnerInv, NEW c \in opened, Completes(c)
  PROVE  OwnerInv'
BY DEF OwnerInv, PortTypeOK, TokensAreOpened, CalleeIsOwner, KeysAreOwned,
       HoldersHaveKeys, Completes

-----------------------------------------------------------------------------
(* How many are worked on *)

LEMMA InsideIsFinite ==
  ASSUME NEW o
  PROVE  IsFiniteSet(Inside(o)) /\ Cardinality(Inside(o)) \in Nat
<1>1. Inside(o) \in SUBSET Worker
  BY DEF Inside
<1>2. IsFiniteSet(Inside(o))
  BY <1>1, WorkerAssumption, FS_Subset
<1>3. QED BY <1>2, FS_CardinalityType

LEMMA CountInit == PortInit => CountIsExact /\ NoWorkAfterStop
<1> SUFFICES ASSUME PortInit PROVE CountIsExact /\ NoWorkAfterStop
  OBVIOUS
<1>1. \A o \in Owner : Inside(o) = {}
  BY DEF PortInit, Inside, Counted
<1>2. CountIsExact
  BY <1>1, FS_EmptySet DEF CountIsExact, PortInit
<1>3. NoWorkAfterStop
  BY DEF PortInit, NoWorkAfterStop
<1>4. QED BY <1>2, <1>3

\* Nobody comes in and nobody leaves.
LEMMA SameCount ==
  ASSUME CountIsExact, operations' = operations,
         \A w \in Worker : /\ worker'[w] \in Counted <=> worker[w] \in Counted
                           /\ worker[w] \in Counted => callee'[w] = callee[w]
  PROVE  CountIsExact'
<1>1. ASSUME NEW o \in Owner PROVE operations'[o] = Cardinality(Inside(o))'
  <2>1. Inside(o)' = Inside(o)
    BY DEF Inside, Counted
  <2>2. QED BY <2>1 DEF CountIsExact
<1>2. QED BY <1>1 DEF CountIsExact

LEMMA ComesIn ==
  ASSUME OwnerInv, CountIsExact, NEW w \in Worker, CountIn(w)
  PROVE  CountIsExact' /\ operations' \in [Owner -> Nat]
<1> PICK o \in Owner : o = callee[w]
  BY TakeFacts DEF CountIn, Counted, WithCallee
<1>1. /\ worker[w] = "calling" /\ o \in Owner
      /\ operations' = [operations EXCEPT ![o] = @ + 1]
      /\ worker' = [worker EXCEPT ![w] = "counted"] /\ callee' = callee
      /\ worker \in [Worker -> {"off", "waiting", "taken", "calling", "counted", "working"}]
      /\ operations \in [Owner -> Nat]
  BY TakeFacts DEF CountIn, Counts, WithCallee, OwnerInv, PortTypeOK
<1>2. Inside(o)' = Inside(o) \cup {w} /\ w \notin Inside(o)
  BY <1>1 DEF Inside, Counted
<1>3. \A q \in Owner \ {o} : Inside(q)' = Inside(q)
  BY <1>1 DEF Inside, Counted
<1>4. Cardinality(Inside(o)') = Cardinality(Inside(o)) + 1
  BY <1>2, InsideIsFinite, FS_AddElement
<1>5. ASSUME NEW q \in Owner PROVE operations'[q] = Cardinality(Inside(q))'
  <2>1. CASE q = o
    BY <1>1, <1>4, <2>1 DEF CountIsExact
  <2>2. CASE q # o
    BY <1>1, <1>3, <2>2 DEF CountIsExact
  <2>3. QED BY <2>1, <2>2
<1>6. operations' \in [Owner -> Nat]
  BY <1>1
<1>7. QED BY <1>5, <1>6 DEF CountIsExact

LEMMA GoesOut ==
  ASSUME OwnerInv, CountIsExact, NEW w \in Worker, worker[w] \in Counted,
         Counts(callee[w], -1), callee' = callee,
         worker' = [worker EXCEPT ![w] = "waiting"]
  PROVE  CountIsExact' /\ operations' \in [Owner -> Nat]
<1> PICK o \in Owner : o = callee[w]
  BY TakeFacts DEF CountIn, Counted, WithCallee
<1>1. /\ o \in Owner
      /\ operations' = [operations EXCEPT ![o] = @ - 1]
      /\ worker \in [Worker -> {"off", "waiting", "taken", "calling", "counted", "working"}]
      /\ operations \in [Owner -> Nat]
  BY TakeFacts DEF Counts, Counted, WithCallee, OwnerInv, PortTypeOK
<1>2. Inside(o)' = Inside(o) \ {w} /\ w \in Inside(o)
  BY <1>1 DEF Inside, Counted
<1>3. \A q \in Owner \ {o} : Inside(q)' = Inside(q)
  BY <1>1 DEF Inside, Counted
<1>4. Cardinality(Inside(o)') = Cardinality(Inside(o)) - 1
      /\ Cardinality(Inside(o)') \in Nat
  BY <1>2, InsideIsFinite, FS_RemoveElement, FS_CardinalityType
<1>5. operations[o] = Cardinality(Inside(o))
  BY <1>1 DEF CountIsExact
<1>6. ASSUME NEW q \in Owner PROVE operations'[q] = Cardinality(Inside(q))'
  <2>1. CASE q = o
    BY <1>1, <1>4, <1>5, <2>1
  <2>2. CASE q # o
    BY <1>1, <1>3, <2>2 DEF CountIsExact
  <2>3. QED BY <2>1, <2>2
<1>7. operations' \in [Owner -> Nat]
  BY <1>1, <1>4, <1>5
<1>8. QED BY <1>6, <1>7 DEF CountIsExact

LEMMA WorkerCounts ==
  ASSUME PortInv, NEW w \in Worker,
         \/ WorkerEnds(w) \/ CopyHandler(w) \/ CountIn(w) \/ LookAtEnd(w) \/ Work(w)
         \/ \E c \in queue : TakeCompletion(w, c)
  PROVE  PortInv'
<1>1. OwnerInv /\ CountIsExact /\ NoWorkAfterStop
      /\ worker \in [Worker -> {"off", "waiting", "taken", "calling", "counted", "working"}]
      /\ callee \in [Worker -> Owner \cup {NoOwner}]
      /\ operations \in [Owner -> Nat]
  BY DEF PortInv, OwnerInv, PortTypeOK
<1>2. CASE WorkerEnds(w) \/ CopyHandler(w) \/ \E c \in queue : TakeCompletion(w, c)
  <2>1. operations' = operations /\ server' = server
    BY <1>2 DEF WorkerEnds, CopyHandler, TakeCompletion
  <2>2. \A v \in Worker : /\ worker'[v] \in Counted <=> worker[v] \in Counted
                          /\ worker[v] \in Counted => callee'[v] = callee[v]
                          /\ worker'[v] = "working" => worker[v] = "working"
    BY <1>1, <1>2 DEF WorkerEnds, CopyHandler, TakeCompletion, Counted
  <2>3. CountIsExact'
    BY <1>1, <2>1, <2>2, SameCount
  <2>4. NoWorkAfterStop'
    BY <1>1, <2>1, <2>2 DEF NoWorkAfterStop, Counted
  <2>5. OwnerInv'
    BY <1>1, <1>2, <2>1, WorkerKeeps
  <2>6. QED BY <2>3, <2>4, <2>5 DEF PortInv
<1>3. CASE CountIn(w)
  <2>1. CountIsExact' /\ operations' \in [Owner -> Nat]
    BY <1>1, <1>3, ComesIn
  <2>2. NoWorkAfterStop'
    BY <1>1, <1>3 DEF NoWorkAfterStop, CountIn
  <2>3. QED BY <1>1, <1>3, <2>1, <2>2, WorkerKeeps DEF PortInv
<1>4. CASE LookAtEnd(w)
  <2>1. CASE Ended(callee[w])
    <3>1. CountIsExact' /\ operations' \in [Owner -> Nat]
      BY <1>1, <1>4, <2>1, GoesOut DEF LookAtEnd, Counted
    <3>2. NoWorkAfterStop'
      BY <1>1, <1>4, <2>1 DEF NoWorkAfterStop, LookAtEnd
    <3>3. QED BY <1>1, <1>4, <3>1, <3>2, WorkerKeeps DEF PortInv
  <2>2. CASE ~Ended(callee[w])
    <3>1. /\ operations' = operations /\ server' = server /\ callee' = callee
          /\ worker[w] = "counted" /\ worker' = [worker EXCEPT ![w] = "working"]
      BY <1>4, <2>2 DEF LookAtEnd
    <3>2. CountIsExact'
      BY <1>1, <3>1, SameCount DEF Counted
    <3>3. NoWorkAfterStop'
      BY <1>1, <2>2, <3>1 DEF NoWorkAfterStop, Ended
    <3>4. QED BY <1>1, <1>4, <3>1, <3>2, <3>3, WorkerKeeps DEF PortInv
  <2>3. QED BY <2>1, <2>2
<1>5. CASE Work(w)
  <2>1. CountIsExact' /\ operations' \in [Owner -> Nat]
    BY <1>1, <1>5, GoesOut DEF Work, Counted
  <2>2. NoWorkAfterStop'
    BY <1>1, <1>5 DEF NoWorkAfterStop, Work
  <2>3. QED BY <1>1, <1>5, <2>1, <2>2, WorkerKeeps DEF PortInv
<1>6. QED BY <1>2, <1>3, <1>4, <1>5

\* Only the end of the wait makes a server "stopped", and then its count is 0.
LEMMA ServerCounts ==
  ASSUME PortInv, NEW o \in Owner,
         \/ EmplaceHandler(o) \/ Associated(o) \/ AssociateFails(o)
         \/ SetEnd(o) \/ Unregister(o) \/ StopEndsFor(o)
  PROVE  PortInv'
<1>1. OwnerInv /\ CountIsExact /\ NoWorkAfterStop /\ OwnerInv'
  BY ServerKeeps DEF PortInv
<1>2. operations' = operations /\ worker' = worker /\ callee' = callee
  BY DEF EmplaceHandler, Associated, AssociateFails, SetEnd, Unregister, StopEndsFor
<1>3. CountIsExact'
  BY <1>1, <1>2, SameCount
<1>4. CASE StopEndsFor(o)
  <2>1. Inside(o) = {}
    BY <1>1, <1>4, InsideIsFinite, FS_EmptySet DEF StopEndsFor, Quiet, CountIsExact
  <2>2. \A w \in Worker : worker[w] = "working" => callee[w] # o
    BY <2>1 DEF Inside, Counted
  <2>3. NoWorkAfterStop'
    BY <1>1, <1>2, <1>4, <2>2 DEF NoWorkAfterStop, StopEndsFor, OwnerInv, PortTypeOK
  <2>4. QED BY <1>1, <1>3, <2>3 DEF PortInv
<1>5. CASE ~StopEndsFor(o)
  <2>1. \A q \in Owner : server'[q] = "stopped" => server[q] = "stopped"
    BY <1>1, <1>5
    DEF EmplaceHandler, Associated, AssociateFails, SetEnd, Unregister, OwnerInv, PortTypeOK
  <2>2. \A w \in Worker : worker[w] = "working" => callee[w] \in Owner
    BY <1>1, TakeFacts DEF WithCallee
  <2>3. NoWorkAfterStop'
    BY <1>1, <1>2, <2>1, <2>2 DEF NoWorkAfterStop
  <2>4. QED BY <1>1, <1>3, <2>3 DEF PortInv
<1>6. QED BY <1>4, <1>5

LEMMA PoolCounts ==
  ASSUME PortInv, StartPool \/ StartPoolFails \/ StopPool
  PROVE  PortInv'
<1>1. OwnerInv /\ CountIsExact /\ NoWorkAfterStop /\ OwnerInv'
  BY PoolKeeps DEF PortInv
<1>2. operations' = operations /\ server' = server /\ callee' = callee
  BY DEF StartPool, StartPoolFails, StopPool
<1>3. \A w \in Worker : /\ worker'[w] \in Counted <=> worker[w] \in Counted
                        /\ worker'[w] = "working" => worker[w] = "working"
  BY <1>1 DEF StartPool, StartPoolFails, StopPool, Counted
<1>4. CountIsExact'
  BY <1>1, <1>2, <1>3, SameCount
<1>5. NoWorkAfterStop'
  BY <1>1, <1>2, <1>3 DEF NoWorkAfterStop
<1>6. QED BY <1>1, <1>4, <1>5 DEF PortInv

-----------------------------------------------------------------------------
(* Theorems *)

LEMMA PortStep == PortInv /\ [PortNext]_portVars => PortInv'
<1>1. ASSUME PortInv, UNCHANGED portVars PROVE PortInv'
  <2>1. OwnerInv' /\ CountIsExact'
    BY <1>1, OwnerStutters, SameCount DEF PortInv, portVars
  <2>2. QED BY <1>1, <2>1 DEF PortInv, NoWorkAfterStop, portVars
<1>2. ASSUME PortInv, NEW c \in opened, Completes(c) PROVE PortInv'
  <2>1. OwnerInv' /\ CountIsExact'
    BY <1>2, CompletesKeeps, SameCount DEF PortInv, Completes
  <2>2. QED BY <1>2, <2>1 DEF PortInv, NoWorkAfterStop, Completes
<1>3. QED BY <1>1, <1>2, PoolCounts, WorkerCounts, ServerCounts DEF PortNext

LEMMA PortInvAlways == PortSpec => []PortInv
<1>1. PortInit => PortInv
  BY OwnerInit, CountInit DEF PortInv
<1>2. QED BY <1>1, PortStep, PTL DEF PortSpec

\* tcp_proxy_server::stop: when the wait for active_iocp_operations_ has ended
\* no worker is at work in the sessions of the server, for any number of
\* workers that have copied its handler before it was taken away.
THEOREM StopAwaitsItsWork == PortSpec => []NoWorkAfterStop
<1>1. PortInv => NoWorkAfterStop
  BY DEF PortInv
<1>2. QED BY <1>1, PortInvAlways, PTL

\* The types of the port: who holds a key, or a completion of one, is known.
THEOREM PortTypes == PortSpec => []PortTypeOK
<1>1. PortInv => PortTypeOK
  BY DEF PortInv, OwnerInv
<1>2. QED BY <1>1, PortInvAlways, PTL

\* io_completion_port: a completion is worked on by the server its socket was
\* opened for, however often servers start, fail and stop.
THEOREM CompletionsFindTheirServer == PortSpec => []HandledByItsServer
<1>1. PortInv => HandledByItsServer
  BY DEF PortInv, OwnerInv, CalleeIsOwner, WithCallee, HandledByItsServer
<1>2. QED BY <1>1, PortInvAlways, PTL

------------------------------------------------------------------------------
\* The relay of one connection.

\* The position i of a ring that is counted on behind its end.
RingPlace(i) == IF i >= Size THEN i - Size ELSE i

\* One direction of an open relay that holds h bytes, by its values: rb, rl and
\* sb, sl are positions and lengths of receive and send.  The receive begins
\* behind the bytes that are held and ends before them; what is being sent is
\* the first of them.
Regions(rb, rl, sb, sl, h) ==
  /\ rb \in 0 .. Size - 1 /\ sb \in 0 .. Size - 1
  /\ rl \in 0 .. Size /\ sl \in 0 .. Size
  /\ h \in 0 .. Size
  /\ rb = RingPlace(sb + h)
  /\ rb + rl <= Size /\ rl <= Size - h /\ (rl = 0 => h = Size)
  /\ sb + sl <= Size /\ sl <= h /\ (sl = 0 => h = 0)

\* The bytes after the first dl, up to tk, lie in the ring rg from sb on.
Contents(sb, tk, dl, rg) ==
  \A k \in 0 .. tk - dl - 1 : rg[RingPlace(sb + k)] = dl + 1 + k

Lane(rb, rl, sb, sl, tk, dl, rg) ==
  /\ tk \in Nat /\ dl \in Nat
  /\ Regions(rb, rl, sb, sl, tk - dl)
  /\ Contents(sb, tk, dl, rg)

\* What the ring becomes when n bytes arrive from rb on.
FilledFrom(fl, rg, rb, tk, n) ==
  \A i \in 0 .. Size - 1 :
    fl[i] = IF i \in rb .. rb + n - 1 THEN tk + 1 + (i - rb) ELSE rg[i]

\* What a receive of n bytes makes of a direction.
LEMMA LaneReceives ==
  ASSUME NEW rb, NEW rl, NEW sb, NEW sl, NEW tk, NEW dl, NEW rg,
         Lane(rb, rl, sb, sl, tk, dl, rg), NEW n \in 1 .. rl,
         NEW filled, FilledFrom(filled, rg, rb, tk, n),
         NEW l, l = IF sl = 0 THEN n ELSE sl,
         NEW r, r = RegionAfter(rb + n, sb)
  PROVE  Lane(r[1], r[2], sb, l, tk + n, dl, filled)
<1>1. /\ r[1] \in 0 .. Size - 1 /\ r[2] \in 0 .. Size
      /\ r[1] = RingPlace(sb + (tk + n - dl))
      /\ r[1] + r[2] <= Size /\ r[2] <= Size - (tk + n - dl)
      /\ r[2] = 0 => tk + n - dl = Size
      /\ tk + n - dl \in 1 .. Size
      /\ sb + l <= Size
      /\ l \in 1 .. tk + n - dl
  BY SizeAssumption DEF Lane, Regions, RingPlace, RegionAfter
<1>2. ASSUME NEW k \in 0 .. (tk + n - dl) - 1
      PROVE  filled[RingPlace(sb + k)] = dl + 1 + k
  <2>1. RingPlace(sb + k) \in 0 .. Size - 1
    BY <1>1, SizeAssumption DEF Lane, Regions, RingPlace
  <2>2. CASE k <= (tk - dl) - 1
    <3>1. RingPlace(sb + k) \notin rb .. rb + n - 1
      BY <1>1, <2>1, <2>2, SizeAssumption DEF Lane, Regions, RingPlace
    <3>2. filled[RingPlace(sb + k)] = rg[RingPlace(sb + k)]
      BY <2>1, <3>1 DEF FilledFrom
    <3>3. QED BY <2>2, <3>2 DEF Lane, Contents
  <2>3. CASE k >= tk - dl
    <3> DEFINE i == RingPlace(sb + k)
    <3>1. i = rb + (k - (tk - dl)) /\ k - (tk - dl) \in 0 .. n - 1
      BY <1>1, <2>3, SizeAssumption DEF Lane, Regions, RingPlace
    <3>2. i \in rb .. rb + n - 1 /\ i \in 0 .. Size - 1 /\ i - rb = k - (tk - dl)
      BY <2>1, <3>1, SizeAssumption DEF Lane, Regions
    <3> HIDE DEF i
    <3>3. filled[i] = tk + 1 + (i - rb)
      BY <3>2 DEF FilledFrom
    <3>4. filled[i] = dl + 1 + k
      BY <3>2, <3>3, <1>1 DEF Lane, Regions
    <3>5. QED BY <3>4 DEF i
  <2>4. QED BY <1>1, <2>2, <2>3 DEF Lane, Regions
<1>3. Regions(r[1], r[2], sb, l, tk + n - dl)
  BY <1>1 DEF Regions, Lane
<1>4. tk \in Nat /\ dl \in Nat /\ n \in Nat /\ tk + n \in Nat
  BY DEF Lane, Regions
<1>5. Contents(sb, tk + n, dl, filled)
  BY <1>2, <1>4 DEF Contents
<1>6. QED BY <1>3, <1>4, <1>5 DEF Lane

\* What a send of n bytes makes of it: the receive goes on where it is, or
\* starts anew in the part of a full ring that has been sent.
LEMMA LaneSends ==
  ASSUME NEW rb, NEW rl, NEW sb, NEW sl, NEW tk, NEW dl, NEW rg,
         Lane(rb, rl, sb, sl, tk, dl, rg), NEW n \in 1 .. sl,
         NEW s, s = Wrap(sb + n),
         NEW ready, ready = IF s = rb THEN 0 ELSE ReadyFrom(s, rb),
         NEW l, l = IF rl = 0 THEN n ELSE rl
  PROVE  /\ rl = 0 => rb = sb
         /\ Lane(rb, l, s, ready, tk, dl + n, rg)
<1> DEFINE h == tk - (dl + n)
<1>1. /\ s \in 0 .. Size - 1 /\ ready \in 0 .. Size
      /\ rl = 0 => rb = sb
      /\ h \in 0 .. Size - 1
      /\ rb = RingPlace(s + h)
      /\ s + ready <= Size /\ ready <= h
      /\ ready = 0 => h = 0
      /\ rb + l <= Size
      /\ l \in 1 .. Size - h
  BY SizeAssumption DEF Lane, Regions, RingPlace, Wrap, ReadyFrom
<1>2. ASSUME NEW k \in 0 .. h - 1
      PROVE  rg[RingPlace(s + k)] = dl + n + 1 + k
  <2>1. k + n \in 0 .. tk - dl - 1 /\ RingPlace(s + k) = RingPlace(sb + (k + n))
    BY <1>1, SizeAssumption DEF Lane, Regions, RingPlace, Wrap
  <2>2. QED BY <2>1 DEF Lane, Contents
<1>3. Regions(rb, l, s, ready, h)
  BY <1>1, SizeAssumption DEF Regions, Lane
<1>4. Contents(s, tk, dl + n, rg)
  BY <1>2 DEF Contents
<1>5. tk \in Nat /\ dl + n \in Nat
  BY DEF Lane, Regions
<1>6. QED BY <1>1, <1>3, <1>4, <1>5 DEF Lane

----------------------------------------------------------------------------
\* The bytes that are being sent are the next ones to be delivered.
Pending(d) ==
  writing[d] # 0 =>
    /\ sendBuf[d] + writing[d] <= Size
    /\ \A k \in 0 .. writing[d] - 1 : ring[d][sendBuf[d] + k] = delivered[d] + 1 + k

\* A direction of an open relay, its outstanding receive and send.
Open(d) ==
  /\ Lane(recvBuf[d], recvLen[d], sendBuf[d], sendLen[d], taken[d], delivered[d], ring[d])
  /\ writing[d] = sendLen[d]
  /\ reading[d] \in {0, recvLen[d]}
  /\ \/ reading[d] = recvLen[d]
     \/ phase = "negotiated"
     \/ phase = "localPosted" /\ d = "in"

\* Both sockets go at once, and with them the connection.
SocketsAgree ==
  \/ valid = Side /\ status = "established"
  \/ valid = {} /\ status = "completed"

RelayInv ==
  /\ RelayTypeOK
  /\ SocketsAgree
  /\ \A d \in Direction : Pending(d) /\ (status = "established" => Open(d))

LEMMA LanePending ==
  ASSUME NEW rb, NEW rl, NEW sb, NEW sl, NEW tk, NEW dl, NEW rg,
         Lane(rb, rl, sb, sl, tk, dl, rg)
  PROVE  /\ sb + sl <= Size
         /\ \A k \in 0 .. sl - 1 : rg[sb + k] = dl + 1 + k
<1>1. sb + sl <= Size /\ sl <= tk - dl
  BY DEF Lane, Regions
<1>2. ASSUME NEW k \in 0 .. sl - 1
      PROVE  rg[sb + k] = dl + 1 + k
  <2>1. RingPlace(sb + k) = sb + k /\ k \in 0 .. tk - dl - 1
    BY <1>1, SizeAssumption DEF Lane, Regions, RingPlace
  <2>2. QED BY <2>1 DEF Lane, Contents
<1>3. QED BY <1>1, <1>2

\* Closing both sides, whatever the rest of the step does.
LEMMA ClosesRelay ==
  ASSUME SocketsAgree, closes \in [Side -> Nat], CloseBoth
  PROVE  /\ SocketsAgree' /\ status' = "completed"
         /\ valid' \in SUBSET Side /\ closes' \in [Side -> Nat]
BY DEF SocketsAgree, CloseBoth, Side

LEMMA RelayInitially == RelayInit => RelayInv
<1> SUFFICES ASSUME RelayInit PROVE RelayInv
  OBVIOUS
<1>1. RelayTypeOK
  <2>1. ring \in [Direction -> [0 .. Size - 1 -> Nat]]
    BY DEF RelayInit
  <2>2. /\ recvBuf \in [Direction -> 0 .. Size - 1] /\ recvLen \in [Direction -> 0 .. Size]
        /\ sendBuf \in [Direction -> 0 .. Size - 1] /\ sendLen \in [Direction -> 0 .. Size]
        /\ reading \in [Direction -> 0 .. Size] /\ writing \in [Direction -> 0 .. Size]
    BY SizeAssumption DEF RelayInit
  <2>3. QED BY <2>1, <2>2 DEF RelayInit, RelayTypeOK
<1>2. ASSUME NEW d \in Direction PROVE Pending(d) /\ Open(d)
  BY SizeAssumption DEF RelayInit, Pending, Open, Lane, Regions, Contents, RingPlace, Direction
<1>3. SocketsAgree
  BY DEF RelayInit, SocketsAgree
<1>4. QED BY <1>1, <1>2, <1>3 DEF RelayInv

\* What leaves the lanes alone and posts nothing keeps what is known of them.
LEMMA Stays ==
  ASSUME RelayInv,
         UNCHANGED <<recvBuf, sendBuf, ring, taken, delivered>>,
         NEW d \in Direction,
         writing'[d] \in {0, writing[d]},
         \/ status' = "completed"
         \/ /\ status' = status /\ UNCHANGED <<recvLen, sendLen, writing>>
            /\ \/ reading'[d] = recvLen'[d]
               \/ reading'[d] = reading[d] /\ phase' = phase
               \/ /\ reading'[d] = reading[d] /\ d = "in"
                  /\ phase = "negotiated" /\ phase' = "localPosted"
  PROVE  Pending(d)' /\ (status' = "established" => Open(d)')
BY DEF RelayInv, RelayTypeOK, Pending, Open

\* A step that closes, and keeps the bytes and the promises of their posts.
LEMMA ClosedKeeps ==
  ASSUME RelayInv, SocketsAgree', status' = "completed",
         closes' \in [Side -> Nat],
         UNCHANGED <<recvBuf, sendBuf, ring, taken, delivered>>,
         recvLen' \in [Direction -> 0 .. Size], sendLen' \in [Direction -> 0 .. Size],
         reading' \in [Direction -> 0 .. Size], writing' \in [Direction -> 0 .. Size],
         phase' \in {"negotiated", "localPosted", "relaying", "removed"},
         idle' \in BOOLEAN,
         \A d \in Direction : writing'[d] \in {0, writing[d]}
  PROVE  RelayInv'
<1>1. RelayTypeOK'
  BY DEF RelayInv, RelayTypeOK, SocketsAgree, Side
<1>2. \A d \in Direction : Pending(d)' /\ (status' = "established" => Open(d)')
  BY Stays
<1>3. QED BY <1>1, <1>2 DEF RelayInv

LEMMA StartLocalKeeps == RelayInv /\ StartLocal => RelayInv'
<1> SUFFICES ASSUME RelayInv, StartLocal PROVE RelayInv'
  OBVIOUS
<1> USE DEF RelayInv
<1>1. CASE /\ "local" \in valid /\ KeepOpen /\ UNCHANGED recvLen
           /\ phase' = "localPosted"
           /\ reading' = [reading EXCEPT !["out"] = recvLen["out"]]
  <2>2. /\ phase = "negotiated"
        /\ UNCHANGED <<recvBuf, sendBuf, sendLen, ring, writing, taken, delivered, idle>>
    BY DEF StartLocal
  <2>3. reading' \in [Direction -> 0 .. Size]
    BY <1>1 DEF RelayTypeOK, Direction
  <2>4. RelayTypeOK' /\ SocketsAgree'
    BY <1>1, <2>2, <2>3 DEF RelayTypeOK, SocketsAgree, KeepOpen
  <2>5. ASSUME NEW d \in Direction
        PROVE  Pending(d)' /\ (status' = "established" => Open(d)')
    <3>1. \/ reading'[d] = recvLen'[d]
          \/ d = "in" /\ reading'[d] = reading[d]
      BY <1>1, <2>2 DEF RelayTypeOK, Direction
    <3>2. QED BY <1>1, <2>2, <3>1, Stays DEF KeepOpen
  <2>6. QED BY <2>4, <2>5
<1>2. CASE /\ CloseBoth /\ UNCHANGED reading
           /\ phase' = "relaying" /\ recvLen' = [d \in Direction |-> 0]
  <2>1. SocketsAgree' /\ status' = "completed" /\ closes' \in [Side -> Nat]
    BY <1>2, ClosesRelay DEF RelayTypeOK
  <2>2. recvLen' \in [Direction -> 0 .. Size]
    BY <1>2, SizeAssumption
  <2>3. QED BY <1>2, <2>1, <2>2, ClosedKeeps DEF StartLocal, RelayTypeOK
<1>3. QED BY <1>1, <1>2 DEF StartLocal

LEMMA StartRemoteKeeps == RelayInv /\ StartRemote => RelayInv'
<1> SUFFICES ASSUME RelayInv, StartRemote PROVE RelayInv'
  OBVIOUS
<1> USE DEF RelayInv
<1>1. CASE /\ KeepOpen /\ UNCHANGED recvLen
           /\ reading' = [reading EXCEPT !["in"] = recvLen["in"]]
  <2>1. /\ phase = "localPosted" /\ phase' = "relaying"
        /\ UNCHANGED <<recvBuf, sendBuf, sendLen, ring, writing, taken, delivered, idle>>
    BY DEF StartRemote
  <2>2. reading' \in [Direction -> 0 .. Size]
    BY <1>1 DEF RelayTypeOK, Direction
  <2>3. RelayTypeOK' /\ SocketsAgree'
    BY <1>1, <2>1, <2>2 DEF RelayTypeOK, SocketsAgree, KeepOpen
  <2>4. ASSUME NEW d \in Direction
        PROVE  Pending(d)' /\ (status' = "established" => Open(d)')
    <3>1. CASE reading'[d] = recvLen'[d]
      BY <1>1, <2>1, <3>1, Stays DEF KeepOpen
    <3>2. CASE reading'[d] # recvLen'[d]
      <4>1. d = "out" /\ reading[d] # recvLen[d]
        BY <1>1, <3>2 DEF RelayTypeOK, Direction
      <4>2. status # "established"
        BY <2>1, <4>1 DEF Open
      <4>3. QED BY <1>1, <2>1, <2>3, <4>2, Stays DEF SocketsAgree, KeepOpen
    <3>3. QED BY <3>1, <3>2
  <2>5. QED BY <2>3, <2>4
<1>2. CASE /\ recvLen' = [recvLen EXCEPT !["in"] = 0] /\ valid' = {}
           /\ closes' = [s \in Side |-> CASE s \notin valid -> closes[s]
                                          [] s = "local"    -> closes[s] + 2
                                          [] OTHER          -> closes[s] + 1]
           /\ status' = IF "remote" \in valid THEN "completed" ELSE status
           /\ UNCHANGED reading
  <2>1. SocketsAgree' /\ status' = "completed"
    BY <1>2 DEF SocketsAgree, Side
  <2>2. closes' \in [Side -> Nat]
    <3>1. ASSUME NEW s \in Side
          PROVE  (CASE s \notin valid -> closes[s]
                    [] s = "local"    -> closes[s] + 2
                    [] OTHER          -> closes[s] + 1) \in Nat
      BY DEF RelayTypeOK
    <3>2. QED BY <1>2, <3>1
  <2>3. recvLen' \in [Direction -> 0 .. Size]
    <3>1. 0 \in 0 .. Size /\ recvLen \in [Direction -> 0 .. Size]
      BY SizeAssumption DEF RelayTypeOK
    <3>2. QED BY <1>2, <3>1
  <2>4. QED BY <1>2, <2>1, <2>2, <2>3, ClosedKeeps DEF StartRemote, RelayTypeOK
<1>3. QED BY <1>1, <1>2 DEF StartRemote

LEMMA EndsKeep ==
  ASSUME RelayInv, NEW d \in Direction, ReceiveEnds(d) \/ SendEnds(d)
  PROVE  RelayInv'
<1> USE DEF RelayInv
<1>1. SocketsAgree' /\ status' = "completed" /\ closes' \in [Side -> Nat]
  BY ClosesRelay DEF RelayTypeOK, ReceiveEnds, SendEnds
<1>2. /\ recvLen' \in [Direction -> 0 .. Size] /\ sendLen' \in [Direction -> 0 .. Size]
      /\ reading' \in [Direction -> 0 .. Size] /\ writing' \in [Direction -> 0 .. Size]
      /\ \A e \in Direction : writing'[e] \in {0, writing[e]}
  <2>1. /\ 0 \in 0 .. Size
        /\ recvLen \in [Direction -> 0 .. Size] /\ sendLen \in [Direction -> 0 .. Size]
        /\ reading \in [Direction -> 0 .. Size] /\ writing \in [Direction -> 0 .. Size]
    BY SizeAssumption DEF RelayTypeOK
  <2>2. CASE ReceiveEnds(d)
    BY <2>1, <2>2 DEF ReceiveEnds
  <2>3. CASE SendEnds(d)
    BY <2>1, <2>3 DEF SendEnds
  <2>4. QED BY <2>2, <2>3
<1>3. /\ UNCHANGED <<recvBuf, sendBuf, ring, taken, delivered>>
      /\ UNCHANGED <<phase, idle>>
  BY DEF ReceiveEnds, SendEnds
<1>4. QED BY <1>1, <1>2, <1>3, ClosedKeeps DEF RelayTypeOK

LEMMA RemovalKeeps ==
  ASSUME RelayInv, RemoveSession \/ IdleClose \/ HourPasses
  PROVE  RelayInv'
<1> USE DEF RelayInv
<1>1. CASE RemoveSession
  <2>1. /\ recvLen' \in [Direction -> 0 .. Size] /\ sendLen' \in [Direction -> 0 .. Size]
        /\ SocketsAgree' /\ status' = "completed"
    BY <1>1, SizeAssumption DEF RemoveSession, SocketsAgree, Side
  <2>2. QED BY <1>1, <2>1, ClosedKeeps DEF RemoveSession, RelayTypeOK
<1>2. CASE IdleClose
  <2>1. SocketsAgree' /\ status' = "completed" /\ closes' \in [Side -> Nat]
    BY <1>2, ClosesRelay DEF RelayTypeOK, IdleClose
  <2>2. sendLen' \in [Direction -> 0 .. Size]
    BY <1>2, SizeAssumption DEF IdleClose
  <2>3. QED BY <1>2, <2>1, <2>2, ClosedKeeps DEF IdleClose, RelayTypeOK
<1>3. CASE HourPasses
  BY <1>3 DEF HourPasses, buffers, RelayTypeOK, SocketsAgree, Pending, Open
<1>4. QED BY <1>1, <1>2, <1>3

----------------------------------------------------------------------------
\* A receive of n bytes in an open relay.
LEMMA ReceivedKeeps ==
  ASSUME RelayInv, status = "established", NEW d \in Direction,
         NEW n \in 1 .. reading[d], NEW sent \in BOOLEAN, NEW more \in BOOLEAN,
         Received(d, n, sent, more),
         idle' = FALSE, UNCHANGED <<phase, delivered>>
  PROVE  RelayInv'
<1> USE DEF RelayInv
<1> DEFINE rb == recvBuf[d]
           rl == recvLen[d]
           sb == sendBuf[d]
           sl == sendLen[d]
           tk == taken[d]
           dl == delivered[d]
           rg == ring[d]
           r  == RegionAfter(rb + n, sb)
<1>1. /\ Pending(d) /\ Open(d)
      /\ rb \in 0 .. Size - 1 /\ rl \in 0 .. Size
      /\ sb \in 0 .. Size - 1 /\ sl \in 0 .. Size
      /\ tk \in Nat /\ dl \in Nat
      /\ rg \in [0 .. Size - 1 -> Nat]
      /\ n \in 1 .. rl
      /\ Lane(rb, rl, sb, sl, tk, dl, rg)
  BY DEF RelayTypeOK, Open
<1>2. ring' = Fill(d, n) /\ taken' = [taken EXCEPT ![d] = @ + n]
  BY DEF Received
<1> DEFINE filled == [i \in 0 .. Size - 1 |->
                        IF i \in rb .. rb + n - 1 THEN tk + 1 + (i - rb) ELSE rg[i]]
<1>3. ring' = [ring EXCEPT ![d] = filled]
  BY <1>2 DEF Fill
<1> HIDE DEF rb, rl, sb, sl, tk, dl, rg, r
<1>4. filled \in [0 .. Size - 1 -> Nat]
  <2>1. ASSUME NEW i \in 0 .. Size - 1
        PROVE  (IF i \in rb .. rb + n - 1 THEN tk + 1 + (i - rb) ELSE rg[i]) \in Nat
    BY <1>1, SizeAssumption
  <2>2. QED BY <2>1
<1>5. FilledFrom(filled, rg, rb, tk, n)
  BY DEF FilledFrom
<1> HIDE DEF filled
<1>6. Lane(r[1], r[2], sb, IF sl = 0 THEN n ELSE sl, tk + n, dl, filled)
  BY <1>1, <1>5, LaneReceives DEF r
<1>7. sl = 0 => rb = sb
  BY <1>1, SizeAssumption DEF Lane, Regions, RingPlace
<1> HIDE DEF r
<1>8. /\ recvBuf' = [recvBuf EXCEPT ![d] = r[1]]
      /\ sendBuf' = [sendBuf EXCEPT ![d] = sb]
  BY <1>7 DEF Received, r, sb, rb, sl
<1>9. /\ sendLen' = [sendLen EXCEPT ![d] = IF sl # 0 THEN sl ELSE IF sent THEN n ELSE 0]
       /\ writing' = [writing EXCEPT ![d] = IF sl = 0 /\ sent THEN n ELSE @]
       /\ recvLen' = [recvLen EXCEPT ![d] = IF r[2] # 0 /\ more THEN r[2] ELSE 0]
       /\ reading' = [reading EXCEPT ![d] = IF r[2] # 0 /\ more THEN r[2] ELSE 0]
  BY <1>7 DEF Received, r, sb, rb, sl
<1>10. /\ SocketsAgree'
       /\ valid' \in SUBSET Side /\ closes' \in [Side -> Nat]
       /\ status' \in {"established", "completed"}
       /\ status' = "established" => (sl = 0 => sent) /\ (r[2] # 0 => more)
  <2>1. IF (sl = 0 /\ ~sent) \/ (r[2] # 0 /\ ~more) THEN CloseBoth ELSE KeepOpen
    BY <1>7 DEF Received, r, sb, rb, sl
  <2>2. QED BY <2>1, ClosesRelay DEF KeepOpen, SocketsAgree, RelayTypeOK
<1>11. RelayTypeOK'
  <2>1. /\ recvBuf' \in [Direction -> 0 .. Size - 1]
        /\ sendBuf' \in [Direction -> 0 .. Size - 1]
    BY <1>1, <1>6, <1>8 DEF RelayTypeOK, Lane, Regions
  <2>2. ring' \in [Direction -> [0 .. Size - 1 -> Nat]]
    BY <1>3, <1>4 DEF RelayTypeOK
  <2>3. n \in 0 .. Size /\ r[2] \in 0 .. Size /\ 0 \in 0 .. Size
    BY <1>1, <1>6, SizeAssumption DEF Lane, Regions
  <2>4. /\ recvLen' \in [Direction -> 0 .. Size] /\ sendLen' \in [Direction -> 0 .. Size]
        /\ reading' \in [Direction -> 0 .. Size] /\ writing' \in [Direction -> 0 .. Size]
    BY <1>1, <1>9, <2>3 DEF RelayTypeOK
  <2>5. taken' \in [Direction -> Nat]
    BY <1>2, <2>3 DEF RelayTypeOK
  <2>6. QED BY <1>10, <2>1, <2>2, <2>4, <2>5 DEF RelayTypeOK
<1>12. ASSUME NEW e \in Direction
       PROVE  Pending(e)' /\ (status' = "established" => Open(e)')
  <2>1. CASE e # d
    <3>1. /\ recvBuf'[e] = recvBuf[e] /\ sendBuf'[e] = sendBuf[e]
          /\ taken'[e] = taken[e] /\ ring'[e] = ring[e]
          /\ recvLen'[e] = recvLen[e] /\ sendLen'[e] = sendLen[e]
          /\ reading'[e] = reading[e] /\ writing'[e] = writing[e]
      BY <1>2, <1>3, <1>8, <1>9, <2>1 DEF RelayTypeOK
    <3>2. QED BY <3>1 DEF Pending, Open
  <2>2. CASE e = d
    <3>1. /\ recvBuf'[d] = r[1] /\ sendBuf'[d] = sb
          /\ taken'[d] = tk + n /\ ring'[d] = filled /\ delivered'[d] = dl
      BY <1>2, <1>3, <1>8 DEF RelayTypeOK, tk, dl
    <3>2. \/ writing'[d] = 0
          \/ writing'[d] = IF sl = 0 THEN n ELSE sl
      BY <1>1, <1>9 DEF Open, sl, RelayTypeOK
    <3>3. Pending(d)'
      BY <1>6, <3>1, <3>2, LanePending DEF Pending
    <3>4. ASSUME status' = "established"
          PROVE  Open(d)'
      <4>1. /\ sl = 0 => sent
            /\ r[2] # 0 => more
        BY <1>10, <3>4
      <4>2. /\ recvLen'[d] = r[2] /\ reading'[d] = r[2]
            /\ sendLen'[d] = IF sl = 0 THEN n ELSE sl
            /\ writing'[d] = IF sl = 0 THEN n ELSE sl
        BY <1>1, <1>9, <4>1 DEF Open, sl, RelayTypeOK
      <4>3. QED BY <1>6, <3>1, <4>2 DEF Open
    <3>5. QED BY <2>2, <3>3, <3>4
  <2>3. QED BY <2>1, <2>2
<1>13. QED BY <1>10, <1>11, <1>12

\* In a completed relay a receive only ends.
LEMMA ReceiveCompleteKeeps ==
  ASSUME RelayInv, NEW d \in Direction, ReceiveComplete(d)
  PROVE  RelayInv'
<1>1. PICK n \in 1 .. reading[d] :
        \/ /\ status = "established"
           /\ \E sent, more \in BOOLEAN : Received(d, n, sent, more)
        \/ /\ status = "completed"
           /\ recvLen' = [recvLen EXCEPT ![d] = 0]
           /\ reading' = [reading EXCEPT ![d] = 0]
           /\ KeepOpen
           /\ UNCHANGED <<recvBuf, sendBuf, sendLen, ring, writing, taken>>
  BY DEF ReceiveComplete
<1>2. idle' = FALSE /\ UNCHANGED <<phase, delivered>>
  BY DEF ReceiveComplete
<1>3. CASE status = "established"
  BY <1>1, <1>2, <1>3, ReceivedKeeps
<1>4. CASE status = "completed"
  <2>1. /\ recvLen' = [recvLen EXCEPT ![d] = 0] /\ reading' = [reading EXCEPT ![d] = 0]
        /\ UNCHANGED <<recvBuf, sendBuf, sendLen, ring, writing, taken>>
        /\ KeepOpen
    BY <1>1, <1>4
  <2>2. /\ 0 \in 0 .. Size
        /\ recvLen \in [Direction -> 0 .. Size] /\ reading \in [Direction -> 0 .. Size]
    BY SizeAssumption DEF RelayInv, RelayTypeOK
  <2>3. recvLen' \in [Direction -> 0 .. Size] /\ reading' \in [Direction -> 0 .. Size]
    BY <2>1, <2>2
  <2>4. QED BY <1>2, <1>4, <2>1, <2>3, ClosedKeeps
              DEF RelayInv, RelayTypeOK, SocketsAgree, KeepOpen
<1>5. QED BY <1>3, <1>4 DEF RelayInv, RelayTypeOK

\* A send of n bytes, in a relay that is open or not.
LEMMA SentKeeps ==
  ASSUME RelayInv, NEW d \in Direction,
         NEW n \in 1 .. writing[d], NEW sent \in BOOLEAN, NEW more \in BOOLEAN,
         Sent(d, n, more, sent),
         delivered' = [delivered EXCEPT ![d] = @ + n],
         idle' = FALSE, UNCHANGED <<ring, phase, taken>>
  PROVE  RelayInv'
<1> USE DEF RelayInv
<1> DEFINE rb == recvBuf[d]
           rl == recvLen[d]
           sb == sendBuf[d]
           s  == Wrap(sb + n)
           ready == IF s = rb THEN 0 ELSE ReadyFrom(s, rb)
<1>1. /\ Pending(d)
      /\ rb \in 0 .. Size - 1 /\ rl \in 0 .. Size /\ sb \in 0 .. Size - 1
      /\ writing[d] \in 0 .. Size /\ n \in 0 .. Size
      /\ s \in 0 .. Size - 1
  <2>1. /\ Pending(d)
        /\ rb \in 0 .. Size - 1 /\ rl \in 0 .. Size /\ sb \in 0 .. Size - 1
        /\ writing[d] \in 0 .. Size
    BY DEF RelayTypeOK
  <2>2. n \in 0 .. Size /\ writing[d] # 0
    BY <2>1, SizeAssumption
  <2>3. s \in 0 .. Size - 1
    BY <2>1, <2>2, SizeAssumption DEF Pending, Wrap
  <2>4. QED BY <2>1, <2>2, <2>3
<1>2. status = "established" =>
        /\ rl = 0 => rb = sb
        /\ Lane(rb, IF rl = 0 THEN n ELSE rl, s, ready, taken[d], delivered[d] + n, ring[d])
  <2>1. ASSUME status = "established"
        PROVE  /\ Lane(rb, rl, sb, sendLen[d], taken[d], delivered[d], ring[d])
               /\ n \in 1 .. sendLen[d]
    BY <2>1 DEF Open
  <2>2. QED BY <2>1, LaneSends
<1>3. status = "completed" => ~more /\ ~sent
  BY DEF Sent, Starved, SocketsAgree
<1>4. recvBuf' = recvBuf
  BY <1>2 DEF Sent, Starved, RelayTypeOK
<1>5. more => rl = 0
  BY DEF Sent, Starved
<1>6. status = "established" /\ sent => ready # 0
  BY <1>2 DEF Sent, Starved
<1>7. /\ sendBuf' = [sendBuf EXCEPT ![d] = s]
      /\ recvLen' = [recvLen EXCEPT ![d] = IF more THEN n ELSE @]
      /\ reading' = [reading EXCEPT ![d] = IF more THEN n ELSE @]
      /\ sendLen' = [sendLen EXCEPT ![d] = IF sent THEN ready ELSE 0]
      /\ writing' = [writing EXCEPT ![d] = IF sent THEN ready ELSE 0]
  BY <1>2, <1>3 DEF Sent, Starved, RelayTypeOK
<1>8. /\ SocketsAgree'
      /\ valid' \in SUBSET Side /\ closes' \in [Side -> Nat]
      /\ status' \in {"established", "completed"}
      /\ status' = "established" =>
            /\ status = "established" /\ (rl = 0 => more) /\ (ready # 0 => sent)
  <2>1. CASE status = "completed"
    BY <1>3, <2>1, ClosesRelay DEF Sent, SocketsAgree, RelayTypeOK
  <2>2. CASE status = "established"
    <3>1. IF (rl = 0 /\ ~more) \/ (ready # 0 /\ ~sent) THEN CloseBoth ELSE KeepOpen
      BY <1>2, <2>2 DEF Sent, Starved
    <3>2. QED BY <2>2, <3>1, ClosesRelay DEF KeepOpen, SocketsAgree, RelayTypeOK
  <2>3. QED BY <2>1, <2>2 DEF RelayTypeOK
<1> HIDE DEF rb, rl, sb, s, ready
<1>9. sent => ready \in 0 .. Size
  BY <1>2, <1>3 DEF Lane, Regions, RelayTypeOK
<1>10. RelayTypeOK'
  <2>1. sendBuf' \in [Direction -> 0 .. Size - 1]
    BY <1>1, <1>7 DEF RelayTypeOK
  <2>2. 0 \in 0 .. Size
    BY SizeAssumption
  <2>3. /\ recvLen' \in [Direction -> 0 .. Size] /\ sendLen' \in [Direction -> 0 .. Size]
        /\ reading' \in [Direction -> 0 .. Size] /\ writing' \in [Direction -> 0 .. Size]
    BY <1>1, <1>7, <1>9, <2>2 DEF RelayTypeOK
  <2>4. delivered' \in [Direction -> Nat]
    BY <1>1 DEF RelayTypeOK
  <2>5. QED BY <1>4, <1>8, <2>1, <2>3, <2>4 DEF RelayTypeOK
<1>11. ASSUME NEW e \in Direction
       PROVE  Pending(e)' /\ (status' = "established" => Open(e)')
  <2>1. CASE e # d
    <3>1. /\ recvBuf'[e] = recvBuf[e] /\ sendBuf'[e] = sendBuf[e]
          /\ delivered'[e] = delivered[e]
          /\ recvLen'[e] = recvLen[e] /\ sendLen'[e] = sendLen[e]
          /\ reading'[e] = reading[e] /\ writing'[e] = writing[e]
      BY <1>4, <1>7, <2>1 DEF RelayTypeOK
    <3>2. QED BY <1>8, <3>1 DEF Pending, Open
  <2>2. CASE e = d
    <3>1. /\ recvBuf'[d] = rb /\ sendBuf'[d] = s
          /\ delivered'[d] = delivered[d] + n
          /\ sendLen'[d] = (IF sent THEN ready ELSE 0)
          /\ writing'[d] = (IF sent THEN ready ELSE 0)
      BY <1>4, <1>7 DEF RelayTypeOK, rb
    <3>2. Pending(d)'
      BY <1>2, <1>3, <3>1, LanePending DEF Pending, RelayTypeOK
    <3>3. ASSUME status' = "established"
          PROVE  Open(d)'
      <4>1. status = "established" /\ (rl = 0 => more) /\ (ready # 0 => sent)
        BY <1>8, <3>3
      <4>2. /\ recvLen'[d] = (IF rl = 0 THEN n ELSE rl)
            /\ sendLen'[d] = ready /\ writing'[d] = ready
        BY <1>5, <1>7, <3>1, <4>1 DEF rl, RelayTypeOK
      <4>3. \/ reading'[d] = recvLen'[d]
            \/ reading'[d] = reading[d] /\ recvLen'[d] = recvLen[d]
        BY <1>7 DEF RelayTypeOK
      <4>4. Open(d)
        BY <4>1
      <4>5. QED BY <1>2, <3>1, <4>1, <4>2, <4>3, <4>4 DEF Open
    <3>4. QED BY <2>2, <3>2, <3>3
  <2>3. QED BY <2>1, <2>2
<1>12. QED BY <1>8, <1>10, <1>11

LEMMA RelayStepKeeps == RelayInv /\ [RelayNext]_relayVars => RelayInv'
<1> SUFFICES ASSUME RelayInv, [RelayNext]_relayVars PROVE RelayInv'
  OBVIOUS
<1>1. CASE StartLocal \/ StartRemote
  BY <1>1, StartLocalKeeps, StartRemoteKeeps
<1>2. ASSUME NEW d \in Direction,
             ReceiveComplete(d) \/ SendComplete(d) \/ ReceiveEnds(d) \/ SendEnds(d)
      PROVE  RelayInv'
  <2>1. CASE SendComplete(d)
    BY <2>1, SentKeeps DEF SendComplete
  <2>2. QED BY <1>2, <2>1, ReceiveCompleteKeeps, EndsKeep
<1>3. CASE RemoveSession \/ IdleClose \/ HourPasses
  BY <1>3, RemovalKeeps
<1>4. CASE UNCHANGED relayVars
  BY <1>4 DEF relayVars, buffers, RelayInv, RelayTypeOK, SocketsAgree, Pending, Open
<1>5. QED BY <1>1, <1>2, <1>3, <1>4 DEF RelayNext

\* The types of the relay's state, at every size of the buffers.
THEOREM RelayTypesHold == RelaySpec => []RelayTypeOK
<1>1. RelayInv => RelayTypeOK
  BY DEF RelayInv
<1>2. QED BY <1>1, RelayInitially, RelayStepKeeps, PTL DEF RelaySpec

\* What a send reports as gone is the next of the bytes that were received, for
\* every size of the buffers and every length of receives and sends.
THEOREM RelayDeliversInOrder == RelaySpec => RelayInOrder
<1> DEFINE Next == \A d \in Direction :
                     \A k \in 0 .. delivered'[d] - delivered[d] - 1 :
                       ring[d][sendBuf[d] + k] = delivered[d] + 1 + k
<1>1. ASSUME RelayInv, RelayNext PROVE Next
  <2>1. ASSUME NEW d \in Direction,
               NEW k \in 0 .. delivered'[d] - delivered[d] - 1
        PROVE  ring[d][sendBuf[d] + k] = delivered[d] + 1 + k
    <3>1. delivered \in [Direction -> Nat] /\ writing \in [Direction -> 0 .. Size]
      BY <1>1 DEF RelayInv, RelayTypeOK
    <3>2. delivered'[d] # delivered[d]
      BY <3>1
    <3>3. PICK e \in Direction : SendComplete(e)
      BY <1>1, <3>2 DEF RelayNext, StartLocal, StartRemote, ReceiveComplete,
         ReceiveEnds, SendEnds, RemoveSession, IdleClose, HourPasses
    <3>4. PICK n \in 1 .. writing[e] : delivered' = [delivered EXCEPT ![e] = @ + n]
      BY <3>3 DEF SendComplete
    <3>5. e = d /\ k \in 0 .. writing[d] - 1 /\ writing[d] # 0
      BY <3>1, <3>2, <3>4, SizeAssumption
    <3>6. QED BY <1>1, <3>5 DEF RelayInv, Pending
  <2>2. QED BY <2>1
<1>2. RelayInv /\ [RelayNext]_relayVars => [Next]_relayVars
  BY <1>1
<1>3. QED BY <1>2, RelayInitially, RelayStepKeeps, PTL DEF RelaySpec, RelayInOrder

\* An open relay never waits for itself.
THEOREM RelayNeverStalls == RelaySpec => []NeverStalls
<1>1. RelayInv => NeverStalls
  <2> SUFFICES ASSUME RelayInv, status = "established", Relaying, NEW d \in Direction
               PROVE  /\ Held(d) # 0 => writing[d] # 0
                      /\ phase = "relaying" => reading[d] # 0 \/ writing[d] # 0
    BY DEF NeverStalls
  <2>1. Open(d)
    BY DEF RelayInv
  <2>2. Held(d) # 0 => writing[d] # 0
    BY <2>1 DEF Open, Held
  <2>3. ASSUME phase = "relaying", reading[d] = 0 PROVE writing[d] # 0
    <3>1. recvLen[d] = 0
      BY <2>1, <2>3 DEF Open
    <3>2. sendLen[d] # 0
      BY <2>1, <3>1, SizeAssumption DEF Open, Lane, Regions
    <3>3. QED BY <2>1, <3>2 DEF Open
  <2>4. QED BY <2>2, <2>3
<1>2. QED BY <1>1, RelayInitially, RelayStepKeeps, PTL DEF RelaySpec
==============================================================================
