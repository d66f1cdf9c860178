---------------------------- MODULE OwnerResolver ----------------------------
(***************************************************************************)
(* owner_module_resolver: the name of the process behind a PID.  The cache *)
(* is keyed by PID, creation time and service tag; the identity is read    *)
(* with one handle and the image with another, opened later, and the PID   *)
(* may go to another process in between.                                   *)
(***************************************************************************)
EXTENDS Integers, Sequences

CONSTANTS
  Program,      \* processes: a PID with a creation time each
  Number,       \* PIDs
  NumberOf,
  Tag,          \* service tags of a row; NoTag for a row without
  NoTag,
  MaxCache,     \* max_cache_entries
  NoProgram

ASSUME NumberAssumption == NumberOf \in [Program -> Number]
ASSUME CacheAssumption  == MaxCache \in Nat \ {0}
ASSUME TagAssumption    == NoTag \in Tag
ASSUME NobodyAssumption == NoProgram \notin Program

VARIABLES
  running,   \* of a program: "new", "live" or "gone"
  cached,    \* get_cache(): its entries in the order of their timestamps
  expired,   \* how many of the first ones are older than five minutes
  cleanupDue,  \* ten minutes since get_last_cleanup()
  query,     \* the row that is resolved: its PID and tag, and what is known
  resolved   \* name of the row that was resolved last, and its identity

resolverVars == <<running, cached, expired, cleanupDue, query, resolved>>

TableRow  == [number: Number, tag: Tag]
Entry == [key: Program, tag: Tag, name: Program]

ResolverTypeOK ==
  /\ running \in [Program -> {"new", "live", "gone"}]
  /\ cached \in Seq(Entry) /\ Len(cached) <= MaxCache
  /\ expired \in 0 .. Len(cached)
  /\ cleanupDue \in BOOLEAN
  /\ query \in [row: TableRow, step: {"identify", "find", "image", "fallback"},
                identity: Program \cup {NoProgram}]
               \cup [row: TableRow, step: {"store"}, identity: Program, name: Program]
               \cup {NoProgram}
  /\ resolved \in [identity: Program, name: Program] \cup {NoProgram}

ResolverInit ==
  /\ running = [p \in Program |-> "new"]
  /\ cached = <<>> /\ expired = 0
  /\ cleanupDue = FALSE
  /\ query = NoProgram
  /\ resolved = NoProgram

----------------------------------------------------------------------------
(* The system *)

Launch(p) ==
  /\ running[p] = "new"
  /\ \A q \in Program : NumberOf[q] = NumberOf[p] => running[q] # "live"
  /\ running' = [running EXCEPT ![p] = "live"]
  /\ UNCHANGED <<cached, expired, cleanupDue, query, resolved>>

Terminate(p) ==
  /\ running[p] = "live"
  /\ running' = [running EXCEPT ![p] = "gone"]
  /\ UNCHANGED <<cached, expired, cleanupDue, query, resolved>>

FiveMinutes ==
  /\ expired < Len(cached)
  /\ expired' = expired + 1
  /\ UNCHANGED <<running, cached, cleanupDue, query, resolved>>

TenMinutes ==
  /\ ~cleanupDue /\ expired = Len(cached)
  /\ cleanupDue' = TRUE
  /\ UNCHANGED <<running, cached, expired, query, resolved>>

----------------------------------------------------------------------------
(* resolve_from_pid_and_tag *)

\* A row of the connection table; its owner may have gone already.
StartQuery(row) ==
  /\ query = NoProgram
  /\ query' = [row |-> row, step |-> "identify", identity |-> NoProgram]
  /\ resolved' = NoProgram
  /\ UNCHANGED <<running, cached, expired, cleanupDue>>

At(step) == query # NoProgram /\ query.step = step

\* What OpenProcess() of the PID gives a handle of.
Holder(number) == {p \in Program : running[p] = "live" /\ NumberOf[p] = number}

\* A process that cannot be opened is resolved without the cache.
Identify ==
  /\ At("identify")
  /\ \/ \E p \in Holder(query.row.number) :
          query' = [query EXCEPT !.step = "find", !.identity = p]
     \/ query' = [query EXCEPT !.step = "image"]
  /\ UNCHANGED <<running, cached, expired, cleanupDue, resolved>>

Answered(p, name) ==
  /\ query' = NoProgram
  /\ resolved' = [identity |-> p, name |-> name]

IsHit(i) ==
  /\ i > expired
  /\ cached[i].key = query.identity /\ cached[i].tag = query.row.tag

FindCached ==
  /\ At("find")
  /\ \/ \E i \in 1 .. Len(cached) :
          IsHit(i) /\ Answered(query.identity, cached[i].name)
     \/ /\ \A i \in 1 .. Len(cached) : ~IsHit(i)
        /\ query' = [query EXCEPT !.step = "image"]
        /\ UNCHANGED resolved
  /\ UNCHANGED <<running, cached, expired, cleanupDue>>

\* A row of a service falls back to the image when its tag is not known.
NotResolved ==
  /\ query' = IF query.row.tag = NoTag THEN NoProgram
              ELSE [row |-> [query.row EXCEPT !.tag = NoTag], step |-> "identify",
                    identity |-> NoProgram]
  /\ UNCHANGED resolved

\* resolve_by_process_image, resolve_by_service_tag: by the PID once more.
ReadImage ==
  /\ At("image")
  /\ \/ \E p \in Holder(query.row.number) :
          IF query.identity = NoProgram
          THEN Answered(p, p)
          ELSE /\ query' = [row |-> query.row, step |-> "store",
                            identity |-> query.identity, name |-> p]
               /\ UNCHANGED resolved
     \/ NotResolved
  /\ UNCHANGED <<running, cached, expired, cleanupDue>>

LateKey ==
  IF Holder(query.row.number) = {} THEN query.identity
  ELSE CHOOSE p \in Holder(query.row.number) : TRUE

\* The identity that was read before the image.
StoredKey == query.identity

SameKey(entry) == entry.key = StoredKey /\ entry.tag = query.row.tag

NewEntry == [key |-> StoredKey, tag |-> query.row.tag, name |-> query.name]

\* cleanup_cache_if_needed, before or after the assignment.
Cleaned == IF cleanupDue THEN SubSeq(cached, expired + 1, Len(cached)) ELSE cached
Stale   == IF cleanupDue THEN 0 ELSE expired

Full == Len(Cleaned) >= MaxCache

\* The entries but the one of the key, of which there is at most one.
Others(entries) ==
  LET i == IF \E k \in 1 .. Len(entries) : SameKey(entries[k])
           THEN CHOOSE k \in 1 .. Len(entries) : SameKey(entries[k]) ELSE 0
  IN  SubSeq(entries, 1, i - 1) \o SubSeq(entries, i + 1, Len(entries))

\* A full cache loses its oldest entry; an expired entry of the key is renewed.
Store ==
  /\ At("store")
  /\ LET kept    == IF Full THEN Tail(Cleaned) ELSE Cleaned
         old     == IF Full /\ Stale > 0 THEN Stale - 1 ELSE Stale
         renewed == \E i \in 1 .. Len(kept) : SameKey(kept[i])
     IN  /\ cached' = Append(Others(kept), NewEntry)
         /\ expired' = IF renewed THEN old - 1 ELSE old
  /\ cleanupDue' = FALSE
  /\ Answered(query.identity, query.name)
  /\ UNCHANGED running

----------------------------------------------------------------------------
ResolverNext ==
  \/ \E p \in Program : Launch(p) \/ Terminate(p)
  \/ \E row \in TableRow : StartQuery(row)
  \/ Identify \/ FindCached \/ ReadImage \/ Store
  \/ FiveMinutes \/ TenMinutes

ResolverSpec == ResolverInit /\ [][ResolverNext]_resolverVars

----------------------------------------------------------------------------
(* Properties *)

\* An entry never names another process than the one its key identifies as
\* long as that one can still be asked for: a PID that changes hands between
\* the two handles spoils only entries nobody can hit any more.
CacheNamesItsProgram ==
  \A i \in 1 .. Len(cached) :
    running[cached[i].key] = "live" => cached[i].name = cached[i].key

=============================================================================
