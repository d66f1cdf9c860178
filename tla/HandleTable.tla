----------------------------- MODULE HandleTable -----------------------------
(* A 32-bit process on a 64-bit system does not see the handles of the        *)
(* driver: it gets their places in a table. The table is one for all driver   *)
(* objects of the process; each fetches a list of the bound adapters and then *)
(* brings the table up to date with it, under a lock that does not cover the  *)
(* fetching.                                                                  *)
EXTENDS Naturals, Sequences
LOCAL INSTANCE SequencesExt

CONSTANTS
  Bound,           \* the handles that the driver may give an adapter
  Caller,          \* the driver objects of the process
  ListSize,        \* ADAPTER_LIST_SIZE: the most adapters the driver binds
  Free,            \* an entry that was never used
  MaxFetches       \* bound: lists that are fetched

ASSUME HandleTableAssumption ==
  /\ ListSize \in Nat \ {0} /\ MaxFetches \in Nat /\ Free \notin Bound

Place == 1 .. ListSize

VARIABLES
  present,      \* driver: the bound adapters, in the order of its list
  handle,       \* m_Handle32to64 from place 1
  filled,       \* m_Handle32to64[0] is set: the table was filled once
  fetched,      \* what each caller has fetched and not brought in yet
  fetches,      \* lists fetched so far; a list carries its number
  newest,       \* the number of the newest list that was brought in
  given,        \* the places of the adapters in that list, as first told
  disordered     \* a list was brought in after a newer one

handleVars == <<present, handle, filled, fetched, fetches, newest, given, disordered>>

NoList == [number |-> 0, adapters |-> <<>>]

HandleInit ==
  /\ present = <<>>
  /\ handle = [i \in Place |-> Free]
  /\ filled = FALSE
  /\ fetched = [c \in Caller |-> NoList]
  /\ fetches = 0 /\ newest = 0 /\ given = <<>> /\ disordered = FALSE

\* An adapter comes, at the end of the list, or goes.
Bind(x) ==
  /\ x \notin ToSet(present) /\ Len(present) < ListSize
  /\ present' = Append(present, x)
  /\ UNCHANGED <<handle, filled, fetched, fetches, newest, given, disordered>>

Unbind(x) ==
  /\ \E i \in DOMAIN present : present[i] = x /\ present' = RemoveAt(present, i)
  /\ UNCHANGED <<handle, filled, fetched, fetches, newest, given, disordered>>

\* The call of the driver in GetTcpipBoundAdaptersInfo
Fetch(c) ==
  /\ fetched[c] = NoList /\ fetches < MaxFetches
  /\ fetches' = fetches + 1
  /\ fetched' = [fetched EXCEPT ![c] = [number |-> fetches + 1, adapters |-> present]]
  /\ UNCHANGED <<present, handle, filled, newest, given, disordered>>

Vacant(h, adapters) == {i \in Place : h[i] \notin ToSet(adapters)}

\* Mutant: the first place is given away whatever it holds.
FirstPlace(h, adapters) == CHOOSE i \in Place : \A j \in Place : i <= j

\* The search stops at the first place whose handle is in no entry of the list,
\* but with a list of one entry it goes on to the last such place.
VacantPlace(h, adapters) ==
  CHOOSE i \in Vacant(h, adapters) :
    \A j \in Vacant(h, adapters) : IF Len(adapters) = 1 THEN j <= i ELSE i <= j

Settled(h, adapters, x) ==
  IF x \in ToSet([i \in Place |-> h[i]]) \/ Vacant(h, adapters) = {} THEN h
  ELSE [h EXCEPT ![VacantPlace(h, adapters)] = x]

FirstFill(h, adapters) ==
  [i \in Place |-> IF i \in DOMAIN adapters THEN adapters[i] ELSE h[i]]

\* One adapter of the list after the other
AllSettled(h, adapters) ==
  LET table[i \in 0 .. Len(adapters)] ==
        IF i = 0 THEN h ELSE Settled(table[i - 1], adapters, adapters[i])
  IN  table[Len(adapters)]

UpdatedTable(h, adapters) ==
  IF filled THEN AllSettled(h, adapters) ELSE FirstFill(h, adapters)

PlaceOf(h, x) == CHOOSE i \in Place : h[i] = x

\* Update, and From64to32Handle for what the caller is told.
BringIn(c) ==
  LET list == fetched[c]
      told == ToSet(list.adapters)
      now  == UpdatedTable(handle, list.adapters)
  IN  /\ list # NoList
      /\ handle' = now
      /\ filled' = TRUE
      /\ fetched' = [fetched EXCEPT ![c] = NoList]
      /\ IF list.number < newest
         THEN disordered' = TRUE /\ UNCHANGED <<newest, given>>
         ELSE /\ newest' = list.number
              /\ given' = [x \in told |-> IF x \in DOMAIN given THEN given[x]
                                         ELSE PlaceOf(now, x)]
              /\ UNCHANGED disordered
      /\ UNCHANGED <<present, fetches>>

HandleNext ==
  \/ \E x \in Bound : Bind(x) \/ Unbind(x)
  \/ \E c \in Caller : Fetch(c) \/ BringIn(c)

HandleSpec == HandleInit /\ [][HandleNext]_handleVars

-----------------------------------------------------------------------------
HandleTypeOK ==
  /\ handle \in [Place -> Bound \cup {Free}]
  /\ ToSet(present) \subseteq Bound /\ Len(present) <= ListSize
  /\ filled \in BOOLEAN /\ disordered \in BOOLEAN
  /\ fetches \in 0 .. MaxFetches /\ newest \in 0 .. fetches
  /\ DOMAIN given \subseteq Bound
  /\ \A i, j \in Place : handle[i] = handle[j] => i = j \/ handle[i] = Free

\* CWow64Helper::Update: while lists are brought in in the order they were
\* fetched, the place that was given out for an adapter still leads to that
\* adapter for as long as the lists name it, whatever else comes and goes.
HandlesLeadBack ==
  ~disordered => \A x \in DOMAIN given : handle[given[x]] = x

=============================================================================
