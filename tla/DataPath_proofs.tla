--------------------------- MODULE DataPath_proofs ---------------------------
(***************************************************************************)
(* Proofs about the composition of the data path: each of its components   *)
(* behaves as its own specification says, so that what is proved of the    *)
(* components holds of the specification that is model-checked.            *)
(***************************************************************************)
EXTENDS MCDataPath, ProxyServices_proofs, PacketPath_proofs

ChecksumMoves == part = "checksum"

\* A step is one of the component that moves, and the others rest.
LEMMA StepsOfTheParts ==
  [MCNext]_MCVars =>
    /\ [RelayNext]_relayVars /\ [RedirectNext]_redirectVars
    /\ [ServerNext]_serverVars /\ [PortNext]_portVars /\ [SocksNext]_socksVars
    /\ [UdpNext]_udpVars /\ [DecisionNext]_decisionVars
    /\ [ResolverNext]_resolverVars /\ [AdapterNext]_adapterVars
    /\ [StaticNext]_staticVars /\ [HandleNext]_handleVars
    /\ [RulesNext]_ruleVars /\ [ChecksumNext]_checksumVars
    /\ [PoolNext]_poolVars /\ [LogNext]_logVars
    /\ part' = part
<1> SUFFICES ASSUME [MCNext]_MCVars PROVE
      /\ [RelayNext]_relayVars /\ [RedirectNext]_redirectVars
      /\ [ServerNext]_serverVars /\ [PortNext]_portVars /\ [SocksNext]_socksVars
      /\ [UdpNext]_udpVars /\ [DecisionNext]_decisionVars
      /\ [ResolverNext]_resolverVars /\ [AdapterNext]_adapterVars
      /\ [StaticNext]_staticVars /\ [HandleNext]_handleVars
      /\ [RulesNext]_ruleVars /\ [ChecksumNext]_checksumVars
      /\ [PoolNext]_poolVars /\ [LogNext]_logVars
      /\ part' = part
  OBVIOUS
<1>1. CASE UNCHANGED MCVars
  BY <1>1 DEF MCVars
<1>2. CASE MCNext
  BY <1>2 DEF MCNext, Moves
<1>3. QED BY <1>1, <1>2

LEMMA StartsOfTheParts ==
  MCInit =>
    /\ RelayInit /\ RedirectInit /\ ServerInit /\ PortInit /\ SocksInit
    /\ UdpInit /\ DecisionInit /\ ResolverInit /\ AdapterInit /\ StaticInit
    /\ HandleInit /\ RulesInit /\ PoolInit /\ LogInit
    /\ ChecksumMoves => ChecksumInit
    /\ part \in Part
BY DEF MCInit, ChecksumMoves

\* Every component of the composition behaves as its specification says, and so
\* has every property that is proved of that specification; the checksums do
\* when they are the part that moves.
THEOREM PartsFollowTheirSpecs ==
  MCSpec =>
    /\ RelaySpec /\ RedirectSpec /\ ServerSpec /\ PortSpec /\ SocksSpec
    /\ UdpSpec /\ DecisionSpec /\ ResolverSpec /\ AdapterSpec /\ StaticSpec
    /\ HandleSpec /\ RulesSpec /\ PoolSpec /\ LogSpec
    /\ ChecksumMoves => ChecksumSpec
    /\ []ChecksumMoves \/ []~ChecksumMoves
    /\ [](part \in Part)
<1>1. MCSpec => RelaySpec
  BY StartsOfTheParts, StepsOfTheParts, PTL DEF MCSpec, RelaySpec
<1>2. MCSpec => RedirectSpec
  BY StartsOfTheParts, StepsOfTheParts, PTL DEF MCSpec, RedirectSpec
<1>3. MCSpec => ServerSpec
  BY StartsOfTheParts, StepsOfTheParts, PTL DEF MCSpec, ServerSpec
<1>4. MCSpec => PortSpec
  BY StartsOfTheParts, StepsOfTheParts, PTL DEF MCSpec, PortSpec
<1>5. MCSpec => SocksSpec
  BY StartsOfTheParts, StepsOfTheParts, PTL DEF MCSpec, SocksSpec
<1>6. MCSpec => UdpSpec
  BY StartsOfTheParts, StepsOfTheParts, PTL DEF MCSpec, UdpSpec
<1>7. MCSpec => DecisionSpec
  BY StartsOfTheParts, StepsOfTheParts, PTL DEF MCSpec, DecisionSpec
<1>8. MCSpec => ResolverSpec
  BY StartsOfTheParts, StepsOfTheParts, PTL DEF MCSpec, ResolverSpec
<1>9. MCSpec => AdapterSpec
  BY StartsOfTheParts, StepsOfTheParts, PTL DEF MCSpec, AdapterSpec
<1>10. MCSpec => StaticSpec
  BY StartsOfTheParts, StepsOfTheParts, PTL DEF MCSpec, StaticSpec
<1>11. MCSpec => HandleSpec
  BY StartsOfTheParts, StepsOfTheParts, PTL DEF MCSpec, HandleSpec
<1>12. MCSpec => RulesSpec
  BY StartsOfTheParts, StepsOfTheParts, PTL DEF MCSpec, RulesSpec
<1>13. MCSpec => PoolSpec
  BY StartsOfTheParts, StepsOfTheParts, PTL DEF MCSpec, PoolSpec
<1>14. MCSpec => LogSpec
  BY StartsOfTheParts, StepsOfTheParts, PTL DEF MCSpec, LogSpec
<1>15. MCSpec => ([]ChecksumMoves \/ []~ChecksumMoves) /\ [](part \in Part)
  <2>1. [MCNext]_MCVars => (ChecksumMoves' <=> ChecksumMoves)
    BY StepsOfTheParts DEF ChecksumMoves
  <2>2. [MCNext]_MCVars /\ part \in Part => (part \in Part)'
    BY StepsOfTheParts DEF Part
  <2>3. MCInit => part \in Part
    BY StartsOfTheParts
  <2>4. QED BY <2>1, <2>2, <2>3, PTL DEF MCSpec
<1>16. MCSpec => (ChecksumMoves => ChecksumSpec)
  BY StartsOfTheParts, StepsOfTheParts, PTL DEF MCSpec, ChecksumSpec
<1>17. QED
  BY <1>1, <1>2, <1>3, <1>4, <1>5, <1>6, <1>7, <1>8, <1>9, <1>10, <1>11, <1>12, <1>13,
     <1>14, <1>15, <1>16

\* The state of every component of the data path is one its code can be in, for
\* every value of the constants.
THEOREM DataPathTypes == MCSpec => []DataPathTypeOK
<1>1. (/\ part \in Part /\ RelayTypeOK /\ RedirectTypeOK /\ ServerTypeOK
       /\ PortTypeOK /\ SocksTypeOK /\ UdpTypeOK /\ DecisionTypeOK
       /\ ResolverTypeOK /\ AdapterTypeOK /\ StaticTypeOK /\ HandleTypeOK
       /\ RulesTypeOK
       /\ ChecksumMoves => ChecksumTypeOK
       /\ PoolTypeOK /\ LogTypeOK) => DataPathTypeOK
  BY DEF DataPathTypeOK, Part, ChecksumMoves
<1>2. MCSpec => []RelayTypeOK
  BY PartsFollowTheirSpecs, RelayTypesHold, PTL
<1>3. MCSpec => []RedirectTypeOK
  BY PartsFollowTheirSpecs, RedirectTypes, PTL
<1>4. MCSpec => []ServerTypeOK
  BY PartsFollowTheirSpecs, ServerTypes, PTL
<1>5. MCSpec => []PortTypeOK
  BY PartsFollowTheirSpecs, PortTypes, PTL
<1>6. MCSpec => []SocksTypeOK
  BY PartsFollowTheirSpecs, NegotiationTypes, PTL
<1>7. MCSpec => []UdpTypeOK
  BY PartsFollowTheirSpecs, UdpTypes, PTL
<1>8. MCSpec => []DecisionTypeOK
  BY PartsFollowTheirSpecs, DecisionTypes, PTL
<1>9. MCSpec => []ResolverTypeOK
  BY PartsFollowTheirSpecs, CacheStaysInBounds, PTL
<1>10. MCSpec => []AdapterTypeOK
  BY PartsFollowTheirSpecs, AdapterTypes, PTL
<1>11. MCSpec => []StaticTypeOK
  BY PartsFollowTheirSpecs, StaticTypes, PTL
<1>12. MCSpec => []HandleTypeOK
  BY PartsFollowTheirSpecs, HandleTypes, PTL
<1>13. MCSpec => []RulesTypeOK
  BY PartsFollowTheirSpecs, RulesTypes, PTL
<1>14. MCSpec => []PoolTypeOK
  BY PartsFollowTheirSpecs, PoolTypes, PTL
<1>15. MCSpec => []LogTypeOK
  BY PartsFollowTheirSpecs, LogTypes, PTL
<1>16. MCSpec => [](ChecksumMoves => ChecksumTypeOK)
  BY PartsFollowTheirSpecs, ChecksumTypes, PTL
<1>17. MCSpec => [](part \in Part)
  BY PartsFollowTheirSpecs, PTL
<1>18. QED
  BY <1>1, <1>2, <1>3, <1>4, <1>5, <1>6, <1>7, <1>8, <1>9, <1>10, <1>11, <1>12, <1>13,
     <1>14, <1>15, <1>16, <1>17, PTL

==============================================================================
