------------------------------ MODULE Checksum ------------------------------
(* The checksums of a packet that the redirect objects have rewritten. The    *)
(* addresses and a port change on the way to the local proxy and back; the    *)
(* driver objects then sum the header, the pseudo header and the payload in   *)
(* 32 bits, fold the carries and store the complement. The words are Base     *)
(* wide here instead of 2^16: the carries are the same.                       *)
EXTENDS Integers, Sequences

CONSTANTS
  HalfBase,        \* values of a byte; a word has two of them
  Address,         \* the words that stand for an address
  PortWord,        \* the words that stand for a port
  MaxPayload       \* bound: bytes of payload

ByteValue == 0 .. HalfBase - 1
Base == HalfBase * HalfBase

ASSUME ChecksumAssumption ==
  /\ HalfBase \in Nat /\ HalfBase > 1 /\ MaxPayload \in Nat
  /\ Address \subseteq 0 .. Base - 1 /\ PortWord \subseteq 0 .. Base - 1

VARIABLES
  packet,      \* the packet in the buffer
  behind,      \* the byte of the buffer behind the packet
  rewritten    \* a redirect object has had it

checksumVars == <<packet, behind, rewritten>>

Payload == UNION {[1 .. n -> ByteValue] : n \in 0 .. MaxPayload}

\* The words of a payload; the last byte of an odd one goes with next.
Words(bytes, next) ==
  LET even == IF Len(bytes) % 2 = 1 THEN Append(bytes, next) ELSE bytes
  IN  [i \in 1 .. Len(even) \div 2 |-> even[2 * i - 1] * HalfBase + even[2 * i]]

Sum(words) ==
  LET upTo[i \in 0 .. Len(words)] == IF i = 0 THEN 0 ELSE upTo[i - 1] + words[i]
  IN  upTo[Len(words)]

HeaderBytes == 8
Length(p) == HeaderBytes + Len(p.payload)

IpWords(p) == <<p.source, p.dest, Length(p)>>

\* The pseudo header, the ports, and the payload.
SegmentWords(p, next) ==
  <<p.source, p.dest, Length(p), p.sourcePort, p.destPort>> \o Words(p.payload, next)

\* Mutant: the carry of the fold itself is lost.
FoldedOnce(sum) == ((sum % Base) + (sum \div Base)) % Base

\* Carries are added until none is left.
Folded(sum) ==
  LET fold[n \in Nat] == IF n < Base THEN n ELSE fold[(n % Base) + (n \div Base)]
  IN  fold[sum]

Complement(sum) == Base - 1 - sum

\* The byte behind an odd payload is set to 0, in the buffer.
Padding(p) == IF Len(p.payload) % 2 = 1 THEN 0 ELSE behind

\* RecalculateTCPChecksum or RecalculateUDPChecksum, and RecalculateIPChecksum.
Recalculated(p, next) ==
  [p EXCEPT !.segmentSum = Complement(Folded(Sum(SegmentWords(p, next)))),
            !.ipSum = Complement(Folded(Sum(IpWords(p))))]

\* The words are read from the buffer once it is padded.
Recalculate(p) ==
  /\ behind' = Padding(p)
  /\ packet' = Recalculated(p, Padding(p))
  /\ rewritten' = TRUE

\* The packet as it comes, with sums that are not looked at; anything may lie
\* behind it.
ChecksumInit ==
  /\ packet \in [protocol : {"tcp", "udp"}, source : Address, dest : Address,
                 sourcePort : PortWord, destPort : PortWord, payload : Payload,
                 segmentSum : {0}, ipSum : {0}]
  /\ behind \in ByteValue
  /\ rewritten = FALSE

Swapped(p) == [p EXCEPT !.source = p.dest, !.dest = p.source]

\* process_client_to_server_packet: back to the host, to the proxy's port.
ToProxy(port) == Recalculate([Swapped(packet) EXCEPT !.destPort = port])

\* process_server_to_client_packet: from the port the client knows.
ToClient(port) == Recalculate([Swapped(packet) EXCEPT !.sourcePort = port])

ChecksumNext == \E port \in PortWord : ToProxy(port) \/ ToClient(port)

ChecksumSpec == ChecksumInit /\ [][ChecksumNext]_checksumVars

-----------------------------------------------------------------------------
ChecksumTypeOK ==
  /\ packet.segmentSum \in 0 .. Base - 1 /\ packet.ipSum \in 0 .. Base - 1
  /\ behind \in ByteValue /\ rewritten \in BOOLEAN

\* The ones' complement sum of the receiver, without a loop: a multiple of
\* Base - 1 that is not 0 folds to Base - 1.
Verifies(words) == Sum(words) > 0 /\ Sum(words) % (Base - 1) = 0

\* RecalculateTCPChecksum, RecalculateUDPChecksum, RecalculateIPChecksum: a
\* receiver accepts every rewritten packet, whatever carries the new words
\* make, whatever the length of the payload and whatever lay behind it.
RewrittenPacketsVerify ==
  rewritten =>
    /\ Verifies(Append(IpWords(packet), packet.ipSum))
    /\ \/ packet.protocol = "udp" /\ packet.segmentSum = 0
       \/ Verifies(Append(SegmentWords(packet, 0), packet.segmentSum))

=============================================================================
