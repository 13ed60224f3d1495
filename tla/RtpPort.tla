------------------------------ MODULE RtpPort -------------------------------
(***************************************************************************)
(* ztk_rtp_port_pool: a stack of free even ports.  Callers release what    *)
(* they have acquired, once, as the header asks; anything else they might  *)
(* pass by mistake outside of the range or odd is ignored.                 *)
(***************************************************************************)
EXTENDS Integers, Sequences, SequencesExt

CONSTANTS
  RangeStart,  \* range_start
  RangeEnd,    \* range_end
  Grow         \* capacity of the first allocation (64)

\* Ports are of type uint16_t.
UInt16 == 65536

ASSUME RtpAssumption ==
  /\ RangeStart \in 0 .. UInt16 - 1 /\ RangeEnd \in RangeStart .. UInt16 - 1
  /\ RangeStart % 2 = 0 /\ RangeEnd % 2 = 0 /\ Grow \in Nat \ {0}

VARIABLES
  made,       \* ztk_rtp_port_pool_create: fill while its loop runs; up, or null
  nextPort,   \* p, the loop's counter
  freePorts,  \* free_ports, the top last
  freeCap,    \* free_cap
  held        \* pairs handed out, <<rtp, rtcp>>

rtpVars == <<made, nextPort, freePorts, freeCap, held>>

RtpInit ==
  /\ made = "fill" /\ nextPort = RangeStart
  /\ freePorts = <<>> /\ freeCap = 0 /\ held = {}

\* pool_push, when there is memory.
Full == Len(freePorts) >= freeCap
Push(p) ==
  [ports |-> Append(freePorts, p),
   cap |-> IF ~Full THEN freeCap ELSE IF freeCap = 0 THEN Grow ELSE 2 * freeCap]

\* Bug: the loop counts in a uint16_t.
FillNarrow ==
  /\ made = "fill" /\ nextPort <= RangeEnd
  /\ freePorts' = Push(nextPort % UInt16).ports /\ freeCap' = Push(nextPort % UInt16).cap
  /\ nextPort' = (nextPort + 2) % UInt16 /\ UNCHANGED <<made, held>>

\* One turn of ztk_rtp_port_pool_create's loop, which counts in 32 bits.
Fill ==
  /\ made = "fill" /\ nextPort <= RangeEnd
  /\ freePorts' = Push(nextPort % UInt16).ports /\ freeCap' = Push(nextPort % UInt16).cap
  /\ nextPort' = nextPort + 2 /\ UNCHANGED <<made, held>>

\* No memory: everything is freed and create returns NULL.
FillFails ==
  /\ made = "fill" /\ nextPort <= RangeEnd /\ Full
  /\ made' = "null" /\ freePorts' = <<>> /\ freeCap' = 0 /\ UNCHANGED <<nextPort, held>>

\* Every port has been pushed.
Created ==
  /\ made = "fill" /\ nextPort > RangeEnd
  /\ made' = "up" /\ UNCHANGED <<nextPort, freePorts, freeCap, held>>

\* ztk_rtp_port_pool_acquire with pool_pop.
Acquire ==
  /\ made = "up" /\ freePorts # <<>>
  /\ freePorts' = Front(freePorts)
  /\ held' = held \cup {<<Last(freePorts), (Last(freePorts) + 1) % UInt16>>}
  /\ UNCHANGED <<made, nextPort, freeCap>>

PortValid(p) == p >= RangeStart /\ p <= RangeEnd /\ p % 2 = 0

\* ztk_rtp_port_pool_release of a port held, or of a number next to the range.  There is
\* room, since the port was pushed before.
Release(p) ==
  /\ made = "up"
  /\ \/ /\ PortValid(p) /\ \E h \in held : h[1] = p
        /\ freePorts' = Push(p).ports /\ freeCap' = Push(p).cap
        /\ held' = {h \in held : h[1] # p} /\ UNCHANGED <<made, nextPort>>
     \/ ~PortValid(p) /\ UNCHANGED rtpVars

RtpNext ==
  \/ Fill \/ FillFails \/ Created \/ Acquire
  \/ \E p \in RangeStart - 2 .. RangeEnd + 2 : Release(p)

Ports == {h[1] : h \in held} \cup ToSet(freePorts)
RangePorts == {p \in RangeStart .. RangeEnd : p % 2 = 0}

\* No pair is free twice, or free and handed out, none lies outside of the range, RTCP is
\* the port behind RTP, and once create has returned every even port of the range is free
\* or handed out, at the top of the 16-bit range too (ztk_rtp_port_pool_create,
\* pool_push, pool_pop, port_valid).
RtpAccounted ==
  /\ \A i, j \in DOMAIN freePorts : i # j => freePorts[i] # freePorts[j]
  /\ \A h \in held : h[2] = h[1] + 1
  /\ {h[1] : h \in held} \cap ToSet(freePorts) = {}
  /\ Ports \subseteq RangePorts /\ (made = "up" => Ports = RangePorts)

=============================================================================
