------------------------------ MODULE MCAmfXdp ------------------------------
(***************************************************************************)
(* AmfXdp for TLC: a window of two ticks that admits two messages.         *)
(***************************************************************************)
EXTENDS AmfXdp, TLC

Packet(h, eth, ip, chunk, ppid, code) ==
    [headers |-> h, h_proto |-> eth, protocol |-> ip, type |-> chunk,
     ppid |-> ppid, procedure_code |-> code]

\* An InitialUEMessage, another NGAP procedure, and a truncated frame.
MCPackets == { Packet(5, "IP", "SCTP", "DATA", "NGAP", 15),
               Packet(5, "IP", "SCTP", "DATA", "NGAP", 46),
               Packet(4, "IP", "SCTP", "DATA", "NGAP", 15) }

MCSymmetry == Permutations(Sources)

=============================================================================
