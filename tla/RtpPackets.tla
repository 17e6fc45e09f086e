------------------------------ MODULE RtpPackets ------------------------------
(* The numbers of an RTP packet: sequence numbers mod SeqModulus and       *)
(* timestamps mod TsModulus, 2^16 and 2^32 in the code.                    *)
EXTENDS Integers

CONSTANTS
  SeqModulus, TsModulus,
  FrameSamples,   \* samples of an audio packet, 160
  None            \* no number, SSRC, address, payload type or digit

ASSUME PacketsAssumption ==
  /\ SeqModulus \in Nat \ {0} /\ TsModulus \in Nat \ {0}
  /\ FrameSamples \in Nat \ {0} /\ None \notin Int

(* Faulty variant: numbers that wrapped are not carried over.              *)
UnwrapBackOnly(value, high, modulus) ==
  IF high = None THEN value
  ELSE LET candidate == (high \div modulus) * modulus + value
       IN candidate + IF candidate - high > modulus \div 2 THEN -modulus ELSE 0

(* unwrap16, unwrap32: the number nearest to high that is value mod        *)
(* modulus; half a modulus away counts as near on either side.             *)
Unwrap(value, high, modulus) ==
  IF high = None THEN value
  ELSE LET candidate == (high \div modulus) * modulus + value
       IN candidate + CASE candidate - high > modulus \div 2 -> -modulus
                        [] high - candidate > modulus \div 2 -> modulus
                        [] OTHER -> 0
=============================================================================
