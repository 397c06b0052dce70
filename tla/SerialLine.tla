----------------------------- MODULE SerialLine -----------------------------
(***************************************************************************)
(* The frame decoder behind the receiver that feeds it: what comes down    *)
(* the line is bytes of any value, at any pace the line allows.            *)
(***************************************************************************)
EXTENDS FrameDecoder, Uart

ASSUME LineAssumption == DataBits = ByteBits

lineVars == <<decoderVars, uartVars>>
LineInit == DecoderInit /\ UartInit

\* A cycle of the decoder, with a byte or without.  Of a frame of no bytes with
\* its checksum, which no host sends, the last byte is not heard.
Decodes == \/ ~stb /\ QuietCycle
           \/ Drain /\ (wait' = Gap - 1 <=> stb) /\ (stb => came' = data)
           \/ stb /\ ByteCycle(data)
           \/ stb /\ ~Comes(data) /\ QuietCycle

BothEdges == Together /\ Decodes
Begun == Decodes /\ \E byte \in Byte : Begins(byte)
RxEdgeAlone == RxAlone /\ Decodes
TxEdgeAlone == TxAlone /\ UNCHANGED decoderVars
Noise == Glitch /\ Decodes

LineNext == BothEdges \/ Begun \/ RxEdgeAlone \/ TxEdgeAlone \/ Noise

LineSpec == LineInit /\ [][LineNext]_lineVars
=============================================================================
