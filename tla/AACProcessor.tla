----------------------------- MODULE AACProcessor -----------------------------
(***************************************************************************)
(* AACProcessor and the transcoder below it: Opus packets of at most       *)
(* OpusFrame samples are decoded into a buffer of two AAC frames; when it  *)
(* holds a frame, one is encoded and goes out in the packet that filled    *)
(* it, under a timestamp that counts frames.  Other packets are swallowed. *)
(* For a packet that it refuses (a broken one, or one of more samples than *)
(* it has been given room for) the decoder returns a negative code, which  *)
(* is added to the size of the buffer like a number of samples; a size     *)
(* below zero makes the next packet be decoded to before the buffer.  What *)
(* is in a sample is left out.                                             *)
(***************************************************************************)
EXTENDS Integers

CONSTANTS
  OpusFrame,   \* OPUS_FRAME_SIZE, the most samples a packet decodes to
  AACFrame,    \* AAC_FRAME_SIZE
  ErrorCodes,  \* what the decoder may return for a packet it refuses, negated
  TSSpace      \* timestamps are modulo this

ASSUME FrameAssumption ==
  /\ OpusFrame \in Nat \ {0} /\ AACFrame \in Nat \ {0}
  /\ OpusFrame <= AACFrame
ASSUME CodeAssumption == ErrorCodes \subseteq Nat \ {0}
ASSUME SpaceAssumption == TSSpace \in Nat \ {0}

VARIABLES
  pcmSize,     \* pcm_buffer_size: samples decoded and not yet encoded
  damaged,     \* whether the decoder has written to memory before the buffer
  tsInit, nextTS,
  (* What has come and gone, for the properties.                           *)
  heard,       \* samples in the stream so far, packets that got lost included
  lost,        \* those of the packets that got lost or were refused
  taken,       \* what error codes have taken from pcmSize
  mute,        \* frames that were encoded to nothing
  firstTS      \* where the first packet put the clock

aacVars == <<pcmSize, damaged, tsInit, nextTS, heard, lost, taken, mute, firstTS>>

AACInit ==
  /\ pcmSize = 0 /\ damaged = FALSE
  /\ tsInit = FALSE
  /\ nextTS = 0
  /\ heard = 0 /\ lost = 0 /\ taken = 0 /\ mute = 0
  /\ firstTS = 0

FrameReady(decoded) == pcmSize + decoded >= AACFrame

Advanced_ByPacket(ts) == (ts + OpusFrame) % TSSpace
Advanced(ts) == (ts + AACFrame) % TSSpace

(* The size of the buffer does not go down with the frame.                 *)
Transcode_KeepsFrame(decoded) == pcmSize' = pcmSize + decoded

(* transcode_frame: what opus_decode returns is added to the size of the   *)
(* buffer, and one frame is taken from its front.                          *)
Transcode(decoded) ==
  pcmSize' = IF FrameReady(decoded) THEN pcmSize + decoded - AACFrame
                                    ELSE pcmSize + decoded

(* Below zero, what is decoded is written before the buffer; a packet that *)
(* is refused halfway may have been written in part, and one without       *)
(* payload never reaches the decoder.                                      *)
Write(decoded) ==
  /\ damaged' \in BOOLEAN
  /\ pcmSize >= 0 \/ decoded = 0 => ~damaged'
  /\ pcmSize < 0 /\ decoded > 0 => damaged'

(* Process of a packet with timestamp ts and so many samples, for which    *)
(* the decoder returns decoded.  The encoder may give nothing.             *)
Process(ts, samples, decoded, encoded) ==
  LET now     == IF tsInit THEN nextTS ELSE ts
      refused == decoded < 0
  IN  /\ tsInit' = TRUE
      /\ firstTS' = IF tsInit THEN firstTS ELSE ts
      /\ Write(decoded)
      /\ Transcode(decoded)
      /\ nextTS' = IF FrameReady(decoded) /\ encoded THEN Advanced(now) ELSE now
      /\ heard' = heard + samples
      /\ lost' = IF refused THEN lost + samples ELSE lost
      /\ taken' = IF refused THEN taken - decoded ELSE taken
      /\ mute' = IF FrameReady(decoded) /\ ~encoded THEN mute + 1 ELSE mute

(* A packet of the stream that never reaches Process.                      *)
PacketLost(samples) ==
  /\ tsInit
  /\ heard' = heard + samples
  /\ lost' = lost + samples
  /\ UNCHANGED <<pcmSize, damaged, tsInit, nextTS, taken, mute, firstTS>>

-----------------------------------------------------------------------------

AACTypeOK ==
  /\ pcmSize \in Int
  /\ damaged \in BOOLEAN /\ tsInit \in BOOLEAN
  /\ nextTS \in 0..TSSpace - 1 /\ firstTS \in 0..TSSpace - 1
  /\ heard \in Nat /\ lost \in Nat /\ taken \in Nat /\ mute \in Nat

(***************************************************************************)
(* The decoder writes OpusFrame samples at most behind those in the buffer *)
(* (converter.c): they never go past the end of its two frames.  They can  *)
(* go before its front, but only after error codes, and no further than    *)
(* those took it; then memory is overwritten.                              *)
(***************************************************************************)
SamplesFit ==
  /\ pcmSize + OpusFrame <= 2 * AACFrame
  /\ pcmSize >= -taken
  /\ damaged => taken > 0

(***************************************************************************)
(* The clock of the AAC stream (nextTS) is the time of the first sample in *)
(* the buffer, except for what was lost on the way: it falls behind the    *)
(* source, for good, by the samples of every packet that got lost or was   *)
(* refused, by those of every frame that was encoded to nothing and by the *)
(* codes that the decoder returned for refused packets, and by nothing     *)
(* else, as long as the converter has not written over other memory.       *)
(***************************************************************************)
AudioClock ==
  tsInit /\ ~damaged =>
    nextTS = (firstTS + heard - lost - AACFrame * mute - taken - pcmSize) % TSSpace
=============================================================================
