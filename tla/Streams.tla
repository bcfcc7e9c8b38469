------------------------------- MODULE Streams -------------------------------
(***************************************************************************)
(* What processes a stream piece by piece.  The parts share no state: a    *)
(* behaviour uses one of them, the others stay as they were initialised.   *)
(***************************************************************************)
EXTENDS ZmodemFrames, StreamDecompress, EncryptedStream, DeltaUpdate, LogRotation,
        FlashHelper, Autostart

VARIABLE part     \* the one that is used

Parts == {"frames", "rle", "cipher", "delta", "log", "flash", "autostart"}

vars == <<part, frameVars, rleVars, encVars, deltaVars, logVars, flashVars, autoVars>>

Init ==
    /\ part \in Parts
    /\ FramesInit /\ (part # "frames" => canCount = 0)
    /\ RleInit /\ (part # "rle" => algo = "none")
    /\ EncInit /\ (part # "cipher" => key = StoredKey(<<>>))
    /\ DeltaInit /\ (part # "delta" => hasBase)
    /\ LogInit /\ (part # "log" => maxChunk = DefaultChunk /\ total = DefaultTotal)
    /\ FlashInit
    /\ AutoInit

Next ==
    /\ \/ part = "frames" /\ FramesNext
          /\ UNCHANGED <<rleVars, encVars, deltaVars, logVars, flashVars, autoVars>>
       \/ part = "rle" /\ RleChunk
          /\ UNCHANGED <<frameVars, encVars, deltaVars, logVars, flashVars, autoVars>>
       \/ part = "cipher" /\ (Encrypt \/ Decrypt)
          /\ UNCHANGED <<frameVars, rleVars, deltaVars, logVars, flashVars, autoVars>>
       \/ part = "delta" /\ ApplyChunk
          /\ UNCHANGED <<frameVars, rleVars, encVars, logVars, flashVars, autoVars>>
       \/ part = "log" /\ LogWrite
          /\ UNCHANGED <<frameVars, rleVars, encVars, deltaVars, flashVars, autoVars>>
       \/ part = "flash" /\ FlashWrite
          /\ UNCHANGED <<frameVars, rleVars, encVars, deltaVars, logVars, autoVars>>
       \/ part = "autostart" /\ AutoByte
          /\ UNCHANGED <<frameVars, rleVars, encVars, deltaVars, logVars, flashVars>>
    /\ UNCHANGED part

Spec == Init /\ [][Next]_vars

=============================================================================
