---------------------------- MODULE MCFrameStream ----------------------------
(* Instance of FrameStream for TLC: speeds that clamp and that contain the  *)
(* start byte, two statuses full of start bytes, and damage to the start,   *)
(* the length, the data and the checksum of a reply.                        *)
EXTENDS FrameStream

const_Rpms == {165, 1500, 3600}

const_Status(run, drive, watts, rpm) ==
    [running |-> run, driveState |-> drive, watts |-> watts, rpm |-> rpm,
     statusWord |-> 0, clockMinutes |-> 1051]

const_Replies == {const_Status(TRUE, 2, 135, 1500),
                  const_Status(FALSE, 165, 42405, 165)}

const_NoiseBytes == {START, 3}

const_Damaged == {4, 9, 13, 26}

const_ChunkSizes == {1, 2, 7, 26}
=============================================================================
