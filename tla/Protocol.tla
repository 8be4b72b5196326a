------------------------------ MODULE Protocol ------------------------------
(***************************************************************************)
(* The pump's wire protocol, packages/protocol: building command frames,   *)
(* scanning a byte buffer for frames, and reading what a frame says.       *)
(***************************************************************************)
EXTENDS Integers, Sequences, SequencesExt

Byte  == 0..255
Words == 0..256 * 256 - 1

PREAMBLE == <<255, 0, 255>>
START    == 165
PROTOCOL == 0

ADDR_PUMP       == 96
ADDR_CONTROLLER == 33

SET_REGISTER   == 1
REMOTE_CONTROL == 4
RUN_STOP       == 6
STATUS         == 7

REG_RPM == <<2, 196>>
RPM_MIN == 0
RPM_MAX == 3450

RUN  == 10
STOP == 4

REMOTE_ENABLE  == 255
REMOTE_RELEASE == 0

-----------------------------------------------------------------------------
(* Building frames.                                                        *)

High(v)     == (v \div 256) % 256
Low(v)      == v % 256
Word(hi, lo) == hi * 256 + lo

\* The sums of the first bytes of the body.
Sums(body) ==
    LET sum[i \in 0..Len(body)] == IF i = 0 THEN 0 ELSE sum[i - 1] + body[i]
    IN  sum

\* The 16-bit sum of the body, as two bytes.
Checksum(body) ==
    LET sum == Sums(body)[Len(body)] IN <<High(sum), Low(sum)>>

Build(dst, src, action, data) ==
    LET body == <<START, PROTOCOL, dst, src, action, Len(data)>> \o data
    IN  PREAMBLE \o body \o Checksum(body)

\* Speeds are integers here, so that the rounding of clampRpm() is not seen.
ClampRpm(rpm) ==
    IF rpm < RPM_MIN THEN RPM_MIN ELSE IF rpm > RPM_MAX THEN RPM_MAX ELSE rpm

Command(action, data) == Build(ADDR_PUMP, ADDR_CONTROLLER, action, data)

StatusRequest    == Command(STATUS, <<>>)
SetRpm(rpm)      == LET v == ClampRpm(rpm)
                    IN  Command(SET_REGISTER, REG_RPM \o <<High(v), Low(v)>>)
RunStop(run)     == Command(RUN_STOP, <<IF run THEN RUN ELSE STOP>>)
RemoteControl(e) == Command(REMOTE_CONTROL,
                            <<IF e THEN REMOTE_ENABLE ELSE REMOTE_RELEASE>>)

-----------------------------------------------------------------------------
(* Scanning.  A frame at position i: START, five bytes of which the last is *)
(* the length of the data, the data, two bytes of checksum.                 *)

HEADER == 6

DataLen(buf, i) == buf[i + 5]

\* Mutant.
LastByte_OneMore(buf, i) == i + HEADER + DataLen(buf, i) + 2

LastByte(buf, i) == i + HEADER + DataLen(buf, i) + 1

\* Mutant.
ChecksumOk_Always(buf, i) == TRUE

ChecksumOk(buf, i) ==
    LET body == SubSeq(buf, i, i + HEADER + DataLen(buf, i) - 1)
    IN  <<buf[i + Len(body)], buf[i + Len(body) + 1]>> = Checksum(body)

FrameAt(buf, i) ==
    [dst |-> buf[i + 2], src |-> buf[i + 3], action |-> buf[i + 4],
     data |-> SubSeq(buf, i + HEADER, i + HEADER + DataLen(buf, i) - 1)]

\* The loop of scanFrames() from each position on: the frames, and how many bytes
\* the reader may forget.
Scan(buf, verifyChecksum) ==
    LET n == Len(buf)
        stop(i) == [frames |-> <<>>, consumed |-> i - 1]
        scan[i \in 1 .. n + 1] ==
            IF i + HEADER - 1 > n THEN stop(i)
            ELSE IF buf[i] # START THEN scan[i + 1]
            ELSE IF LastByte(buf, i) > n THEN stop(i)
            ELSE IF verifyChecksum /\ ~ChecksumOk(buf, i) THEN scan[i + 1]
            ELSE LET rest == scan[LastByte(buf, i) + 1]
                 IN  [frames |-> <<FrameAt(buf, i)>> \o rest.frames,
                      consumed |-> rest.consumed]
    IN  scan

ScanFrames(buf, verifyChecksum) == Scan(buf, verifyChecksum)[1]

-----------------------------------------------------------------------------
(* Reading frames.                                                         *)

IsPumpStatus(f) == f.src = ADDR_PUMP /\ f.action = STATUS

DecodeStatus(d) ==
    [running |-> d[1] = RUN, driveState |-> d[3],
     watts |-> Word(d[4], d[5]), rpm |-> Word(d[6], d[7]),
     statusWord |-> Word(d[12], d[13]), clockMinutes |-> d[14] * 60 + d[15]]
=============================================================================
