----------------------------- MODULE FrameStream -----------------------------
(***************************************************************************)
(* The two readers of the byte stream: the guardian, which observes what   *)
(* pool-api sends (Guardian.observe), and pool-api, which reads the bus    *)
(* (BridgeConnection.onData).  TCP cuts the stream into chunks anywhere.   *)
(* The guardian's side is clean; on the bus there is noise and damage,     *)
(* which is why onData alone verifies checksums.                           *)
(***************************************************************************)
EXTENDS Protocol

CONSTANTS
    Rpms,            \* speeds asked for
    Replies,         \* statuses the pump reports
    NoiseBytes,      \* bytes that noise and damage put on the bus
    Damaged,         \* positions of a reply that may be damaged
    ChunkSizes,      \* sizes of the pieces that TCP delivers
    MAX_MESSAGES,    \* bound: messages sent
    MAX_FAULTS       \* bound: bytes of noise and damaged replies

\* What a status frame has room for.
Statuses ==
    [running: BOOLEAN, driveState: Byte, watts: Words, rpm: Words,
     statusWord: Words, clockMinutes: 0..256 * 60 - 1]

ASSUME FrameStreamAssumption ==
    /\ Rpms \subseteq Nat
    /\ Replies \subseteq Statuses
    /\ NoiseBytes \subseteq Byte
    /\ Damaged \subseteq Nat \ 0..Len(PREAMBLE)
    /\ ChunkSizes \subseteq Nat \ {0}
    /\ MAX_MESSAGES \in Nat /\ MAX_FAULTS \in Nat

VARIABLES
    onBus,           \* which reader: onData, or else observe
    sent,            \* history: the messages sent, as they should be read
    pending,         \* bytes sent and not read yet
    rxBuf,           \* rxBuf
    got,             \* history: the messages the reader has read
    faults           \* how much of the bound is used

vars == <<onBus, sent, pending, rxBuf, got, faults>>

MAX_RX_BUFFER == 4096

-----------------------------------------------------------------------------
(* What is sent.                                                           *)

Commands == [cmd: {"remote", "run"}, val: {TRUE, FALSE}]
              \cup [cmd: {"rpm"}, val: Rpms] \cup {[cmd |-> "status", val |-> 0]}

Encode(c) ==
    CASE c.cmd = "remote" -> RemoteControl(c.val)
      [] c.cmd = "run"    -> RunStop(c.val)
      [] c.cmd = "rpm"    -> SetRpm(c.val)
      [] OTHER            -> StatusRequest

Intended(c) == IF c.cmd = "rpm" THEN [c EXCEPT !.val = ClampRpm(@)] ELSE c

\* The pump's reply to a status request.
Reply(s) ==
    Build(ADDR_CONTROLLER, ADDR_PUMP, STATUS,
          <<IF s.running THEN RUN ELSE STOP, 0, s.driveState,
            High(s.watts), Low(s.watts), High(s.rpm), Low(s.rpm), 0, 0, 0, 0,
            High(s.statusWord), Low(s.statusWord),
            s.clockMinutes \div 60, s.clockMinutes % 60>>)

-----------------------------------------------------------------------------
(* How it is read.                                                         *)

\* sniff(): what one frame tells the guardian; nothing if it is for another
\* device.  A frame for the pump that changes nothing counts as "status".
Sniffed(f) ==
    IF f.dst # ADDR_PUMP THEN <<>>
    ELSE CASE f.action = REMOTE_CONTROL ->
                <<[cmd |-> "remote", val |-> f.data[1] = REMOTE_ENABLE]>>
           [] f.action = RUN_STOP ->
                <<[cmd |-> "run", val |-> f.data[1] = RUN]>>
           [] f.action = SET_REGISTER ->
                IF Len(f.data) >= 4 /\ SubSeq(f.data, 1, 2) = REG_RPM
                THEN <<[cmd |-> "rpm", val |-> Word(f.data[3], f.data[4])]>>
                ELSE <<>>
           [] OTHER -> <<[cmd |-> "status", val |-> 0]>>

StatusOf(f) ==
    IF IsPumpStatus(f) /\ Len(f.data) >= 15 THEN <<DecodeStatus(f.data)>>
    ELSE <<>>

Read(frames) ==
    LET read(f) == IF onBus THEN StatusOf(f) ELSE Sniffed(f)
    IN  FlattenSeq([i \in DOMAIN frames |-> read(frames[i])])

Remainder(buf, consumed) == SubSeq(buf, consumed + 1, Len(buf))

-----------------------------------------------------------------------------
Init ==
    /\ onBus \in BOOLEAN
    /\ sent = <<>> /\ pending = <<>> /\ rxBuf = <<>>
    /\ got = <<>> /\ faults = 0

Send(message, bytes) ==
    /\ Len(sent) < MAX_MESSAGES
    /\ sent' = Append(sent, message)
    /\ pending' = pending \o bytes
    /\ UNCHANGED <<onBus, rxBuf, got, faults>>

SendCommand(c) == ~onBus /\ Send(Intended(c), Encode(c))
SendReply(s)   ==  onBus /\ Send(s, Reply(s))

Fault(bytes) ==
    /\ onBus /\ faults < MAX_FAULTS
    /\ faults' = faults + 1
    /\ pending' = pending \o bytes
    /\ UNCHANGED <<onBus, sent, rxBuf, got>>

Noise(b) == Fault(<<b>>)

\* A reply with a wrong byte; its preamble does not matter to the reader.
DamagedReply(s, k, b) ==
    /\ Reply(s)[k] # b
    /\ Fault([Reply(s) EXCEPT ![k] = b])

\* observe() and onData(): a chunk of n bytes arrives.
Chunk(n) ==
    /\ n <= Len(pending)
    /\ LET merged == rxBuf \o SubSeq(pending, 1, n)
           result == ScanFrames(merged, onBus)
           rest   == Remainder(merged, result.consumed)
       IN  /\ rxBuf' = IF Len(rest) > MAX_RX_BUFFER THEN <<>> ELSE rest
           /\ got' = got \o Read(result.frames)
           /\ pending' = SubSeq(pending, n + 1, Len(pending))
           /\ UNCHANGED <<onBus, sent, faults>>

Next ==
    \/ \E c \in Commands : SendCommand(c)
    \/ \E s \in Replies : SendReply(s)
    \/ \E b \in NoiseBytes : Noise(b)
    \/ \E s \in Replies, k \in Damaged, b \in NoiseBytes : DamagedReply(s, k, b)
    \/ \E n \in ChunkSizes : Chunk(n)

Spec == Init /\ [][Next]_vars

-----------------------------------------------------------------------------
(* Properties.                                                             *)

\* The reader reads what was sent, in order, without a loss, a repetition or
\* an invention: a start byte inside the data, a value of two bytes, noise that
\* looks like a header, a damaged reply and cuts anywhere change nothing.  (Noise or
\* damage that makes a whole frame with its checksum would be read; the run has none.)
ReadsWhatWasSent == IsPrefix(got, sent)

\* A message is read with its last byte, never later, unless noise keeps the
\* reader waiting for the end of a frame that is none.
NothingHeldBack ==
    pending = <<>> /\ (faults = 0 \/ START \notin Range(rxBuf)) => got = sent
=============================================================================
