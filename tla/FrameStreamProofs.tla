-------------------------- MODULE FrameStreamProofs --------------------------
(***************************************************************************)
(* Proof that both readers of the byte stream read what was sent, for any  *)
(* messages and any cuts, as long as there is nothing on the wire that     *)
(* could be taken for the start of a frame.  The guardian's side always    *)
(* is like that.                                                           *)
(***************************************************************************)
EXTENDS FrameStream, SequenceTheorems, WellFoundedInduction, TLAPS

-----------------------------------------------------------------------------
(* Numbers.                                                                *)

\* A set of numbers has a least element.
LEMMA Least ==
    ASSUME NEW S \in SUBSET Nat, S # {}
    PROVE  \E x \in S : \A y \in S : x <= y
<1>1. IsWellFoundedOn(OpToRel(<, Nat), Nat)
  BY NatLessThanWellFounded
<1>2. PICK x \in S : \A y \in S : ~ (<<y, x>> \in OpToRel(<, Nat))
  BY <1>1, WFMin
<1>3. \A y \in S : ~(y < x)
  BY <1>2 DEF OpToRel
<1>4. QED
  BY <1>3

\* What holds of 0 and of the next number holds of every number.
LEMMA NumbersInduction ==
    ASSUME NEW H \in SUBSET Nat, 0 \in H, \A n \in H : n + 1 \in H
    PROVE  \A n \in Nat : n \in H
<1> DEFINE Bad == Nat \ H
<1>1. SUFFICES ASSUME Bad # {} PROVE FALSE
  OBVIOUS
<1>2. PICK x \in Bad : \A y \in Bad : x <= y
  BY <1>1, Least
<1>3. x \in Nat /\ x # 0
  BY <1>2
<1>4. x - 1 \in Nat /\ ~(x <= x - 1)
  BY <1>3
<1>5. x - 1 \in H
  BY <1>2, <1>4
<1>6. (x - 1) + 1 \in H
  BY <1>5
<1>7. QED
  BY <1>2, <1>3, <1>6

\* Two bytes joined are the number that was split.
LEMMA WordIs ==
    ASSUME NEW v \in Words
    PROVE  High(v) \in Byte /\ Low(v) \in Byte /\ Word(High(v), Low(v)) = v
<1>1. v \div 256 \in 0..255 /\ v % 256 \in 0..255 /\ v = 256 * (v \div 256) + (v % 256)
  <2>1. v \in Int /\ 0 <= v /\ v <= 256 * 256 - 1
    <3> DEFINE w == 256 * 256 - 1
    <3>0. Words = 0..w
      BY Zenon DEF Words
    <3>1. w \in Int
      OBVIOUS
    <3> HIDE DEF w
    <3>2. v \in Int /\ 0 <= v /\ v <= w
      BY <3>0, <3>1
    <3>3. QED
      BY <3>2 DEF w
  <2>2. v \div 256 \in Int /\ v % 256 \in 0..255 /\ v = 256 * (v \div 256) + (v % 256)
    BY <2>1
  <2>3. QED
    BY <2>1, <2>2
<1>2. (v \div 256) % 256 = v \div 256
  BY <1>1
<1>3. QED
  BY <1>1, <1>2 DEF High, Low, Word, Byte

\* The bytes of any number are bytes.
LEMMA BytesAre ==
    ASSUME NEW v \in Int
    PROVE  High(v) \in Byte /\ Low(v) \in Byte
<1>1. v \div 256 \in Int
  OBVIOUS
<1>2. QED
  BY <1>1 DEF High, Low, Byte

-----------------------------------------------------------------------------
(* Frames.                                                                 *)

\* The sums of bytes are numbers.
LEMMA SumsAre ==
    ASSUME NEW body \in Seq(Nat)
    PROVE  Sums(body)[Len(body)] \in Nat
<1> DEFINE n == Len(body)
           Body(f) == [i \in 0..n |-> IF i = 0 THEN 0 ELSE f[i - 1] + body[i]]
           Adds(g, k) == /\ g \in [0..k -> Nat] /\ g[0] = 0
                         /\ \A i \in 1..k : g[i] = g[i - 1] + body[i]
           H == {k \in Nat : k <= n => \E g : Adds(g, k)}
<1>1. n \in Nat /\ \A i \in 1..n : body[i] \in Nat
  OBVIOUS
<1>2. 0 \in H
  <2>1. Adds([i \in 0..0 |-> 0], 0)
    OBVIOUS
  <2>2. QED
    BY <2>1
<1>3. ASSUME NEW k \in H PROVE k + 1 \in H
  <2>1. SUFFICES ASSUME k + 1 <= n PROVE \E g : Adds(g, k + 1)
    <3> HIDE DEF Adds, n
    <3>1. k + 1 \in Nat
      OBVIOUS
    <3>2. QED
      BY <3>1
  <2>2. k \in Nat /\ k <= n /\ k + 1 \in 1..n
    BY <1>1, <2>1
  <2>3. PICK g : Adds(g, k)
    BY <2>2
  <2> DEFINE h == [i \in 0..k + 1 |-> IF i = k + 1 THEN g[k] + body[k + 1] ELSE g[i]]
  <2>4. g[k] + body[k + 1] \in Nat
    BY <1>1, <2>2, <2>3
  <2>5. h \in [0..k + 1 -> Nat] /\ h[0] = 0
    BY <2>2, <2>3, <2>4
  <2>6. ASSUME NEW i \in 1..k + 1 PROVE h[i] = h[i - 1] + body[i]
    <3>1. i - 1 \in 0..k + 1 /\ i - 1 # k + 1 /\ i \in 0..k + 1
      BY <2>2
    <3>2. CASE i = k + 1
      <4>1. i - 1 = k
        BY <2>2, <3>2
      <4>2. QED
        BY <3>1, <3>2, <4>1
    <3>3. CASE i # k + 1
      <4>1. i \in 1..k
        BY <2>2, <3>3
      <4>2. QED
        BY <2>3, <3>1, <3>3, <4>1
    <3>4. QED
      BY <3>2, <3>3
  <2>7. QED
    BY <2>5, <2>6
<1>4. n \in H
  <2> HIDE DEF H
  <2>1. H \in SUBSET Nat
    BY DEF H
  <2>2. QED
    BY <1>1, <1>2, <1>3, <2>1, NumbersInduction
<1>5. PICK g : Adds(g, n)
  BY <1>1, <1>4
<1>6. g = Body(g)
  <2>1. \A i \in 0..n : g[i] = Body(g)[i]
    BY <1>1, <1>5
  <2>2. QED
    BY <1>5, <2>1
<1>7. Sums(body) = CHOOSE f : f = Body(f)
  BY DEF Sums
<1> DEFINE s == Sums(body)
<1>8. s = Body(s)
  BY <1>6, <1>7
<1> HIDE DEF s
<1>9. s[0] = 0 /\ \A i \in 1..n : s[i] = s[i - 1] + body[i]
  <2>1. 0 \in 0..n /\ \A i \in 1..n : i \in 0..n /\ i # 0
    BY <1>1
  <2>2. QED
    BY <1>8, <2>1
<1> DEFINE G == {k \in Nat : k <= n => s[k] \in Nat}
<1>10. 0 \in G
  BY <1>9
<1>11. ASSUME NEW k \in G PROVE k + 1 \in G
  <2>1. SUFFICES ASSUME k + 1 <= n PROVE s[k + 1] \in Nat
    OBVIOUS
  <2>2. k \in Nat /\ k + 1 \in 1..n /\ k <= n /\ (k + 1) - 1 = k
    BY <1>1, <2>1
  <2>3. s[k + 1] = s[k] + body[k + 1] /\ s[k] \in Nat /\ body[k + 1] \in Nat
    BY <1>1, <1>9, <2>2
  <2>4. QED
    BY <2>3
<1>12. n \in G
  <2> HIDE DEF G
  <2>1. G \in SUBSET Nat
    BY DEF G
  <2>2. QED
    BY <1>1, <1>10, <1>11, <2>1, NumbersInduction
<1>13. QED
  BY <1>1, <1>12 DEF s

\* A checksum is two bytes.
LEMMA ChecksumIs ==
    ASSUME NEW body \in Seq(Nat)
    PROVE  /\ Checksum(body) \in Seq(Nat) /\ Len(Checksum(body)) = 2
           /\ Checksum(body) = <<Checksum(body)[1], Checksum(body)[2]>>
<1> DEFINE v == Sums(body)[Len(body)]
           h == High(v)
           l == Low(v)
<1>1. v \in Int
  BY SumsAre
<1>2. Checksum(body) = <<h, l>>
  BY DEF Checksum
<1> HIDE DEF v
<1>3. h \in Nat /\ l \in Nat
  <2>1. High(v) \in Byte /\ Low(v) \in Byte
    BY <1>1, BytesAre
  <2>2. \A x \in Byte : x \in Nat
    BY DEF Byte
  <2>3. QED
    BY <2>1, <2>2
<1> HIDE DEF h, l
<1>4. <<h, l>> \in Seq(Nat) /\ Len(<<h, l>>) = 2 /\ <<h, l>>[1] = h /\ <<h, l>>[2] = l
  BY <1>3
<1>5. QED
  BY <1>2, <1>4

\* Sequence u is s, of length m, and then t, of length n.
IsJoin(u, s, m, t, n) ==
    /\ Len(u) = m + n
    /\ \A i \in 1..(m + n) : u[i] = IF i <= m THEN s[i] ELSE t[i - m]
    /\ SubSeq(u, 1, m) = s /\ SubSeq(u, m + 1, m + n) = t

\* What two sequences joined are.
LEMMA Joined ==
    ASSUME NEW S, NEW s \in Seq(S), NEW t \in Seq(S), NEW m \in Nat, NEW n \in Nat,
           Len(s) = m, Len(t) = n
    PROVE  s \o t \in Seq(S) /\ IsJoin(s \o t, s, m, t, n)
<1> DEFINE u == s \o t
<1>1. /\ u \in Seq(S) /\ Len(u) = m + n
      /\ \A i \in 1..(m + n) : u[i] = IF i <= m THEN s[i] ELSE t[i - m]
  BY ConcatProperties
<1> HIDE DEF u
<1>2. s = [i \in 1..m |-> s[i]] /\ t = [i \in 1..n |-> t[i]]
  OBVIOUS
<1>3. SubSeq(u, 1, m) = [i \in 1..m |-> u[i]]
  BY <1>1
<1>4. \A i \in 1..m : u[i] = s[i]
  BY <1>1
<1>5. SubSeq(u, 1, m) = s
  BY <1>2, <1>3, <1>4
<1>6. SubSeq(u, m + 1, m + n) = [i \in 1..n |-> u[m + i]]
  BY <1>1
<1>7. \A i \in 1..n : u[m + i] = t[i]
  <2> SUFFICES ASSUME NEW i \in 1..n PROVE u[m + i] = t[i]
    OBVIOUS
  <2>1. m + i \in 1..(m + n) /\ ~(m + i <= m) /\ m + i - m = i
    OBVIOUS
  <2>2. QED
    BY <1>1, <2>1
<1>8. SubSeq(u, m + 1, m + n) = t
  BY <1>2, <1>6, <1>7
<1>9. QED
  BY <1>1, <1>5, <1>8 DEF u, IsJoin

\* Joining is associative.
LEMMA JoinedTwice ==
    \A s, t, u \in Seq(Nat) : (s \o t) \o u = s \o (t \o u)
BY ConcatAssociative, SMTT(60)

\* A piece of the beginning is a piece of the whole.
LEMMA SubSeqWithin ==
    ASSUME NEW F \in Seq(Nat), NEW d \in Nat, Len(F) = (6 + d) + 2
    PROVE  SubSeq(SubSeq(F, 1, 6 + d), 7, 6 + d) = SubSeq(F, 7, 6 + d)
<1> DEFINE u == SubSeq(F, 1, 6 + d)
<1>1. u = [i \in 1..6 + d |-> F[i]]
  OBVIOUS
<1>2. u \in Seq(Nat) /\ Len(u) = 6 + d /\ \A i \in 1..6 + d : u[i] = F[i]
  OBVIOUS
<1> HIDE DEF u
<1>3. SubSeq(u, 7, 6 + d) = [i \in 1..d |-> u[6 + i]]
  BY <1>2
<1>4. SubSeq(F, 7, 6 + d) = [i \in 1..d |-> F[6 + i]]
  OBVIOUS
<1>5. \A i \in 1..d : u[6 + i] = F[6 + i]
  BY <1>2
<1>6. QED
  BY <1>3, <1>4, <1>5 DEF u

\* A frame, from its start byte to its checksum.
Frame(F) ==
    /\ F \in Seq(Nat) /\ Len(F) >= 8 /\ Len(F) <= 263
    /\ F[1] = START /\ F[6] = Len(F) - 8
    /\ Checksum(SubSeq(F, 1, Len(F) - 2)) = <<F[Len(F) - 1], F[Len(F)]>>

\* Bytes B are a preamble and a frame that says what build() was told.
Carries(B, dst, src, action, data) ==
    \E F : /\ B = PREAMBLE \o F /\ Frame(F)
           /\ FrameAt(F, 1) = [dst |-> dst, src |-> src, action |-> action, data |-> data]

\* build() makes a frame of what it is given, behind a preamble.
LEMMA BuildIs ==
    ASSUME NEW dst \in Nat, NEW src \in Nat, NEW action \in Nat,
           NEW data \in Seq(Nat), Len(data) <= 255
    PROVE  Carries(Build(dst, src, action, data), dst, src, action, data)
<1> DEFINE d == Len(data)
           head == <<START, PROTOCOL, dst, src, action, d>>
           body == head \o data
           ck == Checksum(body)
           F == body \o ck
<1>1. d \in Nat /\ d <= 255
  OBVIOUS
<1>2. /\ head \in Seq(Nat) /\ Len(head) = 6
      /\ head[1] = START /\ head[3] = dst /\ head[4] = src /\ head[5] = action /\ head[6] = d
  BY <1>1 DEF START, PROTOCOL
<1>3. PREAMBLE \in Seq(Nat)
  BY DEF PREAMBLE
<1>4. Build(dst, src, action, data) = PREAMBLE \o body \o ck
  BY DEF Build
<1>5. Len(data) = d
  OBVIOUS
<1> HIDE DEF d, head
<1>6. /\ body \in Seq(Nat) /\ Len(body) = 6 + d
      /\ \A i \in 1..(6 + d) : body[i] = IF i <= 6 THEN head[i] ELSE data[i - 6]
      /\ SubSeq(body, 6 + 1, 6 + d) = data
  <2>1. data \in Seq(Nat) /\ 6 \in Nat
    OBVIOUS
  <2>2. body \in Seq(Nat) /\ IsJoin(body, head, 6, data, d)
    BY <1>1, <1>2, <1>5, <2>1, Joined
  <2>3. QED
    BY <2>2 DEF IsJoin
<1> HIDE DEF body
<1>8. ck = Checksum(body)
  OBVIOUS
<1> HIDE DEF ck
<1>7. ck \in Seq(Nat) /\ Len(ck) = 2 /\ ck = <<ck[1], ck[2]>>
  BY <1>6, <1>8, ChecksumIs
<1>9. /\ F \in Seq(Nat) /\ Len(F) = (6 + d) + 2
      /\ \A i \in 1..((6 + d) + 2) : F[i] = IF i <= 6 + d THEN body[i] ELSE ck[i - (6 + d)]
      /\ SubSeq(F, 1, 6 + d) = body
  <2> DEFINE m == 6 + d
  <2>1. /\ body \in Seq(Nat) /\ Len(body) = m /\ m \in Nat
        /\ ck \in Seq(Nat) /\ Len(ck) = 2 /\ 2 \in Nat
    BY <1>1, <1>6, <1>7
  <2> HIDE DEF m
  <2>2. F \in Seq(Nat) /\ IsJoin(F, body, m, ck, 2)
    BY <2>1, Joined
  <2>3. QED
    BY <2>2 DEF IsJoin, m
<1>10. PREAMBLE \o body \o ck = PREAMBLE \o F
  <2>1. PREAMBLE \in Seq(Nat) /\ body \in Seq(Nat) /\ ck \in Seq(Nat)
    BY <1>3, <1>6, <1>7
  <2>2. QED
    BY <2>1, JoinedTwice, Zenon
<1>11. SubSeq(F, 7, 6 + d) = data
  <2>1. SubSeq(SubSeq(F, 1, 6 + d), 7, 6 + d) = SubSeq(F, 7, 6 + d)
    <3> HIDE DEF F
    <3>1. QED
      BY <1>1, <1>9, SubSeqWithin
  <2>2. 6 + 1 = 7
    OBVIOUS
  <2>3. SubSeq(body, 7, 6 + d) = data
    BY <1>6, <2>2
  <2> HIDE DEF F
  <2>4. QED
    BY <1>9, <2>1, <2>3
<1> HIDE DEF F
<1>12. F[1] = START /\ F[3] = dst /\ F[4] = src /\ F[5] = action /\ F[6] = d
  <2>1. /\ 1 \in 1..(6 + d) /\ 3 \in 1..(6 + d) /\ 4 \in 1..(6 + d)
        /\ 5 \in 1..(6 + d) /\ 6 \in 1..(6 + d)
    BY <1>1
  <2>2. \A i \in 1..(6 + d) : i \in 1..((6 + d) + 2) /\ i <= 6 + d
    BY <1>1
  <2>3. QED
    BY <1>2, <1>6, <1>9, <2>1, <2>2
<1>13. F[7 + d] = ck[1] /\ F[8 + d] = ck[2]
  <2>1. /\ 7 + d \in 1..((6 + d) + 2) /\ ~(7 + d <= 6 + d) /\ 7 + d - (6 + d) = 1
        /\ 8 + d \in 1..((6 + d) + 2) /\ ~(8 + d <= 6 + d) /\ 8 + d - (6 + d) = 2
    BY <1>1
  <2>2. /\ F[7 + d] = ck[7 + d - (6 + d)]
        /\ F[8 + d] = ck[8 + d - (6 + d)]
    <3>1. \A i \in 1..((6 + d) + 2) : ~(i <= 6 + d) => F[i] = ck[i - (6 + d)]
      BY <1>9
    <3>2. QED
      BY <1>1, <3>1, <2>1
  <2>3. QED
    BY <2>1, <2>2
<1>14. Frame(F)
  <2>1. Len(F) - 8 = d /\ Len(F) - 2 = 6 + d /\ Len(F) - 1 = 7 + d /\ Len(F) >= 8 /\ Len(F) <= 263
    BY <1>1, <1>9
  <2>2. Checksum(SubSeq(F, 1, Len(F) - 2)) = <<F[Len(F) - 1], F[Len(F)]>>
    <3>1. Checksum(SubSeq(F, 1, 6 + d)) = <<ck[1], ck[2]>>
      BY <1>7, <1>8, <1>9
    <3>2. QED
      BY <1>1, <1>9, <1>13, <2>1, <3>1
  <2>3. QED
    BY <1>9, <1>12, <2>1, <2>2 DEF Frame
<1>15. FrameAt(F, 1) = [dst |-> dst, src |-> src, action |-> action, data |-> data]
  <2>1. 1 + HEADER + F[1 + 5] - 1 = 6 + d /\ 1 + HEADER = 7
    BY <1>1, <1>12 DEF HEADER
  <2>2. 1 + 2 = 3 /\ 1 + 3 = 4 /\ 1 + 4 = 5
    OBVIOUS
  <2>3. QED
    BY <1>11, <1>12, <2>1, <2>2 DEF FrameAt, DataLen
<1>16. QED
  BY <1>4, <1>10, <1>14, <1>15 DEF Carries
\* A frame that tells the guardian, or pool-api when onBus, a message.
Says(bus, F, m) ==
    Frame(F) /\ (IF bus THEN StatusOf(FrameAt(F, 1)) ELSE Sniffed(FrameAt(F, 1))) = <<m>>

\* What the guardian makes of a frame that carries a command.
LEMMA SniffedIs ==
    ASSUME NEW B, NEW action, NEW data, NEW m,
           Carries(B, ADDR_PUMP, ADDR_CONTROLLER, action, data),
           \/ action = REMOTE_CONTROL /\ m = [cmd |-> "remote", val |-> data[1] = REMOTE_ENABLE]
           \/ action = RUN_STOP /\ m = [cmd |-> "run", val |-> data[1] = RUN]
           \/ /\ action = SET_REGISTER /\ Len(data) >= 4 /\ SubSeq(data, 1, 2) = REG_RPM
              /\ m = [cmd |-> "rpm", val |-> Word(data[3], data[4])]
           \/ action = STATUS /\ m = [cmd |-> "status", val |-> 0]
    PROVE  \E F : B = PREAMBLE \o F /\ Says(FALSE, F, m)
<1>1. PICK F : /\ B = PREAMBLE \o F /\ Frame(F)
               /\ FrameAt(F, 1) = [dst |-> ADDR_PUMP, src |-> ADDR_CONTROLLER,
                                   action |-> action, data |-> data]
  BY DEF Carries
<1> DEFINE f == FrameAt(F, 1)
<1>2. f.dst = ADDR_PUMP /\ f.action = action /\ f.data = data
  BY <1>1
<1> HIDE DEF f
<1>3. Sniffed(f) = <<m>>
  <2>1. CASE action = REMOTE_CONTROL /\ m = [cmd |-> "remote", val |-> data[1] = REMOTE_ENABLE]
    BY <1>2, <2>1 DEF Sniffed, REMOTE_CONTROL, RUN_STOP, SET_REGISTER
  <2>2. CASE action = RUN_STOP /\ m = [cmd |-> "run", val |-> data[1] = RUN]
    BY <1>2, <2>2 DEF Sniffed, REMOTE_CONTROL, RUN_STOP, SET_REGISTER
  <2>3. CASE /\ action = SET_REGISTER /\ Len(data) >= 4 /\ SubSeq(data, 1, 2) = REG_RPM
             /\ m = [cmd |-> "rpm", val |-> Word(data[3], data[4])]
    BY <1>2, <2>3 DEF Sniffed, REMOTE_CONTROL, RUN_STOP, SET_REGISTER
  <2>4. CASE action = STATUS /\ m = [cmd |-> "status", val |-> 0]
    BY <1>2, <2>4 DEF Sniffed, REMOTE_CONTROL, RUN_STOP, SET_REGISTER, STATUS
  <2>5. QED
    BY <2>1, <2>2, <2>3, <2>4
<1>4. QED
  BY <1>1, <1>3 DEF Says, f

\* A command reaches the guardian as the command it is.
LEMMA CommandIs ==
    ASSUME NEW c \in Commands
    PROVE  \E F : Encode(c) = PREAMBLE \o F /\ Says(FALSE, F, Intended(c))
<1>0. ADDR_PUMP \in Nat /\ ADDR_CONTROLLER \in Nat
  BY DEF ADDR_PUMP, ADDR_CONTROLLER
<1>1. CASE \E e \in BOOLEAN : c = [cmd |-> "remote", val |-> e]
  <2>1. PICK e \in BOOLEAN : c = [cmd |-> "remote", val |-> e]
    BY <1>1
  <2> DEFINE x == IF e THEN REMOTE_ENABLE ELSE REMOTE_RELEASE
             data == <<x>>
  <2>2. x \in Nat /\ (x = REMOTE_ENABLE) = e /\ REMOTE_CONTROL \in Nat
    BY DEF REMOTE_ENABLE, REMOTE_RELEASE, REMOTE_CONTROL
  <2>3. Encode(c) = Build(ADDR_PUMP, ADDR_CONTROLLER, REMOTE_CONTROL, data)
    BY <2>1 DEF Encode, RemoteControl, Command
  <2> HIDE DEF x
  <2>4. data \in Seq(Nat) /\ Len(data) <= 255 /\ data[1] = x
    BY <2>2
  <2>5. Intended(c) = [cmd |-> "remote", val |-> data[1] = REMOTE_ENABLE]
    BY <2>1, <2>2, <2>4 DEF Intended
  <2> HIDE DEF data
  <2>6. Carries(Encode(c), ADDR_PUMP, ADDR_CONTROLLER, REMOTE_CONTROL, data)
    BY <1>0, <2>2, <2>3, <2>4, BuildIs
  <2>7. QED
    BY <2>5, <2>6, SniffedIs
<1>2. CASE \E e \in BOOLEAN : c = [cmd |-> "run", val |-> e]
  <2>1. PICK e \in BOOLEAN : c = [cmd |-> "run", val |-> e]
    BY <1>2
  <2> DEFINE x == IF e THEN RUN ELSE STOP
             data == <<x>>
  <2>2. x \in Nat /\ (x = RUN) = e /\ RUN_STOP \in Nat
    BY DEF RUN, STOP, RUN_STOP
  <2>3. Encode(c) = Build(ADDR_PUMP, ADDR_CONTROLLER, RUN_STOP, data)
    BY <2>1 DEF Encode, RunStop, Command
  <2> HIDE DEF x
  <2>4. data \in Seq(Nat) /\ Len(data) <= 255 /\ data[1] = x
    BY <2>2
  <2>5. Intended(c) = [cmd |-> "run", val |-> data[1] = RUN]
    BY <2>1, <2>2, <2>4 DEF Intended
  <2> HIDE DEF data
  <2>6. Carries(Encode(c), ADDR_PUMP, ADDR_CONTROLLER, RUN_STOP, data)
    BY <1>0, <2>2, <2>3, <2>4, BuildIs
  <2>7. QED
    BY <2>5, <2>6, SniffedIs
<1>3. CASE \E r \in Rpms : c = [cmd |-> "rpm", val |-> r]
  <2>1. PICK r \in Rpms : c = [cmd |-> "rpm", val |-> r]
    BY <1>3
  <2> DEFINE v == ClampRpm(r)
             h == High(v)
             l == Low(v)
             data == REG_RPM \o <<h, l>>
  <2>2. v \in Words
    <3>1. r \in Nat
      BY <2>1, FrameStreamAssumption
    <3>2. v \in Nat /\ v <= 3450
      BY <3>1 DEF ClampRpm, RPM_MIN, RPM_MAX
    <3> HIDE DEF v
    <3> DEFINE w == 256 * 256 - 1
    <3>3. Words = 0..w
      BY Zenon DEF Words
    <3>4. w \in Int /\ 3450 <= w
      OBVIOUS
    <3> HIDE DEF w
    <3>5. QED
      BY <3>2, <3>3, <3>4
  <2>3. Encode(c) = Build(ADDR_PUMP, ADDR_CONTROLLER, SET_REGISTER, data)
    BY <2>1 DEF Encode, SetRpm, Command
  <2>4. Intended(c) = [cmd |-> "rpm", val |-> v]
    BY <2>1 DEF Intended
  <2> HIDE DEF v
  <2>5. h \in Byte /\ l \in Byte /\ Word(h, l) = v
    BY <2>2, WordIs
  <2> HIDE DEF h, l
  <2>6. h \in Nat /\ l \in Nat /\ SET_REGISTER \in Nat
    BY <2>5 DEF Byte, SET_REGISTER
  <2>7. /\ data \in Seq(Nat) /\ Len(data) = 4 /\ data[3] = h /\ data[4] = l
        /\ SubSeq(data, 1, 2) = REG_RPM
    <3>1. REG_RPM \in Seq(Nat) /\ Len(REG_RPM) = 2
      BY DEF REG_RPM
    <3> DEFINE t == <<h, l>>
    <3>2. t \in Seq(Nat) /\ Len(t) = 2 /\ t[1] = h /\ t[2] = l
      BY <2>6
    <3> HIDE DEF t
    <3>3. data \in Seq(Nat) /\ IsJoin(data, REG_RPM, 2, t, 2)
      <4>1. REG_RPM \o t \in Seq(Nat) /\ IsJoin(REG_RPM \o t, REG_RPM, 2, t, 2)
        BY <3>1, <3>2, Joined
      <4>2. QED
        BY <4>1 DEF t
    <3> HIDE DEF data
    <3>4. QED
      BY <3>2, <3>3 DEF IsJoin
  <2> HIDE DEF data
  <2>8. Carries(Encode(c), ADDR_PUMP, ADDR_CONTROLLER, SET_REGISTER, data)
    <3>1. data \in Seq(Nat) /\ Len(data) <= 255
      BY <2>7
    <3>2. QED
      BY <1>0, <2>3, <2>6, <3>1, BuildIs
  <2>9. Len(data) >= 4 /\ Intended(c) = [cmd |-> "rpm", val |-> Word(data[3], data[4])]
    BY <2>4, <2>5, <2>7
  <2>10. QED
    BY <2>7, <2>8, <2>9, SniffedIs
<1>4. CASE c = [cmd |-> "status", val |-> 0]
  <2> DEFINE data == << >>
  <2>1. Encode(c) = Build(ADDR_PUMP, ADDR_CONTROLLER, STATUS, data)
    BY <1>4 DEF Encode, StatusRequest, Command
  <2>2. data \in Seq(Nat) /\ Len(data) <= 255 /\ STATUS \in Nat
    BY DEF STATUS
  <2> HIDE DEF data
  <2>3. Carries(Encode(c), ADDR_PUMP, ADDR_CONTROLLER, STATUS, data)
    BY <1>0, <2>1, <2>2, BuildIs
  <2>4. Intended(c) = [cmd |-> "status", val |-> 0]
    BY <1>4 DEF Intended
  <2>5. QED
    BY <2>3, <2>4, SniffedIs
<1>5. QED
  BY <1>1, <1>2, <1>3, <1>4 DEF Commands

\* A sequence of fifteen numbers.
LEMMA FifteenAre ==
    ASSUME NEW a1 \in Nat, NEW a2 \in Nat, NEW a3 \in Nat, NEW a4 \in Nat, NEW a5 \in Nat,
           NEW a6 \in Nat, NEW a7 \in Nat, NEW a8 \in Nat, NEW a9 \in Nat, NEW a10 \in Nat,
           NEW a11 \in Nat, NEW a12 \in Nat, NEW a13 \in Nat, NEW a14 \in Nat, NEW a15 \in Nat,
           NEW d,
           d = <<a1, a2, a3, a4, a5, a6, a7, a8, a9, a10, a11, a12, a13, a14, a15>>
    PROVE  /\ d \in Seq(Nat) /\ Len(d) = 15
           /\ d[1] = a1 /\ d[3] = a3 /\ d[4] = a4 /\ d[5] = a5 /\ d[6] = a6
           /\ d[7] = a7 /\ d[12] = a12 /\ d[13] = a13 /\ d[14] = a14 /\ d[15] = a15
<1>1. Len(d) = 15
  OBVIOUS
<1>2. d \in Seq(Nat)
  OBVIOUS
<1>3. /\ d[1] = a1 /\ d[3] = a3 /\ d[4] = a4 /\ d[5] = a5 /\ d[6] = a6
      /\ d[7] = a7 /\ d[12] = a12 /\ d[13] = a13 /\ d[14] = a14 /\ d[15] = a15
  OBVIOUS
<1>4. QED
  BY <1>1, <1>2, <1>3

\* A reply reaches pool-api as the status it is.
LEMMA ReplyIs ==
    ASSUME NEW s \in Replies
    PROVE  \E F : Reply(s) = PREAMBLE \o F /\ Says(TRUE, F, s)
<1>0. ADDR_PUMP \in Nat /\ ADDR_CONTROLLER \in Nat /\ STATUS \in Nat
  BY DEF ADDR_PUMP, ADDR_CONTROLLER, STATUS
<1> DEFINE run == IF s.running THEN RUN ELSE STOP
           wh == High(s.watts)  wl == Low(s.watts)
           rh == High(s.rpm)    rl == Low(s.rpm)
           sh == High(s.statusWord)  sl == Low(s.statusWord)
           ch == s.clockMinutes \div 60  cl == s.clockMinutes % 60
           data == <<run, 0, s.driveState, wh, wl, rh, rl, 0, 0, 0, 0, sh, sl, ch, cl>>
<1>1. s \in Statuses
  BY FrameStreamAssumption
<1>2. /\ s.running \in BOOLEAN /\ s.driveState \in Byte /\ s.watts \in Words
      /\ s.rpm \in Words /\ s.statusWord \in Words
      /\ s.clockMinutes \in 0..256 * 60 - 1
      /\ s = [running |-> s.running, driveState |-> s.driveState, watts |-> s.watts,
              rpm |-> s.rpm, statusWord |-> s.statusWord, clockMinutes |-> s.clockMinutes]
  <2>1. /\ s.running \in BOOLEAN /\ s.driveState \in Byte /\ s.watts \in Words
        /\ s.rpm \in Words /\ s.statusWord \in Words
        /\ s.clockMinutes \in 0..256 * 60 - 1
    BY <1>1 DEF Statuses
  <2>2. s = [running |-> s.running, driveState |-> s.driveState, watts |-> s.watts,
             rpm |-> s.rpm, statusWord |-> s.statusWord, clockMinutes |-> s.clockMinutes]
    BY <1>1, Zenon DEF Statuses
  <2>3. QED
    BY <2>1, <2>2
<1>3. Reply(s) = Build(ADDR_CONTROLLER, ADDR_PUMP, STATUS, data)
  BY DEF Reply
<1>4. /\ wh \in Byte /\ wl \in Byte /\ Word(wh, wl) = s.watts
      /\ rh \in Byte /\ rl \in Byte /\ Word(rh, rl) = s.rpm
      /\ sh \in Byte /\ sl \in Byte /\ Word(sh, sl) = s.statusWord
  BY <1>2, WordIs
<1>5. ch \in Nat /\ cl \in Nat /\ ch * 60 + cl = s.clockMinutes
  <2> DEFINE m == s.clockMinutes
  <2>1. m \in 0..256 * 60 - 1
    BY <1>2, Zenon
  <2> HIDE DEF m
  <2>2. m \in Nat
    BY <2>1
  <2>3. m \div 60 \in Nat /\ m % 60 \in Nat /\ (m \div 60) * 60 + (m % 60) = m
    BY <2>2
  <2>4. QED
    BY <2>3 DEF m
<1>6. run \in Nat /\ (run = RUN) = s.running
  <2>1. CASE s.running = TRUE
    <3>1. run = RUN /\ RUN \in Nat
      BY <2>1 DEF RUN
    <3> HIDE DEF run
    <3>2. QED
      BY <2>1, <3>1
  <2>2. CASE s.running = FALSE
    <3>1. run = STOP /\ STOP \in Nat /\ STOP # RUN
      BY <2>2 DEF RUN, STOP
    <3> HIDE DEF run
    <3>2. (run = RUN) = FALSE
      BY <3>1
    <3>3. QED
      BY <2>2, <3>1, <3>2
  <2>3. QED
    BY <1>2, <2>1, <2>2
<1> HIDE DEF run, wh, wl, rh, rl, sh, sl, ch, cl
<1>7. \A x \in Byte : x \in Nat
  BY DEF Byte
<1>8. /\ wh \in Nat /\ wl \in Nat /\ rh \in Nat /\ rl \in Nat /\ sh \in Nat /\ sl \in Nat
      /\ s.driveState \in Nat
  BY <1>2, <1>4, <1>7
<1>9. /\ data \in Seq(Nat) /\ Len(data) = 15
      /\ data[1] = run /\ data[3] = s.driveState /\ data[4] = wh /\ data[5] = wl
      /\ data[6] = rh /\ data[7] = rl /\ data[12] = sh /\ data[13] = sl
      /\ data[14] = ch /\ data[15] = cl
  BY <1>5, <1>6, <1>8, FifteenAre
<1> HIDE DEF data
<1>10. Carries(Reply(s), ADDR_CONTROLLER, ADDR_PUMP, STATUS, data)
  <2>1. Len(data) <= 255
    BY <1>9
  <2>2. QED
    BY <1>0, <1>3, <1>9, <2>1, BuildIs
<1>11. DecodeStatus(data) = s
  <2>1. DecodeStatus(data) =
          [running |-> run = RUN, driveState |-> s.driveState, watts |-> Word(wh, wl),
           rpm |-> Word(rh, rl), statusWord |-> Word(sh, sl), clockMinutes |-> ch * 60 + cl]
    BY <1>9 DEF DecodeStatus
  <2>2. QED
    BY <1>2, <1>4, <1>5, <1>6, <2>1
<1>12. PICK F : /\ Reply(s) = PREAMBLE \o F /\ Frame(F)
                /\ FrameAt(F, 1) = [dst |-> ADDR_CONTROLLER, src |-> ADDR_PUMP,
                                    action |-> STATUS, data |-> data]
  BY <1>10 DEF Carries
<1> DEFINE f == FrameAt(F, 1)
<1>13. f.src = ADDR_PUMP /\ f.action = STATUS /\ f.data = data
  BY <1>12
<1> HIDE DEF f
<1>14. StatusOf(f) = <<s>>
  <2>1. IsPumpStatus(f) /\ Len(f.data) >= 15
    <3>1. IsPumpStatus(f)
      BY <1>13 DEF IsPumpStatus
    <3>2. Len(data) >= 15
      BY <1>9
    <3>3. QED
      BY <1>13, <3>1, <3>2
  <2>2. DecodeStatus(f.data) = s
    BY <1>11, <1>13
  <2>3. QED
    BY <2>1, <2>2 DEF StatusOf
<1>15. QED
  BY <1>12, <1>14 DEF Says, f
-----------------------------------------------------------------------------
(* What the readers make of the frames they find.                          *)

\* Sequences of one element each, joined.
LEMMA FlattenIs ==
    ASSUME NEW M, NEW x \in Seq(M)
    PROVE  FlattenSeq([i \in 1..Len(x) |-> <<x[i]>>]) = x
<1> DEFINE n == Len(x)
           ss == [i \in 1..n |-> <<x[i]>>]
<1>1. n \in Nat /\ x = [i \in 1..n |-> x[i]] /\ \A i \in 1..n : x[i] \in M
  OBVIOUS
<1>2. Len(ss) = n /\ \A i \in 1..n : ss[i] = <<x[i]>>
  BY <1>1
<1>3. CASE n = 0
  <2>1. FlattenSeq(ss) = ss
    BY <1>2, <1>3 DEF FlattenSeq
  <2>2. ss = x
    <3>1. \A i \in 1..n : ss[i] = x[i]
      BY <1>3
    <3>2. QED
      BY <1>1, <3>1
  <2>3. QED
    BY <2>1, <2>2
<1>4. CASE n # 0
  <2> HIDE DEF ss
  <2> DEFINE Body(f) == [i \in 1..n |-> IF i = 1 THEN ss[i] ELSE f[i - 1] \o ss[i]]
             g == [i \in 1..n |-> SubSeq(x, 1, i)]
             f == CHOOSE h : h = Body(h)
  <2>1. FlattenSeq(ss) = f[n]
    BY <1>2, <1>4 DEF FlattenSeq
  <2>2. SubSeq(x, 1, 1) = ss[1]
    BY <1>1, <1>2, <1>4
  <2>3. ASSUME NEW i \in 1..n, i # 1 PROVE SubSeq(x, 1, i - 1) \o ss[i] = SubSeq(x, 1, i)
    <3>1. 1 \in 1..Len(x) /\ i \in 1..Len(x)
      BY <1>1, <2>3
    <3>2. SubSeq(x, 1, i) = SubSeq(x, 1, i - 1) \o <<x[i]>>
      BY <3>1, SubSeqRecursiveSecond
    <3>3. QED
      BY <1>2, <3>2
  <2>4. g = Body(g)
    <3>1. \A i \in 1..n : g[i] = Body(g)[i]
      <4> SUFFICES ASSUME NEW i \in 1..n PROVE g[i] = Body(g)[i]
        OBVIOUS
      <4>1. CASE i = 1
        BY <2>2, <4>1
      <4>2. CASE i # 1
        <5>1. i - 1 \in 1..n
          BY <1>1, <4>2
        <5>2. QED
          BY <2>3, <4>2, <5>1
      <4>3. QED
        BY <4>1, <4>2
    <3>2. QED
      BY <3>1
  <2>5. f = Body(f)
    BY <2>4
  <2> HIDE DEF f
  <2> DEFINE H == {k \in Nat : k + 1 <= n => f[k + 1] = SubSeq(x, 1, k + 1)}
  <2>6. 0 \in H
    <3>1. 1 \in 1..n
      BY <1>1, <1>4
    <3>2. f[1] = ss[1]
      BY <2>5, <3>1
    <3>3. QED
      BY <2>2, <3>2
  <2>7. ASSUME NEW k \in H PROVE k + 1 \in H
    <3>1. SUFFICES ASSUME (k + 1) + 1 <= n
                   PROVE  f[(k + 1) + 1] = SubSeq(x, 1, (k + 1) + 1)
      OBVIOUS
    <3> DEFINE i == (k + 1) + 1
    <3>2. k \in Nat /\ i \in 1..n /\ i # 1 /\ i - 1 = k + 1 /\ k + 1 <= n
      BY <1>1, <3>1
    <3>3. f[i - 1] = SubSeq(x, 1, i - 1)
      BY <3>2
    <3> HIDE DEF i
    <3>4. f[i] = f[i - 1] \o ss[i]
      BY <2>5, <3>2
    <3>5. f[i] = SubSeq(x, 1, i)
      BY <2>3, <3>2, <3>3, <3>4
    <3>6. QED
      BY <3>5 DEF i
  <2>8. n - 1 \in H
    <3> HIDE DEF H
    <3>1. H \in SUBSET Nat
      BY DEF H
    <3>2. n - 1 \in Nat
      BY <1>1, <1>4
    <3>3. QED
      BY <2>6, <2>7, <3>1, <3>2, NumbersInduction
  <2>9. f[n] = SubSeq(x, 1, n)
    <3>1. (n - 1) + 1 = n /\ n <= n
      BY <1>1
    <3>2. QED
      BY <2>8, <3>1
  <2>10. SubSeq(x, 1, n) = x
    BY <1>1, SubSeqFull
  <2>11. QED
    BY <2>1, <2>9, <2>10 DEF ss
<1>5. QED
  BY <1>3, <1>4

\* What a reader makes of frames that say the messages m.
LEMMA ReadIs ==
    ASSUME NEW M, NEW m \in Seq(M), NEW F, \A j \in 1..Len(m) : Says(onBus, F[j], m[j])
    PROVE  Read([j \in 1..Len(m) |-> FrameAt(F[j], 1)]) = m
<1> DEFINE n == Len(m)
           fs == [j \in 1..n |-> FrameAt(F[j], 1)]
           read(f) == IF onBus THEN StatusOf(f) ELSE Sniffed(f)
<1>1. DOMAIN fs = 1..n /\ \A j \in 1..n : fs[j] = FrameAt(F[j], 1)
  OBVIOUS
<1>2. \A j \in 1..n : read(fs[j]) = <<m[j]>>
  BY <1>1 DEF Says
<1>3. Read(fs) = FlattenSeq([j \in 1..n |-> read(fs[j])])
  BY <1>1 DEF Read
<1> HIDE DEF fs, read
<1>4. [j \in 1..n |-> read(fs[j])] = [j \in 1..n |-> <<m[j]>>]
  BY <1>2
<1>5. FlattenSeq([j \in 1..n |-> <<m[j]>>]) = m
  BY FlattenIs
<1>6. QED
  BY <1>3, <1>4, <1>5 DEF fs
-----------------------------------------------------------------------------
(* The loop of scanFrames() is well defined.                               *)

\* One round of the loop at position i, given what the later rounds return.
Round(buf, v, f, i) ==
    IF i + HEADER - 1 > Len(buf) THEN [frames |-> <<>>, consumed |-> i - 1]
    ELSE IF buf[i] # START THEN f[i + 1]
    ELSE IF LastByte(buf, i) > Len(buf) THEN [frames |-> <<>>, consumed |-> i - 1]
    ELSE IF v /\ ~ChecksumOk(buf, i) THEN f[i + 1]
    ELSE LET rest == f[LastByte(buf, i) + 1]
         IN  [frames |-> <<FrameAt(buf, i)>> \o rest.frames, consumed |-> rest.consumed]

\* A round depends on later rounds only.
LEMMA RoundDepends ==
    ASSUME NEW buf \in Seq(Nat), NEW v, NEW g, NEW h, NEW i \in 1..Len(buf) + 1,
           \A m \in i + 1..Len(buf) + 1 : g[m] = h[m]
    PROVE  Round(buf, v, g, i) = Round(buf, v, h, i)
<1> DEFINE n == Len(buf)
<1>1. n \in Nat
  OBVIOUS
<1>2. CASE i + HEADER - 1 > n
  BY <1>2 DEF Round
<1>3. CASE ~(i + HEADER - 1 > n)
  <2>1. i + 1 \in i + 1..n + 1 /\ i + 5 \in 1..n
    BY <1>1, <1>3 DEF HEADER
  <2>2. buf[i + 5] \in Nat
    BY <2>1
  <2>3. g[i + 1] = h[i + 1]
    BY <2>1
  <2>4. CASE LastByte(buf, i) > n
    BY <1>3, <2>3, <2>4 DEF Round
  <2>5. CASE ~(LastByte(buf, i) > n)
    <3>1. LastByte(buf, i) + 1 \in i + 1..n + 1
      <4> DEFINE d == buf[i + 5]
      <4>1. LastByte(buf, i) = i + 6 + d + 1 /\ d \in Nat /\ i \in Nat
        BY <2>2 DEF LastByte, DataLen, HEADER
      <4> HIDE DEF d, n
      <4>2. QED
        BY <1>1, <2>5, <4>1
    <3>2. g[LastByte(buf, i) + 1] = h[LastByte(buf, i) + 1]
      BY <3>1
    <3>3. QED
      BY <1>3, <2>3, <2>5, <3>2 DEF Round
  <2>6. QED
    BY <2>4, <2>5
<1>4. QED
  BY <1>2, <1>3

\* Every round of Scan is such a round.
LEMMA ScanRounds ==
    ASSUME NEW buf \in Seq(Nat), NEW v
    PROVE  \A i \in 1..Len(buf) + 1 : Scan(buf, v)[i] = Round(buf, v, Scan(buf, v), i)
<1> DEFINE n == Len(buf)
           Body(f) == [i \in 1..n + 1 |-> Round(buf, v, f, i)]
           D(k) == (n + 1) - k..n + 1
           Upto(g, k) == g = [i \in D(k) |-> Round(buf, v, g, i)]
           H == {k \in Nat : k <= n => \E g : Upto(g, k)}
<1>1. n \in Nat
  OBVIOUS
<1>2. 0 \in H
  <2> DEFINE g == [i \in D(0) |-> Round(buf, v, <<>>, i)]
  <2>1. \A i \in D(0) : Round(buf, v, <<>>, i) = Round(buf, v, g, i)
    <3> SUFFICES ASSUME NEW i \in D(0)
                 PROVE  Round(buf, v, <<>>, i) = Round(buf, v, g, i)
      OBVIOUS
    <3>1. i + HEADER - 1 > Len(buf)
      BY <1>1 DEF HEADER
    <3> HIDE DEF g
    <3>2. QED
      BY <3>1 DEF Round
  <2> HIDE DEF D
  <2>2. g = [i \in D(0) |-> Round(buf, v, g, i)]
    BY <2>1
  <2>3. QED
    BY <2>2
<1>3. ASSUME NEW k \in H PROVE k + 1 \in H
  <2>1. SUFFICES ASSUME k + 1 <= n PROVE \E g : Upto(g, k + 1)
    <3> HIDE DEF Upto, n
    <3>1. k + 1 \in Nat
      OBVIOUS
    <3>2. QED
      BY <3>1
  <2>2. k \in Nat /\ k <= n
    BY <1>1, <2>1
  <2>3. PICK g : Upto(g, k)
    BY <2>2
  <2> DEFINE j == (n + 1) - (k + 1)
             h == [i \in D(k + 1) |-> IF i = j THEN Round(buf, v, g, i) ELSE g[i]]
  <2>4. \A i \in D(k + 1) : i \in 1..Len(buf) + 1 /\ (i # j => i \in D(k))
    <3> SUFFICES ASSUME NEW i \in D(k + 1)
                 PROVE  i \in 1..Len(buf) + 1 /\ (i # j => i \in D(k))
      OBVIOUS
    <3>1. i \in Int /\ (n + 1) - (k + 1) <= i /\ i <= n + 1
      BY <1>1, <2>2
    <3>2. i \in 1..Len(buf) + 1
      BY <1>1, <2>1, <2>2, <3>1
    <3>3. i # j => i \in D(k)
      BY <1>1, <2>2, <3>1
    <3>4. QED
      BY <3>2, <3>3
  <2>5. \A i \in D(k + 1) : \A m \in i + 1..Len(buf) + 1 : m \in D(k + 1) /\ m # j
    BY <1>1, <2>1, <2>2
  <2>6. \A i \in D(k) : g[i] = Round(buf, v, g, i)
    BY <2>3
  <2> HIDE DEF D, n, j
  <2>7. \A m \in D(k + 1) : m # j => h[m] = g[m]
    OBVIOUS
  <2>8. \A i \in D(k + 1) : h[i] = Round(buf, v, g, i)
    BY <2>4, <2>6
  <2>9. ASSUME NEW i \in D(k + 1) PROVE Round(buf, v, g, i) = Round(buf, v, h, i)
    <3>1. \A m \in i + 1..Len(buf) + 1 : g[m] = h[m]
      BY <2>5, <2>7, <2>9
    <3>2. i \in 1..Len(buf) + 1
      BY <2>4, <2>9
    <3> HIDE DEF h
    <3>3. QED
      BY <3>1, <3>2, RoundDepends
  <2>10. DOMAIN h = D(k + 1) /\ h = [i \in D(k + 1) |-> h[i]]
    OBVIOUS
  <2> HIDE DEF h
  <2>11. h = [i \in D(k + 1) |-> Round(buf, v, h, i)]
    BY <2>8, <2>9, <2>10
  <2>12. QED
    BY <2>11
<1>4. n \in H
  <2> HIDE DEF H
  <2>1. H \in SUBSET Nat
    BY DEF H
  <2>2. QED
    BY <1>1, <1>2, <1>3, <2>1, NumbersInduction
<1>5. PICK g : Upto(g, n)
  BY <1>1, <1>4
<1>6. D(n) = 1..n + 1
  BY <1>1
<1>7. g = Body(g)
  BY <1>5, <1>6
<1>8. Scan(buf, v) = CHOOSE f : f = Body(f)
  BY DEF Scan, Round
<1> DEFINE s == Scan(buf, v)
<1>9. s = Body(s)
  BY <1>7, <1>8
<1> HIDE DEF s
<1>10. \A i \in 1..n + 1 : s[i] = Round(buf, v, s, i)
  BY <1>9
<1>11. QED
  BY <1>10 DEF s
-----------------------------------------------------------------------------
(* Frames in a stream of bytes.                                            *)

\* Sequence buf has the bytes of F from position i on.
Copy(buf, i, F) ==
    /\ i \in Nat \ {0} /\ i + Len(F) - 1 <= Len(buf)
    /\ \A m \in 1..Len(F) : buf[i + m - 1] = F[m]

\* What a piece of a sequence consists of.
LEMMA PieceIs ==
    ASSUME NEW s \in Seq(Nat), NEW a \in Int, NEW z \in Int
    PROVE  SubSeq(s, a, z) = [m \in 1..(z - a + 1) |-> s[a + m - 1]]
OBVIOUS

\* Position a is the n-th one from i on.
IsAt(a, i, n) == a = i + n - 1

\* A piece of a copy is that piece of the original.
LEMMA PieceOfCopy ==
    ASSUME NEW buf \in Seq(Nat), NEW F \in Seq(Nat), NEW i, Copy(buf, i, F),
           NEW lo \in Nat \ {0}, NEW hi \in Nat, hi <= Len(F),
           NEW a \in Int, NEW z \in Int, IsAt(a, i, lo), IsAt(z, i, hi)
    PROVE  SubSeq(buf, a, z) = SubSeq(F, lo, hi)
<1> DEFINE L == Len(F)
           B == Len(buf)
           d == hi - lo + 1
<1>1. L \in Nat /\ B \in Nat /\ i \in Nat \ {0} /\ i + L - 1 <= B
  BY DEF Copy
<1>2. d \in Int /\ a = i + lo - 1 /\ z - a + 1 = d
  BY <1>1 DEF IsAt
<1>3. SubSeq(F, lo, hi) = [m \in 1..d |-> F[lo + m - 1]]
  OBVIOUS
<1>4. SubSeq(buf, a, z) = [m \in 1..d |-> buf[a + m - 1]]
  <2> HIDE DEF d, L, B
  <2>1. SubSeq(buf, a, z) = [m \in 1..(z - a + 1) |-> buf[a + m - 1]]
    BY PieceIs
  <2>2. QED
    BY <1>2, <2>1
<1>5. \A m \in 1..d : buf[a + m - 1] = F[lo + m - 1]
  <2> SUFFICES ASSUME NEW m \in 1..d PROVE buf[a + m - 1] = F[lo + m - 1]
    OBVIOUS
  <2>1. lo + m - 1 \in 1..L /\ a + m - 1 = i + (lo + m - 1) - 1
    BY <1>1, <1>2
  <2>2. buf[i + (lo + m - 1) - 1] = F[lo + m - 1]
    BY <2>1 DEF Copy
  <2>3. QED
    BY <2>1, <2>2
<1>6. QED
  BY <1>3, <1>4, <1>5

\* A copy of a frame reads as the frame: the same last byte, a good checksum, the same
\* content.
LEMMA CopyOfFrame ==
    ASSUME NEW buf \in Seq(Nat), NEW F, Frame(F), NEW i, Copy(buf, i, F)
    PROVE  /\ LastByte(buf, i) = i + Len(F) - 1 /\ ChecksumOk(buf, i)
           /\ FrameAt(buf, i) = FrameAt(F, 1)
<1> DEFINE L == Len(F)
           B == Len(buf)
<1>1. L \in Nat /\ L >= 8 /\ L <= 263 /\ F[6] = L - 8 /\ F \in Seq(Nat)
  BY DEF Frame
<1>2. L \in Nat /\ B \in Nat /\ i \in Nat \ {0} /\ i + L - 1 <= B
  BY <1>1 DEF Copy
<1>3. \A m \in 1..L : buf[i + m - 1] = F[m]
  BY DEF Copy
<1>4. 3 \in 1..L /\ 4 \in 1..L /\ 5 \in 1..L /\ 6 \in 1..L /\ L - 1 \in 1..L /\ L \in 1..L
  BY <1>1
<1>5. /\ i + 3 - 1 = i + 2 /\ i + 4 - 1 = i + 3 /\ i + 5 - 1 = i + 4 /\ i + 6 - 1 = i + 5
      /\ i + (L - 1) - 1 = i + (L - 2) /\ i + L - 1 = i + (L - 2) + 1
  BY <1>2
<1>6. buf[i + 2] = F[3] /\ buf[i + 3] = F[4] /\ buf[i + 4] = F[5] /\ buf[i + 5] = L - 8
  <2>1. buf[i + 3 - 1] = F[3] /\ buf[i + 4 - 1] = F[4] /\ buf[i + 5 - 1] = F[5] /\ buf[i + 6 - 1] = F[6]
    BY <1>3, <1>4
  <2>2. QED
    BY <1>1, <1>5, <2>1
<1>7. buf[i + (L - 2)] = F[L - 1] /\ buf[i + (L - 2) + 1] = F[L]
  <2>1. buf[i + (L - 1) - 1] = F[L - 1] /\ buf[i + L - 1] = F[L]
    BY <1>3, <1>4
  <2>2. QED
    BY <1>5, <2>1
<1>8. LastByte(buf, i) = i + L - 1
  BY <1>2, <1>6 DEF LastByte, DataLen, HEADER
<1>9. ChecksumOk(buf, i)
  <2> DEFINE body == SubSeq(buf, i, i + HEADER + DataLen(buf, i) - 1)
  <2> DEFINE z == i + HEADER + DataLen(buf, i) - 1
             hi == L - 2
  <2>1. z = i + hi - 1 /\ i = i + 1 - 1
    BY <1>2, <1>6 DEF DataLen, HEADER
  <2>2. hi \in Nat /\ hi <= Len(F) /\ 1 \in Nat \ {0}
    BY <1>1
  <2>3. SubSeq(buf, i, z) = SubSeq(F, 1, hi)
    <3>1. i \in Int /\ z \in Int /\ F \in Seq(Nat)
      BY <1>1, <1>2, <1>6 DEF DataLen, HEADER
    <3>2. IsAt(i, i, 1) /\ IsAt(z, i, hi)
      BY <2>1 DEF IsAt
    <3> HIDE DEF z, hi
    <3>3. QED
      BY <2>2, <3>1, <3>2, PieceOfCopy
  <2>4. body = SubSeq(F, 1, L - 2)
    BY <2>3
  <2>5. Len(SubSeq(F, 1, L - 2)) = L - 2
    BY <1>1, <2>2
  <2>6. Checksum(SubSeq(F, 1, L - 2)) = <<F[L - 1], F[L]>>
    BY DEF Frame
  <2> HIDE DEF L
  <2>7. Len(body) = L - 2 /\ Checksum(body) = <<F[L - 1], F[L]>>
    BY <2>4, <2>5, <2>6
  <2>8. ChecksumOk(buf, i) = (<<buf[i + Len(body)], buf[i + Len(body) + 1]>> = Checksum(body))
    BY DEF ChecksumOk
  <2> HIDE DEF body
  <2>9. QED
    BY <1>7, <2>7, <2>8
<1>10. FrameAt(buf, i) = FrameAt(F, 1)
  <2> DEFINE a == i + HEADER
             z == i + HEADER + DataLen(buf, i) - 1
             hi == L - 2
  <2>1. z = i + hi - 1 /\ a = i + 7 - 1
    BY <1>2, <1>6 DEF DataLen, HEADER
  <2>2. 1 + HEADER + DataLen(F, 1) - 1 = L - 2 /\ 1 + HEADER = 7
    <3>1. 1 + 5 = 6
      OBVIOUS
    <3>2. DataLen(F, 1) = L - 8
      BY <1>1, <3>1 DEF DataLen
    <3>3. QED
      BY <1>2, <3>2 DEF HEADER
  <2>3. hi \in Nat /\ hi <= Len(F) /\ 7 \in Nat \ {0}
    BY <1>1
  <2>4. SubSeq(buf, a, z) = SubSeq(F, 7, hi)
    <3>1. a \in Int /\ z \in Int /\ F \in Seq(Nat)
      BY <1>1, <1>2, <1>6 DEF DataLen, HEADER
    <3>2. IsAt(a, i, 7) /\ IsAt(z, i, hi)
      BY <2>1 DEF IsAt
    <3> HIDE DEF a, z, hi
    <3>3. QED
      BY <2>3, <3>1, <3>2, PieceOfCopy
  <2>5. FrameAt(buf, i) = [dst |-> F[3], src |-> F[4], action |-> F[5],
                           data |-> SubSeq(F, 7, L - 2)]
    BY <1>6, <2>1, <2>4 DEF FrameAt
  <2>6. FrameAt(F, 1) = [dst |-> F[3], src |-> F[4], action |-> F[5],
                         data |-> SubSeq(F, 7, L - 2)]
    <3>1. 1 + 2 = 3 /\ 1 + 3 = 4 /\ 1 + 4 = 5
      OBVIOUS
    <3>2. QED
      BY <2>2, <3>1 DEF FrameAt
  <2>7. QED
    BY <2>5, <2>6
<1>11. QED
  BY <1>8, <1>9, <1>10

\* Where the j-th frame ends.
End(b, F, j) == b[j] + Len(F[j]) - 1

\* The stream S holds the frames F[1..k], from the positions b[1..k] on, one behind the
\* other, and every start byte of S lies in one of them.
Holds(S, b, F, k) ==
    /\ S \in Seq(Nat) /\ k \in Nat
    /\ \A j \in 1..k : Frame(F[j]) /\ Copy(S, b[j], F[j])
    /\ \A i, j \in 1..k : i < j => End(b, F, i) < b[j]
    /\ \A p \in 1..Len(S) :
          S[p] = START => \E j \in 1..k : b[j] <= p /\ p <= End(b, F, j)

\* Position i is behind the first c frames and not behind the start of another.
Clean(b, F, k, i, c) ==
    /\ c \in 0..k
    /\ \A j \in 1..k : (j <= c => End(b, F, j) < i) /\ (j > c => b[j] >= i)

\* What is known of a frame of the stream.
LEMMA HeldFrame ==
    ASSUME NEW S, NEW b, NEW F, NEW k, Holds(S, b, F, k), NEW j \in 1..k
    PROVE  /\ Frame(F[j]) /\ Copy(S, b[j], F[j])
           /\ b[j] \in Nat \ {0} /\ Len(F[j]) \in Nat /\ Len(F[j]) >= 8 /\ Len(F[j]) <= 263
           /\ End(b, F, j) \in Nat /\ End(b, F, j) <= Len(S)
           /\ b[j] + 7 <= End(b, F, j) /\ End(b, F, j) <= b[j] + 262
           /\ S[b[j]] = START
<1>1. Frame(F[j]) /\ Copy(S, b[j], F[j])
  BY DEF Holds
<1>2. b[j] \in Nat \ {0} /\ Len(F[j]) \in Nat /\ Len(F[j]) >= 8 /\ Len(F[j]) <= 263 /\ F[j][1] = START
  BY <1>1 DEF Frame, Copy
<1>3. End(b, F, j) <= Len(S)
  BY <1>1 DEF Copy, End
<1>4. S[b[j]] = START
  <2>1. 1 \in 1..Len(F[j]) /\ b[j] + 1 - 1 = b[j]
    BY <1>2
  <2>2. S[b[j] + 1 - 1] = F[j][1]
    BY <1>1, <2>1 DEF Copy
  <2>3. QED
    BY <1>2, <2>1, <2>2
<1>5. /\ End(b, F, j) \in Nat /\ b[j] + 7 <= End(b, F, j)
      /\ End(b, F, j) <= b[j] + 262
  <2> DEFINE x == b[j]
             L == Len(F[j])
  <2>1. x \in Nat /\ L \in Nat /\ L >= 8 /\ L <= 263 /\ End(b, F, j) = x + L - 1
    BY <1>2 DEF End
  <2> HIDE DEF x, L
  <2>2. x + L - 1 \in Nat /\ x + 7 <= x + L - 1 /\ x + L - 1 <= x + 262
    BY <2>1
  <2>3. QED
    BY <2>1, <2>2 DEF x
<1>6. QED
  BY <1>1, <1>2, <1>3, <1>4, <1>5

\* The reader has a beginning of the stream.
Begins(buf, S) ==
    /\ buf \in Seq(Nat) /\ Len(buf) <= Len(S)
    /\ \A p \in 1..Len(buf) : buf[p] = S[p]

\* A start byte at a clean position is the next frame's.
LEMMA NextFrame ==
    ASSUME NEW S, NEW b, NEW F, NEW k, Holds(S, b, F, k), NEW buf, Begins(buf, S),
           NEW i \in 1..Len(buf), NEW c, Clean(b, F, k, i, c), buf[i] = START
    PROVE  c + 1 \in 1..k /\ b[c + 1] = i
<1>1. /\ Len(buf) \in Nat /\ Len(S) \in Nat /\ Len(buf) <= Len(S)
      /\ k \in Nat /\ c \in 0..k /\ i \in 1..Len(S)
  BY DEF Holds, Begins, Clean
<1>2. S[i] = START
  BY DEF Begins
<1>3. PICK j \in 1..k : b[j] <= i /\ i <= End(b, F, j)
  BY <1>1, <1>2 DEF Holds
<1>4. b[j] \in Nat /\ End(b, F, j) \in Nat
  BY HeldFrame
<1>5. j > c /\ b[j] >= i
  <2>1. j <= c => End(b, F, j) < i
    BY DEF Clean
  <2>2. j > c => b[j] >= i
    BY DEF Clean
  <2>3. QED
    BY <1>1, <1>3, <1>4, <2>1, <2>2
<1>6. b[j] = i
  BY <1>1, <1>3, <1>4, <1>5
<1>7. c + 1 \in 1..k
  BY <1>1, <1>5
<1>8. ~(c + 1 < j)
  <2> SUFFICES ASSUME c + 1 < j PROVE FALSE
    OBVIOUS
  <2>1. End(b, F, c + 1) < b[j]
    BY <1>7 DEF Holds
  <2>2. b[c + 1] >= i
    <3>1. c + 1 > c
      BY <1>1
    <3>2. QED
      BY <1>7, <3>1 DEF Clean
  <2>3. /\ b[c + 1] \in Nat /\ End(b, F, c + 1) \in Nat
        /\ b[c + 1] + 7 <= End(b, F, c + 1)
    BY <1>7, HeldFrame
  <2>4. QED
    BY <1>1, <1>6, <2>1, <2>2, <2>3
<1>9. c + 1 = j
  BY <1>1, <1>5, <1>8
<1>10. QED
  BY <1>6, <1>7, <1>9

\* Behind the next frame the position is clean again.
LEMMA CleanBehind ==
    ASSUME NEW S, NEW b, NEW F, NEW k, Holds(S, b, F, k), NEW c, c + 1 \in 1..k,
           Clean(b, F, k, b[c + 1], c)
    PROVE  Clean(b, F, k, End(b, F, c + 1) + 1, c + 1)
<1> DEFINE e == End(b, F, c + 1)
<1>1. k \in Nat /\ c \in 0..k
  BY DEF Holds, Clean
<1>2. e \in Nat /\ b[c + 1] \in Nat /\ b[c + 1] + 7 <= e
  BY HeldFrame
<1>3. ASSUME NEW j \in 1..k, j <= c + 1 PROVE End(b, F, j) < e + 1
  <2>0. End(b, F, j) \in Nat
    BY HeldFrame
  <2>1. CASE j = c + 1
    BY <1>2, <2>1
  <2>2. CASE j # c + 1
    <3>1. j <= c
      BY <1>1, <1>3, <2>2
    <3>2. End(b, F, j) < b[c + 1]
      BY <3>1 DEF Clean
    <3> HIDE DEF e
    <3>3. QED
      BY <1>2, <2>0, <3>2
  <2>3. QED
    BY <2>1, <2>2
<1>4. ASSUME NEW j \in 1..k, j > c + 1 PROVE b[j] >= e + 1
  <2>1. e < b[j]
    BY <1>4 DEF Holds
  <2>2. b[j] \in Nat
    BY HeldFrame
  <2> HIDE DEF e
  <2>3. QED
    BY <1>2, <2>1, <2>2
<1>5. QED
  BY <1>1, <1>3, <1>4 DEF Clean

\* One position further, where no frame starts, the position is still clean.
LEMMA CleanFurther ==
    ASSUME NEW S, NEW b, NEW F, NEW k, Holds(S, b, F, k), NEW i \in Nat, NEW c,
           Clean(b, F, k, i, c), S[i] # START
    PROVE  Clean(b, F, k, i + 1, c)
<1>1. ASSUME NEW j \in 1..k, j <= c PROVE End(b, F, j) < i + 1
  <2>1. End(b, F, j) < i /\ End(b, F, j) \in Nat
    BY <1>1, HeldFrame DEF Clean
  <2>2. QED
    BY <2>1
<1>2. ASSUME NEW j \in 1..k, j > c PROVE b[j] >= i + 1
  <2>1. b[j] >= i /\ b[j] \in Nat /\ b[j] # i
    BY <1>2, HeldFrame DEF Clean
  <2>2. QED
    BY <2>1
<1>3. QED
  BY <1>1, <1>2 DEF Clean

\* From position i on, behind c frames, the loop finds the frames that the reader has
\* completely, and no others, and stops less than a frame before the end, before the
\* next frame.
Finds(b, F, k, buf, v, i, c) ==
    \E d \in c..k, r \in i - 1..Len(buf) :
        /\ Scan(buf, v)[i] = [frames |-> [j \in 1..d - c |-> FrameAt(F[c + j], 1)],
                              consumed |-> r]
        /\ Len(buf) - r <= 262
        /\ \A j \in 1..d : End(b, F, j) <= r
        /\ d + 1 \in 1..k => r < b[d + 1] /\ End(b, F, d + 1) > Len(buf)

\* One more in front of a sequence given by its elements.
LEMMA FrontIs ==
    ASSUME NEW x, NEW G, NEW m \in Nat, NEW s, NEW t,
           s = [j \in 1..m |-> G[j + 1]], G[1] = x, t = [j \in 1..1 + m |-> G[j]]
    PROVE  <<x>> \o s = t
<1> DEFINE M == {G[j] : j \in Nat}
<1>1. x \in M /\ \A j \in 1..m : G[j + 1] \in M
  OBVIOUS
<1> HIDE DEF M
<1>2. s \in Seq(M) /\ Len(s) = m /\ <<x>> \in Seq(M) /\ Len(<<x>>) = 1
  BY <1>1
<1>3. <<x>> \o s \in Seq(M) /\ IsJoin(<<x>> \o s, <<x>>, 1, s, m)
  BY <1>2, Joined
<1> DEFINE u == <<x>> \o s
<1> HIDE DEF u
<1>4. u \in Seq(M) /\ Len(u) = 1 + m
  BY <1>3 DEF IsJoin, u
<1>5. \A j \in 1..1 + m : u[j] = t[j]
  <2> SUFFICES ASSUME NEW j \in 1..1 + m PROVE u[j] = t[j]
    OBVIOUS
  <2>1. u[j] = IF j <= 1 THEN <<x>>[j] ELSE s[j - 1]
    BY <1>3 DEF IsJoin, u
  <2>2. CASE j = 1
    BY <2>1, <2>2
  <2>3. CASE j # 1
    <3>1. j - 1 \in 1..m /\ ~(j <= 1) /\ (j - 1) + 1 = j
      BY <2>3
    <3>2. QED
      BY <2>1, <3>1
  <2>4. QED
    BY <2>2, <2>3
<1>6. u = [j \in 1..1 + m |-> u[j]]
  BY <1>4
<1>7. QED
  BY <1>5, <1>6 DEF u

\* The loop finds them from i on if it does from the later clean positions on.
LEMMA FindsHere ==
    ASSUME NEW S, NEW b, NEW F, NEW k, Holds(S, b, F, k), NEW buf, Begins(buf, S),
           NEW v, NEW i \in 1..Len(buf) + 1, NEW c, Clean(b, F, k, i, c),
           \A m \in i + 1..Len(buf) + 1, x \in 0..k :
               Clean(b, F, k, m, x) => Finds(b, F, k, buf, v, m, x)
    PROVE  Finds(b, F, k, buf, v, i, c)
<1> DEFINE n == Len(buf)
           scan == Scan(buf, v)
<1>1. buf \in Seq(Nat) /\ n \in Nat /\ k \in Nat /\ c \in 0..k /\ i \in 1..n + 1
  BY DEF Begins, Holds, Clean
<1>2. scan[i] = Round(buf, v, scan, i)
  BY <1>1, ScanRounds
<1> HIDE DEF scan
<1>3. ASSUME scan[i] = [frames |-> <<>>, consumed |-> i - 1], n - (i - 1) <= 262,
             c + 1 \in 1..k => End(b, F, c + 1) > n
      PROVE  Finds(b, F, k, buf, v, i, c)
  <2>1. \A j \in 1..c : End(b, F, j) <= i - 1
    <3> SUFFICES ASSUME NEW j \in 1..c PROVE End(b, F, j) <= i - 1
      OBVIOUS
    <3>1. j \in 1..k /\ j <= c
      BY <1>1
    <3>2. End(b, F, j) < i /\ End(b, F, j) \in Nat
      BY <3>1, HeldFrame DEF Clean
    <3>3. QED
      BY <1>1, <3>2
  <2>2. c + 1 \in 1..k => i - 1 < b[c + 1]
    <3> SUFFICES ASSUME c + 1 \in 1..k PROVE i - 1 < b[c + 1]
      OBVIOUS
    <3>1. c + 1 > c
      BY <1>1
    <3>2. b[c + 1] >= i /\ b[c + 1] \in Nat
      BY <3>1, HeldFrame DEF Clean
    <3>3. QED
      BY <1>1, <3>2
  <2>3. <<>> = [j \in 1..c - c |-> FrameAt(F[c + j], 1)]
    BY <1>1
  <2>4. c \in c..k /\ i - 1 \in i - 1..n
    BY <1>1
  <2>5. QED
    BY <1>3, <2>1, <2>2, <2>3, <2>4 DEF Finds, scan
<1>4. ASSUME scan[i] = scan[i + 1], i <= n, buf[i] # START
      PROVE  Finds(b, F, k, buf, v, i, c)
  <2>1. i + 1 \in i + 1..n + 1 /\ i \in 1..n /\ i \in Nat
    BY <1>1, <1>4
  <2>2. Clean(b, F, k, i + 1, c)
    <3>1. S[i] # START
      BY <1>4, <2>1 DEF Begins
    <3>2. QED
      BY <2>1, <3>1, CleanFurther
  <2>3. Finds(b, F, k, buf, v, i + 1, c)
    BY <1>1, <2>1, <2>2
  <2>4. (i + 1) - 1..n \subseteq i - 1..n
    BY <1>1
  <2>5. QED
    BY <1>4, <2>3, <2>4 DEF Finds, scan
<1>5. CASE i + HEADER - 1 > n
  <2>1. scan[i] = [frames |-> <<>>, consumed |-> i - 1]
    BY <1>2, <1>5 DEF Round
  <2>2. n - (i - 1) <= 262
    BY <1>1, <1>5 DEF HEADER
  <2>3. c + 1 \in 1..k => End(b, F, c + 1) > n
    <3> SUFFICES ASSUME c + 1 \in 1..k PROVE End(b, F, c + 1) > n
      OBVIOUS
    <3>1. c + 1 > c
      BY <1>1
    <3>2. /\ b[c + 1] >= i /\ b[c + 1] \in Nat /\ End(b, F, c + 1) \in Nat
          /\ b[c + 1] + 7 <= End(b, F, c + 1)
      BY <3>1, HeldFrame DEF Clean
    <3>3. QED
      BY <1>1, <1>5, <3>2 DEF HEADER
  <2>4. QED
    BY <1>3, <2>1, <2>2, <2>3
<1>6. CASE ~(i + HEADER - 1 > n)
  <2>0. i \in 1..n /\ i <= n
    BY <1>1, <1>6 DEF HEADER
  <2>1. CASE buf[i] # START
    <3>1. scan[i] = scan[i + 1]
      BY <1>2, <1>6, <2>1 DEF Round
    <3>2. QED
      BY <1>4, <2>0, <2>1, <3>1
  <2>2. CASE buf[i] = START
    <3>1. c + 1 \in 1..k /\ b[c + 1] = i
      BY <2>0, <2>2, NextFrame
    <3>2. /\ Frame(F[c + 1]) /\ Copy(S, i, F[c + 1])
          /\ Len(F[c + 1]) \in Nat /\ Len(F[c + 1]) >= 8 /\ Len(F[c + 1]) <= 263
          /\ End(b, F, c + 1) = i + Len(F[c + 1]) - 1
      BY <3>1, HeldFrame DEF End
    <3>3. S \in Seq(Nat)
      BY DEF Holds
    <3> DEFINE L == Len(F[c + 1])
    <3>4. LastByte(buf, i) = i + L - 1
      <4>1. LastByte(S, i) = i + L - 1
        BY <3>2, <3>3, CopyOfFrame
      <4>2. i + 5 \in 1..n
        BY <1>1, <1>6 DEF HEADER
      <4>3. buf[i + 5] = S[i + 5]
        BY <4>2 DEF Begins
      <4>4. QED
        BY <4>1, <4>3 DEF LastByte, DataLen
    <3> HIDE DEF L
    <3>5. CASE LastByte(buf, i) > n
      <4>1. scan[i] = [frames |-> <<>>, consumed |-> i - 1]
        BY <1>2, <1>6, <2>2, <3>5 DEF Round
      <4>2. n - (i - 1) <= 262 /\ End(b, F, c + 1) > n
        BY <1>1, <3>2, <3>4, <3>5 DEF L
      <4>3. QED
        BY <1>3, <4>1, <4>2
    <3>6. CASE ~(LastByte(buf, i) > n)
      <4>1. Copy(buf, i, F[c + 1])
        <5>1. i + L - 1 <= n /\ L \in Nat /\ i \in Nat \ {0}
          BY <1>1, <3>2, <3>4, <3>6, SMTT(30) DEF L
        <5>2. ASSUME NEW m \in 1..L PROVE buf[i + m - 1] = F[c + 1][m]
          <6>1. i + m - 1 \in 1..n
            BY <1>1, <5>1
          <6>2. buf[i + m - 1] = S[i + m - 1]
            BY <6>1 DEF Begins
          <6>3. S[i + m - 1] = F[c + 1][m]
            BY <3>2 DEF Copy, L
          <6>4. QED
            BY <6>2, <6>3
        <5>3. QED
          BY <5>1, <5>2 DEF Copy, L
      <4>2. ChecksumOk(buf, i) /\ FrameAt(buf, i) = FrameAt(F[c + 1], 1)
        BY <1>1, <3>2, <4>1, CopyOfFrame
      <4> DEFINE e == LastByte(buf, i)
                 rest == scan[e + 1]
      <4> DEFINE x == <<FrameAt(F[c + 1], 1)>>
      <4>3. scan[i] = [frames |-> x \o rest.frames, consumed |-> rest.consumed]
        <5>1. ~(v /\ ~ChecksumOk(buf, i))
          BY <4>2
        <5> DEFINE y == <<FrameAt(buf, i)>>
        <5>2. Round(buf, v, scan, i) = [frames |-> y \o rest.frames, consumed |-> rest.consumed]
          BY <1>6, <2>2, <3>6, <5>1 DEF Round
        <5>3. y = x
          BY <4>2
        <5> HIDE DEF x, y, rest
        <5>4. Round(buf, v, scan, i) = [frames |-> x \o rest.frames, consumed |-> rest.consumed]
          BY <5>2, <5>3
        <5>5. QED
          BY <1>2, <5>4
      <4>4. e = End(b, F, c + 1) /\ e \in Nat /\ e + 1 \in i + 1..n + 1 /\ e <= n
        <5>1. e = i + L - 1 /\ ~(e > n) /\ End(b, F, c + 1) = i + L - 1
          BY <3>2, <3>4, <3>6 DEF L
        <5>2. i \in Nat /\ L \in Nat /\ L >= 8
          BY <1>1, <3>2 DEF L
        <5> HIDE DEF e
        <5>3. QED
          BY <1>1, <5>1, <5>2
      <4>5. Clean(b, F, k, e + 1, c + 1)
        BY <3>1, <4>4, CleanBehind
      <4>6. c + 1 \in 0..k
        BY <1>1, <3>1
      <4> HIDE DEF e
      <4>7. Finds(b, F, k, buf, v, e + 1, c + 1)
        BY <4>4, <4>5, <4>6
      <4>8. PICK d \in c + 1..k, r \in (e + 1) - 1..n :
              /\ scan[e + 1] = [frames |-> [j \in 1..d - (c + 1) |-> FrameAt(F[(c + 1) + j], 1)],
                                consumed |-> r]
              /\ n - r <= 262
              /\ \A j \in 1..d : End(b, F, j) <= r
              /\ d + 1 \in 1..k => r < b[d + 1] /\ End(b, F, d + 1) > n
        BY <4>7 DEF Finds, scan
      <4> DEFINE later == [j \in 1..d - (c + 1) |-> FrameAt(F[(c + 1) + j], 1)]
                 all == [j \in 1..d - c |-> FrameAt(F[c + j], 1)]
      <4>9. <<FrameAt(F[c + 1], 1)>> \o later = all
        <5>1. d - (c + 1) \in Nat /\ d - c = 1 + (d - (c + 1))
          BY <1>1
        <5> DEFINE G == [j \in Nat |-> FrameAt(F[c + j], 1)]
                   m == d - (c + 1)
        <5>2. later = [j \in 1..m |-> G[j + 1]]
          <6>1. \A j \in 1..m : (c + 1) + j = c + (j + 1) /\ j + 1 \in Nat
            BY <1>1
          <6>2. \A j \in 1..m : FrameAt(F[(c + 1) + j], 1) = G[j + 1]
            BY <6>1
          <6>3. QED
            BY <6>2
        <5>3. all = [j \in 1..1 + m |-> G[j]]
          BY <5>1
        <5>4. G[1] = FrameAt(F[c + 1], 1)
          OBVIOUS
        <5> HIDE DEF G, m, later, all
        <5>5. m \in Nat
          BY <5>1 DEF m
        <5>6. QED
          BY <5>2, <5>3, <5>4, <5>5, FrontIs
      <4>10. scan[i] = [frames |-> all, consumed |-> r]
        <5> HIDE DEF later, all
        <5>1. rest = [frames |-> later, consumed |-> r]
          BY <4>8 DEF later
        <5> HIDE DEF rest, x
        <5>2. rest.frames = later /\ rest.consumed = r
          BY <5>1
        <5>3. x \o later = all
          BY <4>9 DEF x
        <5>4. QED
          BY <4>3, <5>2, <5>3
      <4>11. d \in c..k /\ r \in i - 1..n
        BY <1>1, <4>4
      <4> HIDE DEF rest
      <4>12. QED
        BY <4>8, <4>10, <4>11 DEF Finds, scan
    <3>7. QED
      BY <3>5, <3>6
  <2>3. QED
    BY <2>1, <2>2
<1>7. QED
  BY <1>5, <1>6

\* The loop finds the frames that the reader has, from every clean position on.
LEMMA FindsEverywhere ==
    ASSUME NEW S, NEW b, NEW F, NEW k, Holds(S, b, F, k), NEW buf, Begins(buf, S), NEW v
    PROVE  \A i \in 1..Len(buf) + 1, c \in 0..k :
              Clean(b, F, k, i, c) => Finds(b, F, k, buf, v, i, c)
<1> DEFINE n == Len(buf)
           Misses(i) == \E c \in 0..k : Clean(b, F, k, i, c) /\ ~Finds(b, F, k, buf, v, i, c)
           Bad == {m \in Nat : m <= n /\ Misses((n + 1) - m)}
<1>1. n \in Nat
  BY DEF Begins
<1>2. Bad = {}
  <2> SUFFICES ASSUME Bad # {} PROVE FALSE
    OBVIOUS
  <2>1. Bad \in SUBSET Nat
    OBVIOUS
  <2> HIDE DEF Bad
  <2>2. PICK x \in Bad : \A y \in Bad : x <= y
    BY <2>1, Least
  <2> DEFINE i == (n + 1) - x
  <2>3. x \in Nat /\ x <= n /\ Misses(i)
    BY <2>2 DEF Bad
  <2>4. i \in 1..n + 1
    BY <1>1, <2>3
  <2>5. ASSUME NEW m \in i + 1..n + 1 PROVE ~Misses(m)
    <3>1. (n + 1) - m \in Nat /\ (n + 1) - m <= n /\ ~(x <= (n + 1) - m)
          /\ (n + 1) - ((n + 1) - m) = m
      BY <1>1, <2>3
    <3> HIDE DEF Misses
    <3>2. (n + 1) - m \notin Bad
      BY <2>2, <3>1
    <3>3. QED
      BY <3>1, <3>2 DEF Bad
  <2> HIDE DEF i
  <2>6. PICK c \in 0..k : Clean(b, F, k, i, c) /\ ~Finds(b, F, k, buf, v, i, c)
    BY <2>3
  <2>7. \A m \in i + 1..n + 1, y \in 0..k :
           Clean(b, F, k, m, y) => Finds(b, F, k, buf, v, m, y)
    BY <2>5
  <2>8. QED
    BY <2>4, <2>6, <2>7, FindsHere
<1>3. ASSUME NEW i \in 1..n + 1 PROVE ~Misses(i)
  <2>1. (n + 1) - i \in Nat /\ (n + 1) - i <= n /\ (n + 1) - ((n + 1) - i) = i
    BY <1>1
  <2> HIDE DEF Misses
  <2>2. QED
    BY <1>2, <2>1
<1>4. QED
  BY <1>3
-----------------------------------------------------------------------------
(* What is sent, and what is read, keeps the stream a stream of frames.    *)

\* There is no start byte in s.
NoStart(s) == s \in Seq(Nat) /\ \A p \in 1..Len(s) : s[p] # START

\* Bytes without a start byte at the end change nothing.
LEMMA GapBehind ==
    ASSUME NEW S, NEW b, NEW F, NEW k, Holds(S, b, F, k), NEW gap, NoStart(gap)
    PROVE  Holds(S \o gap, b, F, k)
<1> DEFINE T == S \o gap
           n == Len(S)
           g == Len(gap)
<1>1. S \in Seq(Nat) /\ gap \in Seq(Nat) /\ n \in Nat /\ g \in Nat /\ k \in Nat
  BY DEF Holds, NoStart
<1>2. T \in Seq(Nat) /\ IsJoin(T, S, n, gap, g)
  BY <1>1, Joined
<1> HIDE DEF T
<1>3. /\ Len(T) = n + g
      /\ \A p \in 1..n : T[p] = S[p]
      /\ \A p \in 1..Len(T) : p \notin 1..n => T[p] # START
  <2>1. Len(T) = n + g /\ \A p \in 1..n + g : T[p] = IF p <= n THEN S[p] ELSE gap[p - n]
    BY <1>2 DEF IsJoin
  <2>2. \A p \in 1..n : p \in 1..n + g /\ p <= n
    BY <1>1
  <2>3. \A p \in 1..n + g : p \notin 1..n => ~(p <= n) /\ p - n \in 1..g
    BY <1>1
  <2>4. \A p \in 1..g : gap[p] # START
    BY DEF NoStart
  <2> HIDE DEF n, g
  <2>5. \A p \in 1..n : T[p] = S[p]
    BY <2>1, <2>2
  <2>6. \A p \in 1..n + g : p \notin 1..n => T[p] # START
    BY <2>1, <2>3, <2>4
  <2>7. QED
    BY <2>1, <2>5, <2>6
<1>4. ASSUME NEW j \in 1..k PROVE Frame(F[j]) /\ Copy(T, b[j], F[j])
  <2>1. /\ Frame(F[j]) /\ Copy(S, b[j], F[j]) /\ b[j] \in Nat \ {0}
        /\ Len(F[j]) \in Nat
    BY HeldFrame
  <2>2. b[j] + Len(F[j]) - 1 <= n
    BY <2>1 DEF Copy
  <2>3. b[j] + Len(F[j]) - 1 <= Len(T)
    BY <1>1, <1>3, <2>1, <2>2
  <2>4. ASSUME NEW m \in 1..Len(F[j]) PROVE T[b[j] + m - 1] = F[j][m]
    <3>1. b[j] + m - 1 \in 1..n
      <4> DEFINE x == b[j]
                 L == Len(F[j])
      <4>1. n \in Nat /\ x \in Nat \ {0} /\ L \in Nat /\ x + L - 1 <= n /\ m \in 1..L
        BY <1>1, <2>1, <2>2
      <4> HIDE DEF n, x, L
      <4>2. x + m - 1 \in 1..n
        BY <4>1
      <4>3. QED
        BY <4>2 DEF x
    <3>2. S[b[j] + m - 1] = F[j][m]
      BY <2>1 DEF Copy
    <3>3. QED
      BY <1>3, <3>1, <3>2
  <2>5. QED
    BY <2>1, <2>3, <2>4 DEF Copy
<1>5. \A i, j \in 1..k : i < j => End(b, F, i) < b[j]
  BY DEF Holds
<1>6. ASSUME NEW p \in 1..Len(T), T[p] = START
      PROVE  \E j \in 1..k : b[j] <= p /\ p <= End(b, F, j)
  <2>1. p \in 1..n
    BY <1>3, <1>6
  <2>2. S[p] = START
    BY <1>3, <1>6, <2>1
  <2>3. QED
    BY <2>1, <2>2 DEF Holds
<1>7. QED
  BY <1>1, <1>2, <1>4, <1>5, <1>6 DEF Holds, T

\* A frame at the end is one more.
LEMMA FrameBehind ==
    ASSUME NEW S, NEW b, NEW F, NEW k, Holds(S, b, F, k), NEW G, Frame(G),
           NEW c, NEW E,
           \A j \in 1..k : c[j] = b[j] /\ E[j] = F[j],
           c[k + 1] = Len(S) + 1, E[k + 1] = G
    PROVE  Holds(S \o G, c, E, k + 1)
<1> DEFINE T == S \o G
           n == Len(S)
           g == Len(G)
<1>1. /\ S \in Seq(Nat) /\ G \in Seq(Nat) /\ n \in Nat /\ g \in Nat /\ k \in Nat
      /\ g >= 8 /\ k + 1 \in Nat
  <2>1. S \in Seq(Nat) /\ k \in Nat /\ G \in Seq(Nat) /\ g >= 8
    BY DEF Holds, Frame
  <2>2. QED
    BY <2>1
<1>2. T \in Seq(Nat) /\ IsJoin(T, S, n, G, g)
  BY <1>1, Joined
<1> HIDE DEF T
<1>3. /\ Len(T) = n + g
      /\ \A p \in 1..n : T[p] = S[p]
      /\ \A m \in 1..g : T[n + m] = G[m]
  <2>1. Len(T) = n + g /\ \A p \in 1..n + g : T[p] = IF p <= n THEN S[p] ELSE G[p - n]
    BY <1>2 DEF IsJoin
  <2>2. \A p \in 1..n : p \in 1..n + g /\ p <= n
    BY <1>1
  <2>3. \A m \in 1..g : n + m \in 1..n + g /\ ~(n + m <= n) /\ (n + m) - n = m
    BY <1>1
  <2> HIDE DEF n, g
  <2>4. QED
    BY <2>1, <2>2, <2>3
<1>4. \A j \in 1..k + 1 : j = k + 1 \/ j \in 1..k
  BY <1>1
<1>5. ASSUME NEW j \in 1..k + 1 PROVE Frame(E[j]) /\ Copy(T, c[j], E[j])
  <2>1. CASE j \in 1..k
    <3>1. /\ Frame(F[j]) /\ Copy(S, b[j], F[j]) /\ b[j] \in Nat \ {0}
          /\ Len(F[j]) \in Nat
      BY <2>1, HeldFrame
    <3>2. b[j] + Len(F[j]) - 1 <= n
      BY <3>1 DEF Copy
    <3>3. b[j] + Len(F[j]) - 1 <= Len(T)
      BY <1>1, <1>3, <3>1, <3>2, SMTT(30)
    <3>4. ASSUME NEW m \in 1..Len(F[j]) PROVE T[b[j] + m - 1] = F[j][m]
      <4>1. b[j] + m - 1 \in 1..n
        <5> DEFINE x == b[j]
                   L == Len(F[j])
        <5>1. n \in Nat /\ x \in Nat \ {0} /\ L \in Nat /\ x + L - 1 <= n /\ m \in 1..L
          BY <1>1, <3>1, <3>2
        <5> HIDE DEF n, x, L
        <5>2. x + m - 1 \in 1..n
          BY <5>1
        <5>3. QED
          BY <5>2 DEF x
      <4>2. S[b[j] + m - 1] = F[j][m]
        BY <3>1 DEF Copy
      <4>3. QED
        BY <1>3, <4>1, <4>2
    <3>5. QED
      BY <2>1, <3>1, <3>3, <3>4 DEF Copy
  <2>2. CASE j = k + 1
    <3>1. E[j] = G /\ c[j] = n + 1
      BY <2>2
    <3>2. n + 1 \in Nat \ {0} /\ (n + 1) + g - 1 <= Len(T)
      BY <1>1, <1>3
    <3>3. ASSUME NEW m \in 1..g PROVE T[(n + 1) + m - 1] = G[m]
      <4>1. (n + 1) + m - 1 = n + m
        BY <1>1
      <4>2. QED
        BY <1>3, <4>1
    <3>4. QED
      BY <3>1, <3>2, <3>3 DEF Copy
  <2>3. QED
    BY <1>4, <2>1, <2>2
<1>6. ASSUME NEW j \in 1..k PROVE End(c, E, j) = End(b, F, j) /\ End(b, F, j) \in Nat /\ End(b, F, j) <= n
  BY HeldFrame, SMTT(30) DEF End
<1>7. ASSUME NEW i \in 1..k + 1, NEW j \in 1..k + 1, i < j PROVE End(c, E, i) < c[j]
  <2>1. i \in 1..k
    BY <1>1, <1>7
  <2>2. CASE j \in 1..k
    <3>1. End(b, F, i) < b[j]
      BY <1>7, <2>1, <2>2 DEF Holds
    <3>2. QED
      BY <1>6, <2>1, <2>2, <3>1
  <2>3. CASE j = k + 1
    <3>1. c[j] = n + 1
      BY <2>3
    <3>2. QED
      BY <1>1, <1>6, <2>1, <3>1
  <2>4. QED
    BY <1>4, <2>2, <2>3
<1>8. ASSUME NEW p \in 1..Len(T), T[p] = START
      PROVE  \E j \in 1..k + 1 : c[j] <= p /\ p <= End(c, E, j)
  <2>1. CASE p \in 1..n
    <3>1. S[p] = START
      BY <1>3, <1>8, <2>1
    <3>2. PICK j \in 1..k : b[j] <= p /\ p <= End(b, F, j)
      BY <2>1, <3>1 DEF Holds
    <3>3. j \in 1..k + 1 /\ c[j] = b[j] /\ End(c, E, j) = End(b, F, j)
      BY <1>1, <1>6
    <3>4. QED
      BY <3>2, <3>3
  <2>2. CASE p \notin 1..n
    <3>1. c[k + 1] = n + 1 /\ End(c, E, k + 1) = n + g /\ k + 1 \in 1..k + 1
      BY <1>1 DEF End
    <3>2. n + 1 <= p /\ p <= n + g
      BY <1>1, <1>3, <2>2
    <3>3. QED
      BY <3>1, <3>2
  <2>3. QED
    BY <2>1, <2>2
<1>9. QED
  BY <1>1, <1>2, <1>5, <1>7, <1>8 DEF Holds, T

\* The first d frames end up to r and no other begins there.
Cut(b, F, k, d, r) ==
    /\ \A j \in 1..d : End(b, F, j) <= r
    /\ d + 1 \in 1..k => r < b[d + 1]

\* T is S without its first r bytes.
Without(T, S, r) ==
    /\ T \in Seq(Nat) /\ Len(T) + r = Len(S)
    /\ \A p \in 1..Len(T) : T[p] = S[p + r]

\* The frames E, at c, are the frames F, at b, but the first d, r bytes earlier.
Shifted(c, E, b, F, k, d, r) ==
    \A j \in 1..k - d : c[j] = b[d + j] - r /\ E[j] = F[d + j]

\* Without its first r bytes, up to which the first d frames end and no other begins, the
\* stream holds the other frames.
LEMMA RestHolds ==
    ASSUME NEW S, NEW b, NEW F, NEW k, Holds(S, b, F, k), NEW d \in 0..k, NEW r \in Nat,
           Cut(b, F, k, d, r), NEW T, Without(T, S, r),
           NEW c, NEW E, Shifted(c, E, b, F, k, d, r)
    PROVE  Holds(T, c, E, k - d)
<1> USE DEF Cut, Without, Shifted
<1> DEFINE n == Len(T)
           h == k - d
<1>1. k \in Nat /\ d \in Nat /\ n \in Nat /\ h \in Nat /\ Len(S) = n + r /\ S \in Seq(Nat)
  <2>1. k \in Nat /\ Len(S) \in Nat /\ n \in Nat /\ S \in Seq(Nat)
    BY DEF Holds
  <2>2. d \in Nat /\ h \in Nat
    BY <2>1
  <2>3. QED
    BY <2>1, <2>2
<1>2. \A j \in 1..h : d + j \in 1..k
  BY <1>1
<1>3. ASSUME NEW j \in 1..h
      PROVE  /\ r < b[d + j] /\ b[d + j] \in Nat
             /\ End(c, E, j) = End(b, F, d + j) - r /\ End(b, F, d + j) \in Nat
             /\ End(b, F, d + j) <= n + r
  <2>1. /\ b[d + j] \in Nat /\ End(b, F, d + j) \in Nat /\ End(b, F, d + j) <= n + r
        /\ Len(F[d + j]) \in Nat
    BY <1>1, <1>2, HeldFrame
  <2>2. r < b[d + j]
    <3>1. d + 1 \in 1..k
      BY <1>1
    <3>2. r < b[d + 1] /\ b[d + 1] \in Nat /\ End(b, F, d + 1) \in Nat /\ b[d + 1] + 7 <= End(b, F, d + 1)
      BY <3>1, HeldFrame
    <3>3. CASE j = 1
      BY <3>2, <3>3
    <3>4. CASE j # 1
      <4>1. d + 1 < d + j
        BY <1>1, <3>4
      <4>2. End(b, F, d + 1) < b[d + j]
        BY <1>2, <3>1, <4>1 DEF Holds
      <4>3. QED
        BY <2>1, <3>2, <4>2
    <3>5. QED
      BY <3>3, <3>4
  <2>3. c[j] = b[d + j] - r /\ E[j] = F[d + j]
    OBVIOUS
  <2>4. End(c, E, j) = End(b, F, d + j) - r
    BY <2>1, <2>3 DEF End
  <2>5. QED
    BY <2>1, <2>2, <2>4
<1>4. ASSUME NEW j \in 1..h PROVE Frame(E[j]) /\ Copy(T, c[j], E[j])
  <2> DEFINE L == Len(F[d + j])
  <2>1. /\ Frame(F[d + j]) /\ Copy(S, b[d + j], F[d + j]) /\ L \in Nat
        /\ b[d + j] + L - 1 <= n + r
    <3>1. d + j \in 1..k
      BY <1>2
    <3>2. /\ Frame(F[d + j]) /\ Copy(S, b[d + j], F[d + j]) /\ L \in Nat
          /\ End(b, F, d + j) <= Len(S)
      BY <3>1, HeldFrame
    <3>3. QED
      BY <1>1, <3>2 DEF End
  <2>2. r < b[d + j] /\ b[d + j] \in Nat
    BY <1>3
  <2>3. c[j] = b[d + j] - r /\ E[j] = F[d + j]
    OBVIOUS
  <2>4. c[j] \in Nat \ {0} /\ c[j] + L - 1 <= n
    <3> HIDE DEF L, n
    <3>1. QED
      BY <1>1, <2>1, <2>2, <2>3, SMTT(30)
  <2>5. ASSUME NEW m \in 1..L PROVE T[c[j] + m - 1] = E[j][m]
    <3>1. c[j] + m - 1 \in 1..n /\ (c[j] + m - 1) + r = b[d + j] + m - 1
      <4> DEFINE x == b[d + j]
                 y == c[j]
      <4>1. /\ n \in Nat /\ r \in Nat /\ L \in Nat /\ x \in Nat /\ y = x - r
            /\ y \in Nat \ {0} /\ y + L - 1 <= n
        BY <1>1, <2>1, <2>2, <2>3, <2>4
      <4> HIDE DEF L, n, x, y
      <4>2. y + m - 1 \in 1..n /\ (y + m - 1) + r = x + m - 1
        BY <4>1
      <4>3. QED
        BY <4>2 DEF x, y
    <3>2. T[c[j] + m - 1] = S[(c[j] + m - 1) + r]
      BY <3>1
    <3>3. S[b[d + j] + m - 1] = F[d + j][m]
      BY <2>1 DEF Copy
    <3>4. QED
      BY <2>3, <3>1, <3>2, <3>3
  <2>6. QED
    BY <2>1, <2>3, <2>4, <2>5 DEF Copy
<1>5. ASSUME NEW i \in 1..h, NEW j \in 1..h, i < j PROVE End(c, E, i) < c[j]
  <2>1. d + i < d + j
    BY <1>1, <1>5
  <2>2. End(b, F, d + i) < b[d + j]
    BY <1>2, <2>1 DEF Holds
  <2>3. c[j] = b[d + j] - r
    OBVIOUS
  <2>4. QED
    BY <1>1, <1>3, <2>2, <2>3, SMTT(30)
<1>6. ASSUME NEW p \in 1..n, T[p] = START
      PROVE  \E j \in 1..h : c[j] <= p /\ p <= End(c, E, j)
  <2>1. S[p + r] = START /\ p + r \in 1..Len(S)
    <3>1. T[p] = S[p + r]
      OBVIOUS
    <3> DEFINE l == Len(S)
    <3>2. l = n + r /\ n \in Nat /\ r \in Nat /\ p \in 1..n
      BY <1>1
    <3> HIDE DEF l, n
    <3>3. p + r \in 1..l
      BY <3>2
    <3>4. QED
      BY <1>6, <3>1, <3>3 DEF l
  <2>2. PICK i \in 1..k : b[i] <= p + r /\ p + r <= End(b, F, i)
    BY <2>1 DEF Holds
  <2>3. ~(i \in 1..d)
    <3>1. i \in 1..d => End(b, F, i) <= r
      OBVIOUS
    <3>2. End(b, F, i) \in Nat
      BY HeldFrame
    <3>3. QED
      BY <1>1, <2>2, <3>1, <3>2
  <2> DEFINE j == i - d
  <2>4. j \in 1..h /\ d + j = i
    BY <1>1, <2>3
  <2> HIDE DEF j
  <2>5. c[j] = b[i] - r /\ End(c, E, j) = End(b, F, i) - r
    BY <1>3, <2>4
  <2>6. b[i] \in Nat /\ End(b, F, i) \in Nat
    BY HeldFrame
  <2>7. c[j] <= p /\ p <= End(c, E, j)
    <3> DEFINE x == b[i]
               y == End(b, F, i)
    <3>1. /\ r \in Nat /\ p \in Nat /\ x \in Nat /\ y \in Nat /\ x <= p + r /\ p + r <= y
          /\ c[j] = x - r /\ End(c, E, j) = y - r
      BY <1>1, <2>2, <2>5, <2>6
    <3> HIDE DEF x, y
    <3>2. x - r <= p /\ p <= y - r
      BY <3>1
    <3>3. QED
      BY <3>1, <3>2
  <2>8. QED
    BY <2>4, <2>7
<1>7. QED
  BY <1>1, <1>4, <1>5, <1>6 DEF Holds
-----------------------------------------------------------------------------
(* The invariant.                                                          *)

\* Nothing on the wire looks like the start of a frame but the start of a frame: there was
\* no fault yet, or noise has no start byte and no reply is damaged.
Quiet == faults = 0 \/ (START \notin NoiseBytes /\ Damaged = {})

Messages == {Intended(c) : c \in Commands} \cup Replies

\* The reader has read the first g messages; what it keeps and what is still to come hold
\* the frames of the others, and the first of them is not complete yet.
ReadSoFar(g, b, F) ==
    /\ g \in 0..Len(sent) /\ got = SubSeq(sent, 1, g)
    /\ Holds(rxBuf \o pending, b, F, Len(sent) - g)
    /\ \A j \in 1..Len(sent) - g : Says(onBus, F[j], sent[g + j])
    /\ 1 \in 1..Len(sent) - g => End(b, F, 1) > Len(rxBuf)

Reading ==
    /\ rxBuf \in Seq(Nat) /\ pending \in Seq(Nat)
    /\ \E g, b, F : ReadSoFar(g, b, F)

JInv ==
    /\ onBus \in BOOLEAN /\ sent \in Seq(Messages) /\ faults \in Nat
    /\ ~onBus => faults = 0
    /\ Quiet => Reading

\* The preamble has no start byte.
LEMMA PreambleIs == NoStart(PREAMBLE) /\ Len(PREAMBLE) = 3
<1>1. PREAMBLE \in Seq(Nat) /\ Len(PREAMBLE) = 3
  BY DEF PREAMBLE
<1>2. \A p \in 1..3 : PREAMBLE[p] # START
  <2> SUFFICES ASSUME NEW p \in 1..3 PROVE PREAMBLE[p] # START
    OBVIOUS
  <2>1. PREAMBLE[1] = 255 /\ PREAMBLE[2] = 0 /\ PREAMBLE[3] = 255
    BY DEF PREAMBLE
  <2>2. p = 1 \/ p = 2 \/ p = 3
    OBVIOUS
  <2>3. QED
    BY <2>1, <2>2 DEF START
<1>3. QED
  BY <1>1, <1>2 DEF NoStart

\* A message sent is one more to read.
LEMMA SendReads ==
    ASSUME NEW m \in Messages, NEW bytes, NEW G, bytes = PREAMBLE \o G, Says(onBus, G, m),
           JInv, Send(m, bytes)
    PROVE  JInv'
<1>1. /\ onBus \in BOOLEAN /\ sent \in Seq(Messages) /\ faults \in Nat
      /\ (~onBus => faults = 0) /\ (Quiet => Reading)
  BY DEF JInv
<1>2. /\ sent' = Append(sent, m) /\ pending' = pending \o bytes
      /\ onBus' = onBus /\ rxBuf' = rxBuf /\ got' = got /\ faults' = faults
  BY DEF Send
<1> DEFINE N == Len(sent)
<1>3. /\ sent' \in Seq(Messages) /\ Len(sent') = N + 1 /\ N \in Nat
      /\ \A j \in 1..N : sent'[j] = sent[j]
      /\ sent'[N + 1] = m
  BY <1>1, <1>2, AppendProperties
<1>4. ASSUME Quiet' PROVE Reading'
  <2>1. Quiet
    BY <1>2, <1>4 DEF Quiet
  <2>2. rxBuf \in Seq(Nat) /\ pending \in Seq(Nat)
    BY <1>1, <2>1 DEF Reading
  <2>3. PICK g, b, F : ReadSoFar(g, b, F)
    BY <1>1, <2>1 DEF Reading
  <2> DEFINE S == rxBuf \o pending
             k == N - g
             P == S \o PREAMBLE
  <2>4. /\ g \in 0..N /\ got = SubSeq(sent, 1, g) /\ Holds(S, b, F, k)
        /\ \A j \in 1..k : Says(onBus, F[j], sent[g + j])
        /\ (1 \in 1..k => End(b, F, 1) > Len(rxBuf))
    BY <2>3 DEF ReadSoFar
  <2>5. Frame(G) /\ G \in Seq(Nat)
    BY DEF Says, Frame
  <2>6. PREAMBLE \in Seq(Nat) /\ S \in Seq(Nat) /\ Len(S) = Len(rxBuf) + Len(pending)
    BY <2>2, PreambleIs DEF NoStart
  <2>7. Holds(P, b, F, k)
    BY <2>4, PreambleIs, GapBehind
  <2>8. bytes \in Seq(Nat) /\ pending' \in Seq(Nat) /\ rxBuf' \in Seq(Nat)
    BY <1>2, <2>2, <2>5, <2>6
  <2>9. rxBuf' \o pending' = P \o G
    <3>1. \A s, t, u \in Seq(Nat) : (s \o t) \o u = s \o (t \o u)
      BY JoinedTwice
    <3>2. rxBuf' \o pending' = rxBuf \o (pending \o bytes)
      BY <1>2
    <3>3. rxBuf \o (pending \o bytes) = S \o bytes
      BY <2>2, <2>8, <3>1, Zenon
    <3>4. S \o bytes = P \o G
      <4> HIDE DEF S
      <4>1. QED
        BY <2>5, <2>6, <3>1, Zenon
    <3>5. QED
      BY <3>2, <3>3, <3>4
  <2>10. k \in Nat /\ k + 1 = (N + 1) - g /\ g \in 0..N + 1 /\ g + (k + 1) = N + 1
    BY <1>3, <2>4
  <2>11. Len(P) \in Nat /\ Len(P) >= Len(rxBuf) /\ Len(rxBuf) \in Nat
    <3>1. IsJoin(P, S, Len(S), PREAMBLE, 3) /\ Len(S) \in Nat
      <4> HIDE DEF S
      <4>1. Len(S) \in Nat
        BY <2>6
      <4>2. QED
        BY <2>6, <4>1, PreambleIs, Joined
    <3>2. Len(P) = Len(S) + 3
      BY <3>1 DEF IsJoin
    <3> HIDE DEF P, S
    <3>3. QED
      BY <2>2, <2>6, <3>2
  <2> HIDE DEF k, P, S, N
  <2>12. PICK c, E : /\ \A j \in 1..k : c[j] = b[j] /\ E[j] = F[j]
                     /\ c[k + 1] = Len(P) + 1 /\ E[k + 1] = G
    <3> DEFINE cc == [j \in 1..k + 1 |-> IF j = k + 1 THEN Len(P) + 1 ELSE b[j]]
               EE == [j \in 1..k + 1 |-> IF j = k + 1 THEN G ELSE F[j]]
    <3>1. \A j \in 1..k : j \in 1..k + 1 /\ j # k + 1
      BY <2>10
    <3>2. k + 1 \in 1..k + 1
      BY <2>10
    <3>3. /\ \A j \in 1..k : cc[j] = b[j] /\ EE[j] = F[j]
          /\ cc[k + 1] = Len(P) + 1 /\ EE[k + 1] = G
      BY <3>1, <3>2
    <3> HIDE DEF cc, EE
    <3>4. QED
      BY <3>3
  <2>13. Holds(P \o G, c, E, k + 1)
    BY <2>5, <2>7, <2>12, FrameBehind
  <2>14. \A j \in 1..k + 1 : Says(onBus, E[j], sent'[g + j])
    <3> SUFFICES ASSUME NEW j \in 1..k + 1 PROVE Says(onBus, E[j], sent'[g + j])
      OBVIOUS
    <3>1. CASE j = k + 1
      BY <1>3, <2>10, <2>12, <3>1
    <3>2. CASE j # k + 1
      <4>1. j \in 1..k
        BY <2>10, <3>2
      <4>2. g + j \in 1..N
        BY <1>3, <2>4, <2>10, <4>1
      <4>3. QED
        BY <1>3, <2>4, <2>12, <4>1, <4>2
    <3>3. QED
      BY <3>1, <3>2
  <2>15. SubSeq(sent', 1, g) = SubSeq(sent, 1, g)
    <3>1. SubSeq(sent', 1, g) = [j \in 1..g |-> sent'[j]]
      BY <1>3, <2>4
    <3>2. SubSeq(sent, 1, g) = [j \in 1..g |-> sent[j]]
      BY <1>1, <2>4
    <3>3. \A j \in 1..g : j \in 1..N
      BY <1>3, <2>4
    <3>4. QED
      BY <1>3, <3>1, <3>2, <3>3
  <2>16. End(c, E, 1) > Len(rxBuf)
    <3>1. CASE k = 0
      <4>1. c[1] = Len(P) + 1 /\ E[1] = G
        BY <2>12, <3>1
      <4>2. Len(G) \in Nat /\ Len(G) >= 8
        BY <2>5 DEF Frame
      <4>3. QED
        BY <2>11, <4>1, <4>2 DEF End
    <3>2. CASE k # 0
      <4>1. 1 \in 1..k
        BY <2>10, <3>2
      <4>2. End(c, E, 1) = End(b, F, 1)
        BY <2>12, <4>1 DEF End
      <4>3. QED
        BY <2>4, <4>1, <4>2
    <3>3. QED
      BY <3>1, <3>2
  <2>17. Len(sent') - g = k + 1
    BY <1>3, <2>10
  <2>18. ReadSoFar(g, c, E)'
    <3>1. g \in 0..Len(sent') /\ got' = SubSeq(sent', 1, g)
      BY <1>2, <1>3, <2>4, <2>10, <2>15
    <3>2. Holds(rxBuf' \o pending', c, E, Len(sent') - g)
      BY <2>9, <2>13, <2>17
    <3>3. \A j \in 1..Len(sent') - g : Says(onBus', E[j], sent'[g + j])
      BY <1>2, <2>14, <2>17
    <3>4. 1 \in 1..Len(sent') - g => End(c, E, 1) > Len(rxBuf')
      BY <1>2, <2>16
    <3>5. QED
      BY <3>1, <3>2, <3>3, <3>4 DEF ReadSoFar
  <2>19. QED
    BY <2>8, <2>18 DEF Reading
<1>5. QED
  BY <1>1, <1>2, <1>3, <1>4 DEF JInv

\* Noise without start bytes leaves the frames where they are.
LEMMA NoiseReads ==
    ASSUME NEW x \in NoiseBytes, JInv, Noise(x)
    PROVE  JInv'
<1>1. /\ onBus \in BOOLEAN /\ sent \in Seq(Messages) /\ faults \in Nat
      /\ (Quiet => Reading)
  BY DEF JInv
<1>2. /\ onBus /\ faults' = faults + 1 /\ pending' = pending \o <<x>>
      /\ onBus' = onBus /\ rxBuf' = rxBuf /\ got' = got /\ sent' = sent
  BY DEF Noise, Fault
<1>3. ASSUME Quiet' PROVE Reading'
  <2>1. START \notin NoiseBytes /\ Damaged = {}
    BY <1>1, <1>2, <1>3 DEF Quiet
  <2>2. Reading
    BY <1>1, <2>1 DEF Quiet
  <2>3. rxBuf \in Seq(Nat) /\ pending \in Seq(Nat)
    BY <2>2 DEF Reading
  <2>4. PICK g, b, F : ReadSoFar(g, b, F)
    BY <2>2 DEF Reading
  <2> DEFINE gap == <<x>>
  <2>5. NoStart(gap)
    <3>1. x \in Nat /\ x # START
      <4>1. x \in Byte
        BY FrameStreamAssumption
      <4>2. QED
        BY <2>1, <4>1 DEF Byte
    <3>2. gap \in Seq(Nat) /\ Len(gap) = 1 /\ gap[1] = x
      BY <3>1
    <3> HIDE DEF gap
    <3>3. QED
      BY <3>1, <3>2 DEF NoStart
  <2> HIDE DEF gap
  <2>6. Holds((rxBuf \o pending) \o gap, b, F, Len(sent) - g)
    BY <2>4, <2>5, GapBehind DEF ReadSoFar
  <2>7. pending' = pending \o gap /\ gap \in Seq(Nat)
    BY <1>2, <2>5 DEF gap, NoStart
  <2>8. rxBuf' \o pending' = (rxBuf \o pending) \o gap
    <3>1. \A s, t, u \in Seq(Nat) : (s \o t) \o u = s \o (t \o u)
      BY JoinedTwice
    <3>2. rxBuf' \o pending' = rxBuf \o (pending \o gap)
      BY <1>2, <2>7
    <3>3. rxBuf \o (pending \o gap) = (rxBuf \o pending) \o gap
      BY <2>3, <2>7, <3>1, Zenon
    <3>4. QED
      BY <3>2, <3>3
  <2>9. ReadSoFar(g, b, F)'
    BY <1>2, <2>4, <2>6, <2>8 DEF ReadSoFar
  <2>10. pending' \in Seq(Nat)
    BY <2>3, <2>7
  <2>11. QED
    BY <1>2, <2>3, <2>9, <2>10 DEF Reading
<1>4. QED
  BY <1>1, <1>2, <1>3 DEF JInv
\* A chunk is read for all the frames that it completes, and the rest is kept.
LEMMA ChunkReads ==
    ASSUME NEW n \in ChunkSizes, JInv, Chunk(n)
    PROVE  JInv'
<1> DEFINE X == Len(rxBuf)
           P == Len(pending)
           N == Len(sent)
           q == SubSeq(pending, 1, n)
           merged == rxBuf \o q
           result == ScanFrames(merged, onBus)
           rest == Remainder(merged, result.consumed)
<1>1. /\ onBus \in BOOLEAN /\ sent \in Seq(Messages) /\ faults \in Nat
      /\ (~onBus => faults = 0) /\ (Quiet => Reading)
  BY DEF JInv
<1>2. /\ n <= P
      /\ rxBuf' = IF Len(rest) > MAX_RX_BUFFER THEN <<>> ELSE rest
      /\ got' = got \o Read(result.frames)
      /\ pending' = SubSeq(pending, n + 1, P)
      /\ onBus' = onBus /\ sent' = sent /\ faults' = faults
  BY DEF Chunk
<1>3. n \in Nat
  BY FrameStreamAssumption
<1>4. ASSUME Quiet PROVE Reading'
  <2>1. rxBuf \in Seq(Nat) /\ pending \in Seq(Nat)
    BY <1>1, <1>4 DEF Reading
  <2>2. PICK g, b, F : ReadSoFar(g, b, F)
    BY <1>1, <1>4 DEF Reading
  <2> DEFINE S == rxBuf \o pending
             k == N - g
             v == onBus
  <2>3. /\ g \in 0..N /\ got = SubSeq(sent, 1, g) /\ Holds(S, b, F, k)
        /\ \A j \in 1..k : Says(onBus, F[j], sent[g + j])
    BY <2>2 DEF ReadSoFar
  <2>4. X \in Nat /\ P \in Nat /\ N \in Nat /\ g \in Nat /\ k \in Nat
    BY <1>1, <2>1, <2>3
  <2>5. q \in Seq(Nat) /\ Len(q) = n /\ \A i \in 1..n : q[i] = pending[i]
    BY <1>2, <1>3, <2>1, <2>4
  <2>6. /\ pending' \in Seq(Nat) /\ Len(pending') = P - n
        /\ \A i \in 1..P - n : pending'[i] = pending[n + i]
    BY <1>2, <1>3, <2>1, <2>4
  <2> HIDE DEF q
  <2>7. S \in Seq(Nat) /\ IsJoin(S, rxBuf, X, pending, P)
    BY <2>1, <2>4, Joined
  <2>8. merged \in Seq(Nat) /\ IsJoin(merged, rxBuf, X, q, n)
    BY <1>3, <2>1, <2>4, <2>5, Joined
  <2> HIDE DEF S, merged
  <2>9. Len(S) = X + P /\ Len(merged) = X + n
    BY <2>7, <2>8 DEF IsJoin
  <2>10. \A p \in 1..X + n : merged[p] = S[p]
    <3> SUFFICES ASSUME NEW p \in 1..X + n PROVE merged[p] = S[p]
      OBVIOUS
    <3>1. S[p] = IF p <= X THEN rxBuf[p] ELSE pending[p - X]
      <4>1. p \in 1..X + P
        BY <1>2, <1>3, <2>4
      <4>2. QED
        BY <2>7, <4>1 DEF IsJoin
    <3>2. merged[p] = IF p <= X THEN rxBuf[p] ELSE q[p - X]
      BY <2>8 DEF IsJoin
    <3>3. ~(p <= X) => p - X \in 1..n
      BY <1>3, <2>4
    <3>4. QED
      BY <2>5, <3>1, <3>2, <3>3
  <2>11. Begins(merged, S)
    <3>1. Len(merged) <= Len(S)
      BY <1>2, <1>3, <2>4, <2>9
    <3>2. QED
      BY <2>8, <2>9, <2>10, <3>1 DEF Begins
  <2>12. Clean(b, F, k, 1, 0)
    <3>1. \A j \in 1..k : ~(j <= 0) /\ b[j] >= 1
      <4> SUFFICES ASSUME NEW j \in 1..k PROVE ~(j <= 0) /\ b[j] >= 1
        OBVIOUS
      <4>1. b[j] \in Nat \ {0}
        BY <2>3, HeldFrame
      <4>2. QED
        BY <4>1
    <3>2. QED
      BY <2>4, <3>1 DEF Clean
  <2>13. Finds(b, F, k, merged, v, 1, 0)
    <3>1. 1 \in 1..Len(merged) + 1 /\ 0 \in 0..k
      BY <1>3, <2>4, <2>9
    <3>2. QED
      BY <2>3, <2>11, <2>12, <3>1, FindsEverywhere
  <2>14. PICK d \in 0..k, r \in 1 - 1..Len(merged) :
            /\ Scan(merged, v)[1] = [frames |-> [j \in 1..d - 0 |-> FrameAt(F[0 + j], 1)],
                                     consumed |-> r]
            /\ Len(merged) - r <= 262
            /\ \A j \in 1..d : End(b, F, j) <= r
            /\ d + 1 \in 1..k => r < b[d + 1] /\ End(b, F, d + 1) > Len(merged)
    BY <2>13 DEF Finds
  <2>15. d \in Nat /\ d <= k /\ r \in Nat /\ r <= X + n /\ d - 0 = d /\ 1 - 1 = 0
    BY <1>3, <2>4, <2>9
  <2>16. result.frames = [j \in 1..d |-> FrameAt(F[j], 1)] /\ result.consumed = r
    <3> DEFINE fs == [j \in 1..d - 0 |-> FrameAt(F[0 + j], 1)]
    <3>1. fs = [j \in 1..d |-> FrameAt(F[j], 1)]
      <4>1. \A j \in 1..d : 0 + j = j
        BY <2>15
      <4>2. QED
        BY <2>15, <4>1
    <3> HIDE DEF fs
    <3>2. result = [frames |-> fs, consumed |-> r]
      BY <2>14 DEF fs, ScanFrames
    <3> HIDE DEF result
    <3>3. QED
      BY <3>1, <3>2
  <2> HIDE DEF result
  <2> DEFINE m == SubSeq(sent, g + 1, g + d)
  <2>17. /\ m \in Seq(Messages) /\ Len(m) = d
         /\ \A j \in 1..d : m[j] = sent[g + j]
    <3>1. g + d <= N
      BY <2>3, <2>4, <2>15
    <3> HIDE DEF N, k
    <3>2. g + 1 \in Int /\ g + d \in Int /\ \A i \in g + 1..g + d : i \in 1..Len(sent)
      BY <2>4, <2>15, <3>1 DEF N
    <3>3. \A i \in g + 1..g + d : sent[i] \in Messages
      BY <1>1, <3>2
    <3>4. /\ m \in Seq(Messages)
          /\ Len(m) = IF g + 1 <= g + d THEN (g + d) - (g + 1) + 1 ELSE 0
          /\ \A i \in 1..(g + d) - (g + 1) + 1 : m[i] = sent[(g + 1) + i - 1]
      BY <3>2, <3>3, SubSeqProperties
    <3> HIDE DEF m
    <3>5. (g + d) - (g + 1) + 1 = d /\ Len(m) = d
      BY <2>4, <2>15, <3>4
    <3>6. \A i \in 1..d : (g + 1) + i - 1 = g + i
      BY <2>4, <2>15
    <3>7. QED
      BY <3>4, <3>5, <3>6
  <2> HIDE DEF m
  <2>18. Read(result.frames) = m
    <3>1. \A j \in 1..Len(m) : Says(onBus, F[j], m[j])
      <4>1. \A j \in 1..d : j \in 1..k
        BY <2>4, <2>15
      <4>2. QED
        BY <2>3, <2>17, <4>1
    <3>2. Read([j \in 1..Len(m) |-> FrameAt(F[j], 1)]) = m
      BY <2>17, <3>1, ReadIs
    <3>3. QED
      BY <2>16, <2>17, <3>2
  <2>19. got' = SubSeq(sent', 1, g + d)
    <3>1. SubSeq(sent, 1, g) \o SubSeq(sent, g + 1, g + d) = SubSeq(sent, 1, g + d)
      <4>1. /\ 1 \in 1..Len(sent) + 1 /\ g \in 1 - 1..Len(sent)
            /\ g + d \in g..Len(sent)
        BY <2>3, <2>4, <2>15
      <4>2. QED
        BY <1>1, <4>1, ConcatAdjacentSubSeq
    <3>2. QED
      BY <1>2, <2>3, <2>18, <3>1 DEF m
  <2>20. /\ rest \in Seq(Nat) /\ Len(rest) = (X + n) - r
         /\ \A p \in 1..(X + n) - r : rest[p] = merged[p + r]
    <3>1. rest = SubSeq(merged, r + 1, X + n)
      BY <2>9, <2>16 DEF Remainder
    <3>2. \A i \in r + 1..X + n : merged[i] \in Nat
      BY <1>3, <2>4, <2>8, <2>9, <2>15
    <3>3. r + 1 \in Int /\ X + n \in Int
      BY <1>3, <2>4, <2>15
    <3> HIDE DEF rest, X
    <3>4. /\ rest \in Seq(Nat)
          /\ Len(rest) = IF r + 1 <= X + n THEN (X + n) - (r + 1) + 1 ELSE 0
          /\ \A i \in 1..(X + n) - (r + 1) + 1 : rest[i] = merged[(r + 1) + i - 1]
      BY <3>1, <3>2, <3>3, SubSeqProperties
    <3>5. Len(rest) = (X + n) - r /\ (X + n) - (r + 1) + 1 = (X + n) - r
      BY <1>3, <2>4, <2>15, <3>4
    <3>6. \A i \in 1..(X + n) - r : (r + 1) + i - 1 = i + r
      BY <1>3, <2>4, <2>15
    <3>7. QED
      BY <3>4, <3>5, <3>6
  <2> HIDE DEF rest
  <2>21. rxBuf' = rest
    <3>1. ~(Len(rest) > MAX_RX_BUFFER)
      BY <1>3, <2>4, <2>9, <2>14, <2>15, <2>20 DEF MAX_RX_BUFFER
    <3>2. QED
      BY <1>2, <3>1
  <2> DEFINE l == (X + n) - r
             T == rest \o pending'
  <2>22. l \in Nat /\ P - n \in Nat
    BY <1>2, <1>3, <2>4, <2>15
  <2>23. T \in Seq(Nat) /\ IsJoin(T, rest, l, pending', P - n)
    BY <2>6, <2>20, <2>22, Joined
  <2> HIDE DEF T
  <2>24. Len(T) = l + (P - n) /\ Len(T) + r = Len(S)
    <3>1. Len(T) = l + (P - n)
      BY <2>23 DEF IsJoin
    <3>2. QED
      BY <1>3, <2>4, <2>9, <2>15, <3>1
  <2>25. \A p \in 1..Len(T) : T[p] = S[p + r]
    <3> SUFFICES ASSUME NEW p \in 1..Len(T) PROVE T[p] = S[p + r]
      OBVIOUS
    <3>1. T[p] = IF p <= l THEN rest[p] ELSE pending'[p - l]
      BY <2>23, <2>24 DEF IsJoin
    <3>2. CASE p <= l
      <4>1. p \in 1..l /\ p + r \in 1..X + n
        BY <1>3, <2>4, <2>15, <2>22, <3>2
      <4>2. QED
        BY <2>10, <2>20, <3>1, <3>2, <4>1
    <3>3. CASE ~(p <= l)
      <4>1. /\ p - l \in 1..P - n /\ p + r \in 1..X + P /\ ~(p + r <= X)
            /\ n + (p - l) = (p + r) - X
        <5> HIDE DEF X, P
        <5>1. QED
          BY <1>3, <2>4, <2>15, <2>22, <2>24, <3>3
      <4>2. S[p + r] = pending[(p + r) - X]
        BY <2>7, <4>1 DEF IsJoin
      <4>3. pending'[p - l] = pending[n + (p - l)]
        BY <2>6, <4>1
      <4>4. QED
        BY <3>1, <3>3, <4>1, <4>2, <4>3
    <3>4. QED
      BY <3>2, <3>3
  <2>26. PICK c, E : \A j \in 1..k - d : c[j] = b[d + j] - r /\ E[j] = F[d + j]
    <3> DEFINE cc == [j \in 1..k - d |-> b[d + j] - r]
               EE == [j \in 1..k - d |-> F[d + j]]
    <3>1. \A j \in 1..k - d : cc[j] = b[d + j] - r /\ EE[j] = F[d + j]
      OBVIOUS
    <3> HIDE DEF cc, EE
    <3>2. QED
      BY <3>1
  <2>27. Holds(T, c, E, k - d)
    <3>1. d \in 0..k /\ (\A j \in 1..d : End(b, F, j) <= r) /\ (d + 1 \in 1..k => r < b[d + 1])
      BY <2>14
    <3>2. Holds(S, b, F, k) /\ r \in Nat
      BY <2>3, <2>15
    <3>3. Without(T, S, r)
      BY <2>23, <2>24, <2>25 DEF Without
    <3>4. Cut(b, F, k, d, r)
      BY <3>1 DEF Cut
    <3>5. Shifted(c, E, b, F, k, d, r)
      BY <2>26 DEF Shifted
    <3> HIDE DEF k
    <3>6. QED
      BY <3>1, <3>2, <3>3, <3>4, <3>5, RestHolds
  <2>28. Len(sent') - (g + d) = k - d /\ g + d \in 0..Len(sent')
    BY <1>2, <2>3, <2>4, <2>15
  <2>29. \A j \in 1..k - d : Says(onBus', E[j], sent'[(g + d) + j])
    <3> SUFFICES ASSUME NEW j \in 1..k - d PROVE Says(onBus', E[j], sent'[(g + d) + j])
      OBVIOUS
    <3>1. d + j \in 1..k /\ g + (d + j) = (g + d) + j
      BY <2>4, <2>15
    <3>2. Says(onBus, F[d + j], sent[g + (d + j)])
      BY <2>3, <3>1
    <3>3. QED
      BY <1>2, <2>26, <3>1, <3>2
  <2>30. 1 \in 1..k - d => End(c, E, 1) > Len(rxBuf')
    <3> SUFFICES ASSUME 1 \in 1..k - d PROVE End(c, E, 1) > Len(rxBuf')
      OBVIOUS
    <3>1. d + 1 \in 1..k
      BY <2>4, <2>15
    <3>2. End(b, F, d + 1) > X + n /\ b[d + 1] \in Nat /\ Len(F[d + 1]) \in Nat
      BY <2>3, <2>9, <2>14, <3>1, HeldFrame
    <3>3. c[1] = b[d + 1] - r /\ E[1] = F[d + 1]
      BY <2>26
    <3>4. b[d + 1] + Len(F[d + 1]) - 1 > X + n
      BY <3>2 DEF End
    <3> DEFINE y == b[d + 1]
               L == Len(F[d + 1])
    <3>5. End(c, E, 1) = (y - r) + L - 1
      BY <3>3 DEF End
    <3> HIDE DEF y, L
    <3>6. (y - r) + L - 1 > (X + n) - r
      <4>1. y \in Nat /\ L \in Nat /\ y + L - 1 > X + n
        BY <3>2, <3>4 DEF y, L
      <4>2. QED
        BY <1>3, <2>4, <2>15, <4>1
    <3>7. QED
      BY <2>20, <2>21, <3>5, <3>6
  <2>31. ReadSoFar(g + d, c, E)'
    <3>1. rxBuf' \o pending' = T
      BY <2>21 DEF T
    <3> HIDE DEF k
    <3>2. Holds(rxBuf' \o pending', c, E, Len(sent') - (g + d))
      BY <2>27, <2>28, <3>1
    <3>3. \A j \in 1..Len(sent') - (g + d) : Says(onBus', E[j], sent'[(g + d) + j])
      BY <2>28, <2>29
    <3>4. 1 \in 1..Len(sent') - (g + d) => End(c, E, 1) > Len(rxBuf')
      BY <2>28, <2>30
    <3>5. QED
      BY <2>19, <2>28, <3>2, <3>3, <3>4 DEF ReadSoFar
  <2>32. QED
    BY <2>6, <2>20, <2>21, <2>31 DEF Reading
<1>5. Quiet' => Quiet
  BY <1>2 DEF Quiet
<1>6. QED
  BY <1>1, <1>2, <1>4, <1>5 DEF JInv

-----------------------------------------------------------------------------
(* The theorems.                                                           *)

\* JInv is an invariant.
LEMMA JInvHolds == Spec => []JInv
<1>1. Init => JInv
  <2> SUFFICES ASSUME Init PROVE JInv
    OBVIOUS
  <2>1. /\ onBus \in BOOLEAN /\ sent = <<>> /\ pending = <<>> /\ rxBuf = <<>>
        /\ got = <<>> /\ faults = 0
    BY DEF Init
  <2>2. sent \in Seq(Messages) /\ Len(sent) = 0
    BY <2>1
  <2>3. rxBuf \in Seq(Nat) /\ pending \in Seq(Nat) /\ rxBuf \o pending = <<>>
    BY <2>1
  <2>4. Holds(<<>>, <<>>, <<>>, 0)
    BY DEF Holds
  <2>5. ReadSoFar(0, <<>>, <<>>)
    <3>1. 0 \in 0..Len(sent) /\ Len(sent) - 0 = 0
      BY <2>2
    <3>2. got = SubSeq(sent, 1, 0)
      BY <2>1
    <3>3. Holds(rxBuf \o pending, <<>>, <<>>, Len(sent) - 0)
      BY <2>3, <2>4, <3>1
    <3>4. \A j \in 1..Len(sent) - 0 : FALSE
      BY <3>1
    <3>5. ~(1 \in 1..Len(sent) - 0)
      BY <3>1
    <3>6. QED
      BY <3>1, <3>2, <3>3, <3>4, <3>5 DEF ReadSoFar
  <2>6. QED
    BY <2>1, <2>2, <2>3, <2>5 DEF JInv, Reading
<1>2. JInv /\ [Next]_vars => JInv'
  <2> SUFFICES ASSUME JInv, [Next]_vars PROVE JInv'
    OBVIOUS
  <2>1. CASE \E c \in Commands : SendCommand(c)
    <3>1. PICK c \in Commands : SendCommand(c)
      BY <2>1
    <3>2. PICK G : Encode(c) = PREAMBLE \o G /\ Says(FALSE, G, Intended(c))
      BY CommandIs
    <3>3. onBus = FALSE /\ Send(Intended(c), Encode(c))
      BY <3>1 DEF SendCommand, JInv
    <3>4. Intended(c) \in Messages
      BY DEF Messages
    <3>5. Says(onBus, G, Intended(c))
      BY <3>2, <3>3
    <3>6. QED
      BY <3>2, <3>3, <3>4, <3>5, SendReads
  <2>2. CASE \E s \in Replies : SendReply(s)
    <3>1. PICK s \in Replies : SendReply(s)
      BY <2>2
    <3>2. PICK G : Reply(s) = PREAMBLE \o G /\ Says(TRUE, G, s)
      BY ReplyIs
    <3>3. onBus = TRUE /\ Send(s, Reply(s))
      BY <3>1 DEF SendReply, JInv
    <3>4. s \in Messages
      BY DEF Messages
    <3>5. Says(onBus, G, s)
      BY <3>2, <3>3
    <3>6. QED
      BY <3>2, <3>3, <3>4, <3>5, SendReads
  <2>3. CASE \E x \in NoiseBytes : Noise(x)
    BY <2>3, NoiseReads
  <2>4. CASE \E s \in Replies, i \in Damaged, x \in NoiseBytes : DamagedReply(s, i, x)
    <3>1. Damaged # {} /\ onBus /\ onBus' = onBus /\ faults' = faults + 1 /\ sent' = sent
      BY <2>4 DEF DamagedReply, Fault
    <3>2. faults \in Nat /\ sent \in Seq(Messages) /\ onBus \in BOOLEAN
      BY DEF JInv
    <3>3. ~Quiet'
      BY <3>1, <3>2 DEF Quiet
    <3>4. QED
      BY <3>1, <3>2, <3>3 DEF JInv
  <2>5. CASE \E n \in ChunkSizes : Chunk(n)
    BY <2>5, ChunkReads
  <2>6. CASE UNCHANGED vars
    <3>1. /\ onBus' = onBus /\ sent' = sent /\ pending' = pending /\ rxBuf' = rxBuf
          /\ got' = got /\ faults' = faults
      BY <2>6 DEF vars
    <3>2. Reading => Reading'
      BY <3>1 DEF Reading, ReadSoFar
    <3>3. QED
      BY <3>1, <3>2 DEF JInv, Quiet
  <2>7. QED
    BY <2>1, <2>2, <2>3, <2>4, <2>5, <2>6 DEF Next
<1>3. QED
  BY <1>1, <1>2, PTL DEF Spec

\* What JInv says of the messages read.
LEMMA QuietImplies == JInv => (Quiet => ReadsWhatWasSent /\ NothingHeldBack)
<1> SUFFICES ASSUME JInv, Quiet PROVE ReadsWhatWasSent /\ NothingHeldBack
  OBVIOUS
<1>1. sent \in Seq(Messages) /\ Reading
  BY DEF JInv
<1>2. PICK g, b, F : ReadSoFar(g, b, F)
  BY <1>1 DEF Reading
<1> DEFINE k == Len(sent) - g
<1>3. /\ g \in 0..Len(sent) /\ got = SubSeq(sent, 1, g) /\ Holds(rxBuf \o pending, b, F, k)
      /\ 1 \in 1..k => End(b, F, 1) > Len(rxBuf)
  BY <1>2 DEF ReadSoFar
<1>4. Len(got) = g /\ Len(sent) \in Nat /\ g \in Nat
  BY <1>1, <1>3
<1>5. ReadsWhatWasSent
  <2>1. got \in Seq(Messages)
    BY <1>1, <1>3
  <2>2. SubSeq(got, 1, Len(got)) = got
    BY <2>1, SubSeqFull
  <2>3. QED
    BY <1>3, <1>4, <2>2 DEF ReadsWhatWasSent, IsPrefix
<1>6. ASSUME pending = <<>> PROVE got = sent
  <2>1. rxBuf \o pending = rxBuf
    BY <1>1, <1>6 DEF Reading
  <2>2. Holds(rxBuf, b, F, k)
    BY <1>3, <2>1
  <2>3. ~(1 \in 1..k)
    <3> SUFFICES ASSUME 1 \in 1..k PROVE FALSE
      OBVIOUS
    <3> HIDE DEF k
    <3>1. End(b, F, 1) \in Nat /\ End(b, F, 1) <= Len(rxBuf)
      BY <2>2, HeldFrame
    <3>2. Len(rxBuf) \in Nat
      BY <1>1 DEF Reading
    <3>3. QED
      BY <1>3, <3>1, <3>2
  <2>4. g = Len(sent)
    BY <1>3, <1>4, <2>3
  <2>5. SubSeq(sent, 1, Len(sent)) = sent
    BY <1>1, SubSeqFull
  <2>6. QED
    BY <1>3, <2>4, <2>5
<1>7. QED
  BY <1>5, <1>6 DEF NothingHeldBack

\* While there is nothing on the wire that could be taken for the start of a frame, the
\* readers (observe() and onData()) read what was sent, in order, whatever the messages and
\* wherever the stream is cut.
THEOREM QuietReads == Spec => [](Quiet => ReadsWhatWasSent)
<1>1. JInv => (Quiet => ReadsWhatWasSent)
  BY QuietImplies
<1>2. QED
  BY <1>1, JInvHolds, PTL

\* And they read a message with its last byte.
THEOREM QuietReadsAtOnce == Spec => [](Quiet => NothingHeldBack)
<1>1. JInv => (Quiet => NothingHeldBack)
  BY QuietImplies
<1>2. QED
  BY <1>1, JInvHolds, PTL

\* The guardian always does: what observe() makes of the app's stream is what the app sent,
\* and nothing complete is left unread.
THEOREM GuardianReads == Spec => [](~onBus => ReadsWhatWasSent /\ NothingHeldBack)
<1>1. JInv => (~onBus => ReadsWhatWasSent /\ NothingHeldBack)
  <2>1. JInv => (~onBus => Quiet)
    BY DEF JInv, Quiet
  <2>2. QED
    BY <2>1, QuietImplies
<1>2. QED
  BY <1>1, JInvHolds, PTL
=============================================================================
