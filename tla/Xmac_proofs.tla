----------------------------- MODULE Xmac_proofs -----------------------------
(***************************************************************************)
(* Proofs about Xmac.  What the process has left to do is a sequence of    *)
(* operations; the invariant says of this sequence that every lock is      *)
(* followed by its unlock, and every disabling of one timer by the         *)
(* enabling of the other, so that it does not matter where an interrupt    *)
(* falls.  The second part says at every position of every plan what the   *)
(* flags, the radio and the timers are, once they have agreed.             *)
(***************************************************************************)
EXTENDS Xmac, SequenceTheorems, TLAPS

USE TurnsAssumption DEF TurnsAssumption

\* The driver, locked, comes to its unlock from position i on.
Inside == {"transmit", "release_on", "release_off"}
Unlocks(q, i) ==
  \E j \in i .. Len(q) : q[j] = "unlock" /\ \A k \in i .. j - 1 : q[k] \in Inside

WellFormed(q) ==
  /\ q \in Seq(Operations)
  /\ \A i \in 1 .. Len(q) : q[i] = "lock" => Unlocks(q, i + 1)
  /\ \A i \in 1 .. Len(q) :
       q[i] = "disable_TBCCR3" => i + 1 \in 1 .. Len(q) /\ q[i + 1] = "enable_TBCCR2"

MacFlags == [xmac_is_on : BOOLEAN, radio_is_on : BOOLEAN, was_timeout : BOOLEAN,
             we_are_sending : BOOLEAN]
RadioFlags == [receive_on : BOOLEAN, locked : BOOLEAN, lock_on : BOOLEAN, lock_off : BOOLEAN,
               switching : {"none", "on", "off"}]

RadioTypes == radio \in RadioFlags /\ listening \in BOOLEAN /\ fifo \in Frames \cup {"none"}

OtherTypes ==
  /\ pt \in {"off", "on"}
  /\ armed \subseteq Timers /\ hit \subseteq Timers
  /\ glossy \in BOOLEAN /\ adapt \in BOOLEAN /\ settled \in BOOLEAN
  /\ turns \in 0 .. Turns

PlanInv == WellFormed(todo) /\ (radio.locked => Unlocks(todo, 1))

\* The process switches the radio in the calls of on() and off() only.
SwitchInv ==
  /\ radio.switching = "on" => Do("call_on")
  /\ radio.switching = "off" => Do("call_off")

CycleInv ==
  mac \in MacFlags /\ RadioTypes /\ OtherTypes /\ PlanInv /\ SwitchInv /\ CycleGoesOn

-----------------------------------------------------------------------------
(***************************************************************************)
(* Sequences of operations.                                                *)
(***************************************************************************)

\* What is left of a well-formed sequence is well-formed.
LEMMA RestWellFormed ==
  ASSUME NEW q, WellFormed(q), NEW m \in Nat \ {0}
  PROVE  WellFormed(SubSeq(q, m, Len(q)))
  <1> DEFINE n == Len(q)
             r == SubSeq(q, m, n)
  <1>1. q \in Seq(Operations) /\ n \in Nat /\ \A i \in 1 .. n : q[i] \in Operations
    BY ElementOfSeq, LenProperties DEF WellFormed
  <1>2. /\ r \in Seq(Operations)
        /\ Len(r) = IF m <= n THEN n - m + 1 ELSE 0
        /\ \A i \in 1 .. n - m + 1 : r[i] = q[m + i - 1]
    <2>1. \A i \in m .. n : q[i] \in Operations
      BY <1>1
    <2> HIDE DEF n
    <2> QED
      BY <1>1, <2>1, SubSeqProperties
  <1> HIDE DEF r, n
  <1>3. ASSUME NEW i \in 1 .. Len(r), r[i] = "lock"
        PROVE  Unlocks(r, i + 1)
    <2>1. m <= n /\ i \in 1 .. n - m + 1 /\ m + i - 1 \in 1 .. n /\ q[m + i - 1] = "lock"
      BY <1>1, <1>2, <1>3
    <2>2. PICK j \in m + i .. n : q[j] = "unlock" /\ \A k \in m + i .. j - 1 : q[k] \in Inside
      <3>1. Unlocks(q, m + i - 1 + 1)
        BY <2>1 DEF WellFormed, n
      <3>2. m + i - 1 + 1 = m + i
        BY <2>1
      <3> QED
        BY <3>1, <3>2 DEF Unlocks, n
    <2>3. j - m + 1 \in i + 1 .. Len(r) /\ r[j - m + 1] = q[j]
      <3>1. j - m + 1 \in i + 1 .. n - m + 1
        BY <1>1, <2>1, <2>2
      <3>2. r[j - m + 1] = q[m + (j - m + 1) - 1]
        BY <1>2, <3>1, <2>1
      <3> QED
        BY <1>1, <1>2, <2>1, <3>1, <3>2
    <2>4. ASSUME NEW k \in i + 1 .. (j - m + 1) - 1
          PROVE  r[k] \in Inside
      <3>1. k \in 1 .. n - m + 1 /\ m + k - 1 \in m + i .. j - 1
        BY <1>1, <2>1, <2>2
      <3> QED
        BY <1>2, <2>2, <3>1
    <2> QED
      BY <2>2, <2>3, <2>4 DEF Unlocks
  <1>4. ASSUME NEW i \in 1 .. Len(r), r[i] = "disable_TBCCR3"
        PROVE  i + 1 \in 1 .. Len(r) /\ r[i + 1] = "enable_TBCCR2"
    <2>1. m <= n /\ i \in 1 .. n - m + 1 /\ m + i - 1 \in 1 .. n
          /\ q[m + i - 1] = "disable_TBCCR3"
      BY <1>1, <1>2, <1>4
    <2>2. m + i - 1 + 1 \in 1 .. n /\ q[m + i - 1 + 1] = "enable_TBCCR2"
      BY <2>1 DEF WellFormed, n
    <2>3. m + i - 1 + 1 = m + (i + 1) - 1 /\ i + 1 \in 1 .. n - m + 1
      BY <1>1, <2>1, <2>2
    <2> QED
      BY <1>1, <1>2, <2>1, <2>2, <2>3
  <1> QED
    BY <1>2, <1>3, <1>4 DEF WellFormed, r, n

LEMMA TailWellFormed ==
  ASSUME NEW q, WellFormed(q), q # <<>>
  PROVE  WellFormed(Tail(q))
  <1>1. Tail(q) = SubSeq(q, 2, Len(q))
    BY TailIsSubSeq DEF WellFormed
  <1>2. 2 \in Nat \ {0}
    OBVIOUS
  <1>3. WellFormed(SubSeq(q, 2, Len(q)))
    BY <1>2, RestWellFormed, Zenon
  <1> QED
    BY <1>1, <1>3, Zenon

\* So is one sequence after another.
LEMMA ConcatWellFormed ==
  ASSUME NEW p, NEW q, WellFormed(p), WellFormed(q)
  PROVE  WellFormed(p \o q)
  <1> DEFINE r == p \o q
  <1>1. /\ p \in Seq(Operations) /\ q \in Seq(Operations)
        /\ Len(p) \in Nat /\ Len(q) \in Nat
    BY LenProperties DEF WellFormed
  <1>2. /\ r \in Seq(Operations)
        /\ Len(r) = Len(p) + Len(q)
        /\ \A i \in 1 .. Len(p) + Len(q) : r[i] = IF i <= Len(p) THEN p[i] ELSE q[i - Len(p)]
    BY <1>1, ConcatProperties
  <1> HIDE DEF r
  <1>3. ASSUME NEW i \in 1 .. Len(r), r[i] = "lock"
        PROVE  Unlocks(r, i + 1)
    <2>1. CASE i <= Len(p)
      <3>1. Unlocks(p, i + 1)
        BY <1>1, <1>2, <1>3, <2>1 DEF WellFormed
      <3>2. PICK j \in i + 1 .. Len(p) :
              p[j] = "unlock" /\ \A k \in i + 1 .. j - 1 : p[k] \in Inside
        BY <3>1 DEF Unlocks
      <3>3. j \in i + 1 .. Len(r) /\ r[j] = "unlock"
        BY <1>1, <1>2, <3>2
      <3>4. \A k \in i + 1 .. j - 1 : r[k] \in Inside
        BY <1>1, <1>2, <3>2
      <3> QED
        BY <3>3, <3>4 DEF Unlocks
    <2>2. CASE ~(i <= Len(p))
      <3> DEFINE l == i - Len(p)
      <3>1. l \in 1 .. Len(q) /\ q[l] = "lock"
        BY <1>1, <1>2, <1>3, <2>2
      <3>2. PICK j \in l + 1 .. Len(q) :
              q[j] = "unlock" /\ \A k \in l + 1 .. j - 1 : q[k] \in Inside
        BY <3>1 DEF Unlocks, WellFormed
      <3>3. j + Len(p) \in i + 1 .. Len(r) /\ r[j + Len(p)] = "unlock"
        BY <1>1, <1>2, <2>2, <3>1, <3>2
      <3>4. ASSUME NEW k \in i + 1 .. j + Len(p) - 1
            PROVE  r[k] \in Inside
        <4>1. k - Len(p) \in l + 1 .. j - 1 /\ k \in 1 .. Len(p) + Len(q) /\ ~(k <= Len(p))
          BY <1>1, <1>2, <2>2, <3>1, <3>2
        <4> QED
          BY <1>2, <3>2, <4>1
      <3> QED
        BY <3>3, <3>4 DEF Unlocks
    <2> QED
      BY <2>1, <2>2
  <1>4. ASSUME NEW i \in 1 .. Len(r), r[i] = "disable_TBCCR3"
        PROVE  i + 1 \in 1 .. Len(r) /\ r[i + 1] = "enable_TBCCR2"
    <2>1. CASE i <= Len(p)
      <3>1. i + 1 \in 1 .. Len(p) /\ p[i + 1] = "enable_TBCCR2"
        BY <1>1, <1>2, <1>4, <2>1 DEF WellFormed
      <3> QED
        BY <1>1, <1>2, <3>1
    <2>2. CASE ~(i <= Len(p))
      <3>1. i - Len(p) \in 1 .. Len(q) /\ q[i - Len(p)] = "disable_TBCCR3"
        BY <1>1, <1>2, <1>4, <2>2
      <3>2. i - Len(p) + 1 \in 1 .. Len(q) /\ q[i - Len(p) + 1] = "enable_TBCCR2"
        BY <3>1 DEF WellFormed
      <3>3. i + 1 \in 1 .. Len(p) + Len(q) /\ ~(i + 1 <= Len(p))
            /\ i + 1 - Len(p) = i - Len(p) + 1
        BY <1>1, <1>2, <2>2, <3>2
      <3> QED
        BY <1>1, <1>2, <3>2, <3>3
    <2> QED
      BY <2>1, <2>2
  <1> QED
    BY <1>2, <1>3, <1>4 DEF WellFormed, r

-----------------------------------------------------------------------------
(***************************************************************************)
(* The sequences the process starts with.                                  *)
(***************************************************************************)
LEMMA AccessWellFormed == WellFormed(Access) /\ WellFormed(Send)
  <1>1. WellFormed(Access)
    <2>1. Access \in Seq(Operations) /\ Len(Access) = 4
      BY DEF Access, Operations
    <2>2. Unlocks(Access, 2)
      BY <2>1 DEF Unlocks, Access, Inside
    <2> QED
      BY <2>1, <2>2 DEF WellFormed, Access
  <1>2. WellFormed(Send)
    <2>1. Send \in Seq(Operations) /\ Len(Send) = 5
      BY DEF Send, Operations
    <2>2. Unlocks(Send, 2)
      BY <2>1 DEF Unlocks, Send, Inside
    <2> QED
      BY <2>1, <2>2 DEF WellFormed, Send
  <1> QED
    BY <1>1, <1>2

\* Sequences without a lock and without the disabling of a timer, and the one
\* that disables a timer.
LEMMA ShortWellFormed ==
  /\ WellFormed(<<>>) /\ WellFormed(OnOps) /\ WellFormed(OffOps) /\ WellFormed(EndOps)
  /\ WellFormed(<<"set_sending">>) /\ WellFormed(<<"broadcast">>)
  /\ WellFormed(<<"strobe">>) /\ WellFormed(<<"await">>)
  /\ WellFormed(<<"mac_off", "call_off", "mac_on", "enable_TBCCR3">>)
  /\ WellFormed(<<"test_timeout", "disable_TBCCR3", "enable_TBCCR2", "set_timeout">>)
  <1>1. WellFormed(<<>>)
    BY DEF WellFormed
  <1>2. WellFormed(OnOps) /\ WellFormed(OffOps)
    BY DEF WellFormed, OnOps, OffOps, Operations
  <1>3. WellFormed(<<"end_sending">>)
    BY DEF WellFormed, Operations
  <1>4. WellFormed(EndOps)
    BY <1>2, <1>3, ConcatWellFormed, Zenon DEF EndOps
  <1>5. WellFormed(<<"set_sending">>) /\ WellFormed(<<"broadcast">>)
    BY DEF WellFormed, Operations
  <1>6. WellFormed(<<"strobe">>) /\ WellFormed(<<"await">>)
    BY DEF WellFormed, Operations
  <1>7. WellFormed(<<"mac_off", "call_off", "mac_on", "enable_TBCCR3">>)
    BY DEF WellFormed, Operations
  <1>8. WellFormed(<<"test_timeout", "disable_TBCCR3", "enable_TBCCR2", "set_timeout">>)
    BY DEF WellFormed, Operations
  <1> QED
    BY <1>1, <1>2, <1>4, <1>5, <1>6, <1>7, <1>8

LEMMA ReadOpsWellFormed ==
  ASSUME NEW f \in Frames
  PROVE  WellFormed(ReadOps[f])
  <1> DEFINE timer == <<"test_timeout", "disable_TBCCR3", "enable_TBCCR2", "set_timeout">>
  <1>0. WellFormed(timer)
    BY ShortWellFormed
  <1> HIDE DEF timer
  <1>1. WellFormed(Access \o timer \o OnOps \o Send)
    <2>1. WellFormed(Access \o timer)
      BY <1>0, AccessWellFormed, ConcatWellFormed, Zenon
    <2>2. WellFormed(Access \o timer \o OnOps)
      BY <2>1, ShortWellFormed, ConcatWellFormed, Zenon
    <2> QED
      BY <2>2, AccessWellFormed, ConcatWellFormed, Zenon
  <1>2. WellFormed(Access \o OffOps)
    BY AccessWellFormed, ShortWellFormed, ConcatWellFormed, Zenon
  <1>3. WellFormed(Access \o OffOps \o Send)
    BY <1>2, AccessWellFormed, ConcatWellFormed, Zenon
  <1> DEFINE strobe == Access \o timer \o OnOps \o Send
             data == Access \o OffOps \o Send
             broadcast == Access \o OffOps
  <1>4. ReadOps = [strobe |-> strobe, data |-> data, broadcast |-> broadcast,
                   other |-> Access, ack |-> Access]
    BY Zenon DEF ReadOps, timer
  <1>5. WellFormed(strobe) /\ WellFormed(data) /\ WellFormed(broadcast)
    BY <1>1, <1>2, <1>3
  <1> HIDE DEF strobe, data, broadcast
  <1> QED
    BY <1>4, <1>5, AccessWellFormed DEF Frames

-----------------------------------------------------------------------------
(***************************************************************************)
(* Steps.                                                                  *)
(***************************************************************************)

\* What a well-formed sequence says of its first operation and of the rest.
LEMMA FirstOperation ==
  ASSUME NEW q, WellFormed(q), q # <<>>
  PROVE  /\ WellFormed(Tail(q))
         /\ Head(q) = "lock" => Unlocks(Tail(q), 1)
         /\ Unlocks(q, 1) => Head(q) \in Inside \cup {"unlock"}
         /\ Unlocks(q, 1) /\ Head(q) \in Inside => Unlocks(Tail(q), 1)
         /\ Head(q) = "disable_TBCCR3" => Tail(q) # <<>> /\ Head(Tail(q)) = "enable_TBCCR2"
  <1>1. /\ q \in Seq(Operations) /\ Tail(q) \in Seq(Operations)
        /\ Len(q) \in Nat \ {0} /\ Len(Tail(q)) = Len(q) - 1
        /\ \A k \in 1 .. Len(q) - 1 : Tail(q)[k] = q[k + 1]
        /\ Head(q) = q[1]
    BY HeadTailProperties, EmptySeq DEF WellFormed
  <1> DEFINE r == Tail(q)
  <1>2. WellFormed(r)
    BY TailWellFormed
  <1> HIDE DEF r
  <1>3. ASSUME NEW j \in 2 .. Len(q), q[j] = "unlock", \A k \in 2 .. j - 1 : q[k] \in Inside
        PROVE  Unlocks(r, 1)
    <2>1. j - 1 \in 1 .. Len(r) /\ r[j - 1] = q[j]
      <3>1. j - 1 \in 1 .. Len(q) - 1 /\ (j - 1) + 1 = j
        BY <1>1
      <3> QED
        BY <1>1, <3>1 DEF r
    <2>2. ASSUME NEW k \in 1 .. (j - 1) - 1
          PROVE  r[k] \in Inside
      <3>1. k \in 1 .. Len(q) - 1 /\ k + 1 \in 2 .. j - 1
        BY <1>1
      <3> QED
        BY <1>1, <1>3, <3>1 DEF r
    <2> QED
      BY <1>3, <2>1, <2>2 DEF Unlocks
  <1>4. Head(q) = "lock" => Unlocks(r, 1)
    <2> HAVE Head(q) = "lock"
    <2>1. Unlocks(q, 2)
      <3>1. 1 \in 1 .. Len(q) /\ q[1] = "lock" /\ 1 + 1 = 2
        BY <1>1
      <3> QED
        BY <3>1 DEF WellFormed
    <2> QED
      BY <1>3, <2>1 DEF Unlocks
  <1>5. ASSUME Unlocks(q, 1)
        PROVE  /\ Head(q) \in Inside \cup {"unlock"}
               /\ Head(q) \in Inside => Unlocks(r, 1)
    <2>1. PICK j \in 1 .. Len(q) : q[j] = "unlock" /\ \A k \in 1 .. j - 1 : q[k] \in Inside
      BY <1>5 DEF Unlocks
    <2>2. CASE j = 1
      BY <1>1, <2>1, <2>2 DEF Inside
    <2>3. CASE j # 1
      <3>1. j \in 2 .. Len(q) /\ 1 \in 1 .. j - 1
        BY <1>1, <2>3
      <3>2. \A k \in 2 .. j - 1 : q[k] \in Inside
        BY <2>1
      <3> QED
        BY <1>1, <1>3, <2>1, <3>1, <3>2
    <2> QED
      BY <2>2, <2>3
  <1>6. Head(q) = "disable_TBCCR3" => r # <<>> /\ Head(r) = "enable_TBCCR2"
    <2> HAVE Head(q) = "disable_TBCCR3"
    <2>1. 1 + 1 \in 1 .. Len(q) /\ q[1 + 1] = "enable_TBCCR2"
      <3>1. 1 \in 1 .. Len(q) /\ q[1] = "disable_TBCCR3"
        BY <1>1
      <3> QED
        BY <3>1 DEF WellFormed
    <2>2. 1 \in 1 .. Len(q) - 1 /\ Len(r) > 0
      BY <1>1, <2>1 DEF r
    <2>3. r[1] = "enable_TBCCR2"
      BY <1>1, <2>1, <2>2 DEF r
    <2>4. r \in Seq(Operations) /\ r # <<>> /\ Head(r) = r[1]
      <3>1. r \in Seq(Operations)
        BY <1>1 DEF r
      <3> QED
        BY <2>2, <3>1
    <2> QED
      BY <2>3, <2>4
  <1> QED
    BY <1>2, <1>4, <1>5, <1>6 DEF r

\* The driver is not locked before an operation outside of an access.
LEMMA NotLocked ==
  ASSUME PlanInv, todo = <<>> \/ Head(todo) \notin Inside \cup {"unlock"}
  PROVE  ~radio.locked
  <1>1. CASE todo = <<>>
    BY <1>1 DEF PlanInv, Unlocks
  <1>2. CASE todo # <<>>
    BY <1>2, FirstOperation DEF PlanInv
  <1> QED
    BY <1>1, <1>2

\* The operations keep their types, and so do the interrupts.
LEMMA MacFlagsKept ==
  ASSUME mac \in MacFlags, [Next]_vars
  PROVE  mac' \in MacFlags
  <1> USE DEF MacFlags
  <1>1. CASE SetFlag
    <2>1. \E f \in {"radio_is_on", "was_timeout", "we_are_sending", "xmac_is_on"}, b \in BOOLEAN :
            mac' = [mac EXCEPT ![f] = b]
      BY <1>1 DEF SetFlag
    <2> QED
      BY <2>1
  <1>2. CASE Powercycle
    <2>1. mac' \in {mac, [mac EXCEPT !.radio_is_on = FALSE], Cleared(mac),
                    [Cleared(mac) EXCEPT !.radio_is_on = TRUE]}
      BY <1>2 DEF Powercycle, OffPhase, OnPhase, On, Off
    <2> QED
      BY <2>1 DEF Cleared
  <1>3. CASE Timeout
    <2>1. mac' \in {mac, [mac EXCEPT !.radio_is_on = FALSE]}
      BY <1>3 DEF Timeout, Off
    <2> QED
      BY <2>1
  <1>4. CASE GlossyStarts \/ GlossyEnds
    BY <1>4 DEF GlossyStarts, GlossyEnds
  <1>5. CASE UNCHANGED mac
    BY <1>5
  <1>6. SetFlag \/ Powercycle \/ Timeout \/ GlossyStarts \/ GlossyEnds \/ UNCHANGED mac
    BY Zenon DEF Next, Process, TestOnOff, Call, CallReturns, SetReceiveOn,
           StrobeRadio, SetTimer, TestTimeout, Lock, Transmit, ReleaseLock,
           Strobe, ReadAck, GiveUp, Handler, ReadPacket, SendPacket, SetXmacConfig,
           Interrupt, Arrive, vars
  <1> QED
    BY <1>1, <1>2, <1>3, <1>4, <1>5, <1>6

\* Requests to switch the radio leave the lock alone, and what the process is about to do.
LEMMA SwitchKept ==
  ASSUME RadioTypes, RadioOn \/ RadioOff \/ NoSwitch
  PROVE  /\ RadioTypes' /\ radio'.locked = radio.locked
         /\ radio'.switching = radio.switching
  <1> USE DEF RadioTypes, RadioFlags
  <1>1. CASE SwitchOn
    BY <1>1 DEF SwitchOn
  <1>2. CASE SwitchOff
    BY <1>2 DEF SwitchOff
  <1>3. CASE radio' = [radio EXCEPT !.lock_on = TRUE] /\ UNCHANGED <<listening, fifo>>
    BY <1>3
  <1>4. CASE radio' = [radio EXCEPT !.lock_off = TRUE] /\ UNCHANGED <<listening, fifo>>
    BY <1>4
  <1>5. CASE NoSwitch
    BY <1>5 DEF NoSwitch
  <1> QED
    BY <1>1, <1>2, <1>3, <1>4, <1>5 DEF RadioOn, RadioOff

\* Only the operations "lock" and "unlock" change the lock.
LEMMA RadioKept ==
  ASSUME RadioTypes, [Next]_vars
  PROVE  RadioTypes' /\ (~Lock => radio'.locked = radio.locked)
  <1>1. CASE RadioOn \/ RadioOff \/ NoSwitch
    BY <1>1, SwitchKept
  <1>2. CASE Lock
    BY <1>2 DEF Lock, RadioTypes, RadioFlags
  <1>3. CASE Transmit
    <2>1. listening' \in {radio.receive_on, listening, TRUE} /\ UNCHANGED <<radio, fifo>>
      BY <1>3 DEF Transmit
    <2> QED
      BY <2>1 DEF RadioTypes, RadioFlags
  <1>4. CASE ReleaseLock
    <2>1. \/ /\ radio' = [radio EXCEPT !.receive_on = TRUE, !.lock_on = FALSE]
             /\ listening' = TRUE /\ fifo' = "none"
          \/ /\ radio' = [radio EXCEPT !.receive_on = FALSE, !.lock_off = FALSE]
             /\ listening' = FALSE /\ UNCHANGED fifo
          \/ NoSwitch
      BY <1>4, Zenon DEF ReleaseLock
    <2> QED
      BY <2>1, SwitchKept DEF RadioTypes, RadioFlags
  <1>5. CASE UNCHANGED <<radio, listening>> /\ fifo' \in Frames \cup {"none", fifo}
    BY <1>5 DEF RadioTypes
  <1>6. CASE GlossyEnds
    BY <1>6 DEF GlossyEnds, RadioTypes
  <1>8. CASE SetReceiveOn \/ StrobeRadio
    <2>1. \/ \E b \in BOOLEAN, s \in {"on", "off"} :
               radio' = [radio EXCEPT !.receive_on = b, !.switching = s]
          \/ radio' = [radio EXCEPT !.switching = "none"]
      BY <1>8 DEF SetReceiveOn, StrobeRadio
    <2>2. listening' \in {listening, TRUE, FALSE} /\ fifo' \in {fifo, "none"}
      BY <1>8 DEF SetReceiveOn, StrobeRadio
    <2> QED
      BY <2>1, <2>2 DEF RadioTypes, RadioFlags
  <1>7. \/ RadioOn \/ RadioOff \/ NoSwitch \/ Lock \/ Transmit \/ ReleaseLock \/ GlossyEnds
        \/ SetReceiveOn \/ StrobeRadio
        \/ UNCHANGED <<radio, listening>> /\ fifo' \in Frames \cup {"none", fifo}
    <2>1. CASE Process
      BY <2>1 DEF Process, TestOnOff, SetFlag, Call, CallReturns, SetTimer, TestTimeout,
                  Strobe, ReadAck, GiveUp, Goes
    <2>2. CASE Handler
      BY <2>2 DEF Handler, ReadPacket, SendPacket, SetXmacConfig
    <2>3. CASE Interrupt
      BY <2>3, Zenon DEF Interrupt, Powercycle, OffPhase, OnPhase, On, Off, Timeout, GlossyStarts
    <2>4. CASE Arrive
      BY <2>4 DEF Arrive, Frames
    <2>5. CASE UNCHANGED vars
      BY <2>5 DEF vars
    <2> QED
      BY <2>1, <2>2, <2>3, <2>4, <2>5 DEF Next
  <1> QED
    BY <1>1, <1>2, <1>3, <1>4, <1>5, <1>6, <1>7, <1>8

\* Between the two halves of a switch the process does nothing else.
LEMMA SwitchingKept ==
  ASSUME RadioTypes, SwitchInv, [Next]_vars
  PROVE  SwitchInv'
  <1>1. radio \in RadioFlags
    BY DEF RadioTypes
  <1>2. CASE UNCHANGED todo /\ radio'.switching = radio.switching
    BY <1>2 DEF SwitchInv, Do
  <1>3. CASE radio.switching = "none" /\ radio'.switching = radio.switching
    BY <1>3 DEF SwitchInv
  <1>4. CASE Process
    <2>1. CASE TestOnOff \/ SetFlag \/ SetTimer \/ TestTimeout \/ Strobe \/ ReadAck \/ GiveUp
      <3>1. ~Do("call_on") /\ ~Do("call_off") /\ UNCHANGED radio
        BY <2>1 DEF TestOnOff, SetFlag, SetTimer, TestTimeout, Strobe, ReadAck, GiveUp, Do,
                    NoSwitch
      <3> QED
        BY <1>1, <1>3, <3>1 DEF SwitchInv, RadioFlags
    <2>2. CASE Lock \/ Transmit \/ ReleaseLock
      <3>1. ~Do("call_on") /\ ~Do("call_off") /\ radio'.switching = radio.switching
        BY <1>1, <2>2 DEF Lock, Transmit, ReleaseLock, Do, NoSwitch, RadioFlags
      <3> QED
        BY <1>1, <1>3, <3>1 DEF SwitchInv, RadioFlags
    <2>3. CASE CallReturns
      BY <1>3, <2>3, SwitchKept DEF CallReturns
    <2>4. CASE SetReceiveOn
      BY <1>1, <2>4 DEF SetReceiveOn, SwitchInv, Do, RadioFlags
    <2>5. CASE StrobeRadio
      BY <1>1, <2>5 DEF StrobeRadio, SwitchInv, RadioFlags
    <2> QED
      BY <1>4, <2>1, <2>2, <2>3, <2>4, <2>5 DEF Process, Call
  <1>5. CASE Handler
    <2>1. todo = <<>> /\ UNCHANGED radio
      BY <1>5 DEF Handler, ReadPacket, SendPacket, SetXmacConfig
    <2> QED
      BY <1>1, <1>3, <2>1 DEF SwitchInv, Do, RadioFlags
  <1>6. CASE Interrupt
    <2>1. UNCHANGED todo /\ (RadioOn \/ RadioOff \/ NoSwitch \/ UNCHANGED radio)
      BY <1>6, Zenon DEF Interrupt, Powercycle, OffPhase, OnPhase, On, Off, Timeout, GlossyStarts,
                         GlossyEnds
    <2> QED
      BY <1>2, <2>1, SwitchKept
  <1>7. CASE Arrive \/ UNCHANGED vars
    BY <1>2, <1>7 DEF Arrive, vars
  <1> QED
    BY <1>4, <1>5, <1>6, <1>7 DEF Next

LEMMA OthersKept ==
  ASSUME OtherTypes, [Next]_vars
  PROVE  OtherTypes'
  <1>1. pt' \in {"off", "on"}
    BY DEF OtherTypes, Next, Process, TestOnOff, SetFlag, Call, CallReturns,
           SetReceiveOn, StrobeRadio, SetTimer, TestTimeout, Lock,
           Transmit, ReleaseLock, Strobe, ReadAck, GiveUp, Goes, Handler, ReadPacket, SendPacket,
           SetXmacConfig, Interrupt, Powercycle, OffPhase, OnPhase, Timeout, GlossyStarts,
           GlossyEnds, Arrive, vars
  <1>2. armed' \subseteq Timers
    BY DEF OtherTypes, Timers, Next, Process, TestOnOff, SetFlag, Call, CallReturns,
           SetReceiveOn, StrobeRadio, SetTimer, TestTimeout, Lock,
           Transmit, ReleaseLock, Strobe, ReadAck, GiveUp, Goes, Handler, ReadPacket, SendPacket,
           SetXmacConfig, Interrupt, Powercycle, Timeout, Restarted, GlossyStarts,
           GlossyEnds, Arrive, vars
  <1>3. hit' \subseteq Timers
    BY DEF OtherTypes, Timers, Next, Process, TestOnOff, SetFlag, Call, CallReturns,
           SetReceiveOn, StrobeRadio, SetTimer, TestTimeout, Lock,
           Transmit, ReleaseLock, Strobe, ReadAck, GiveUp, Goes, Handler, ReadPacket, SendPacket,
           SetXmacConfig, Interrupt, Powercycle, Timeout, Expires, GlossyStarts,
           GlossyEnds, Arrive, vars
  <1>4. glossy' \in BOOLEAN /\ adapt' \in BOOLEAN
    BY DEF OtherTypes, Next, Process, TestOnOff, SetFlag, Call, CallReturns,
           SetReceiveOn, StrobeRadio, SetTimer, TestTimeout, Lock,
           Transmit, ReleaseLock, Strobe, ReadAck, GiveUp, Goes, Handler, ReadPacket, SendPacket,
           SetXmacConfig, Interrupt, Powercycle, Timeout, GlossyStarts,
           GlossyEnds, Arrive, vars
  <1>5. settled' \in BOOLEAN
    BY Zenon DEF OtherTypes, Next, Process, TestOnOff, SetFlag, Call, CallReturns,
           SetReceiveOn, StrobeRadio, SetTimer, TestTimeout, Lock,
           Transmit, ReleaseLock, Strobe, ReadAck, GiveUp, Handler, ReadPacket, SendPacket,
           SetXmacConfig, Interrupt, Powercycle, OffPhase, OnPhase, Timeout, GlossyStarts,
           GlossyEnds, Arrive, vars
  <1>6. turns' \in 0 .. Turns
    BY DEF OtherTypes, Next, Process, TestOnOff, SetFlag, Call, CallReturns,
           SetReceiveOn, StrobeRadio, SetTimer, TestTimeout, Lock,
           Transmit, ReleaseLock, Strobe, ReadAck, GiveUp, Goes, Handler, ReadPacket, SendPacket,
           SetXmacConfig, Interrupt, Powercycle, Timeout, GlossyStarts,
           GlossyEnds, Arrive, vars
  <1> QED
    BY <1>1, <1>2, <1>3, <1>4, <1>5, <1>6 DEF OtherTypes

\* The sequence of operations stays well-formed, and the driver, locked, stays
\* on the way to its unlock.
LEMMA PlanKept ==
  ASSUME PlanInv, RadioTypes, [Next]_vars
  PROVE  PlanInv'
  <1>0. WellFormed(todo) /\ (radio.locked => Unlocks(todo, 1))
    BY DEF PlanInv
  <1>1. ASSUME ~radio.locked, ~Lock, WellFormed(todo')
        PROVE  PlanInv'
    BY <1>1, RadioKept DEF PlanInv
  <1>2. ASSUME todo # <<>>, todo' = Tail(todo), Head(todo) \notin Inside \cup {"unlock"}, ~Lock
        PROVE  PlanInv'
    BY <1>0, <1>1, <1>2, FirstOperation, NotLocked, Zenon
  <1>3. ASSUME todo # <<>>, todo' = Tail(todo), Head(todo) \in Inside, ~Lock
        PROVE  PlanInv'
    BY <1>0, <1>3, FirstOperation, RadioKept DEF PlanInv
  <1>4. CASE Lock
    <2>1. todo # <<>> /\ todo' = Tail(todo)
      BY <1>4 DEF Lock, Do, Goes
    <2>2. CASE Head(todo) = "lock"
      BY <1>0, <2>1, <2>2, FirstOperation, Zenon DEF PlanInv
    <2>3. CASE Head(todo) = "unlock"
      <3>1. ~radio'.locked
        BY <1>4, <2>3 DEF Lock, Do, RadioTypes, RadioFlags
      <3> QED
        BY <1>0, <2>1, <3>1, FirstOperation, Zenon DEF PlanInv
    <2> QED
      BY <1>4, <2>2, <2>3 DEF Lock, Do
  <1>5. CASE Process /\ ~Lock
    <2>1. CASE TestOnOff
      <3>1. ~radio.locked
        BY <2>1, NotLocked DEF TestOnOff, Do, Inside
      <3>2. todo # <<>> /\ todo' \in {Tail(todo), SubSeq(todo, 4, Len(todo))}
        BY <2>1, Zenon DEF TestOnOff, Do
      <3>3. WellFormed(Tail(todo)) /\ WellFormed(SubSeq(todo, 4, Len(todo)))
        <4>1. 4 \in Nat \ {0}
          OBVIOUS
        <4> QED
          BY <1>0, <3>2, <4>1, TailWellFormed, RestWellFormed, Zenon
      <3> QED
        BY <1>1, <1>5, <3>1, <3>2, <3>3, Zenon
    <2>2. CASE TestTimeout
      <3>1. ~radio.locked
        BY <2>2, NotLocked DEF TestTimeout, Do, Inside
      <3>2. todo # <<>> /\ todo' \in {Tail(todo), <<>>}
        BY <2>2, Zenon DEF TestTimeout, Do
      <3> QED
        BY <1>0, <1>1, <1>5, <3>1, <3>2, TailWellFormed, ShortWellFormed, Zenon
    <2>3. CASE Strobe \/ ReadAck \/ GiveUp
      <3>1. ~radio.locked
        BY <2>3, NotLocked DEF Strobe, ReadAck, GiveUp, Do, Inside
      <3>2. WellFormed(EndOps) /\ WellFormed(Send \o todo) /\ WellFormed(Access \o todo)
            /\ WellFormed(Access \o EndOps)
        BY <1>0, AccessWellFormed, ShortWellFormed, ConcatWellFormed, Zenon
      <3>3. WellFormed(Access \o (OnOps \o Send \o <<"await">>))
        <4>1. WellFormed(OnOps \o Send)
          BY AccessWellFormed, ShortWellFormed, ConcatWellFormed, Zenon
        <4>2. WellFormed(OnOps \o Send \o <<"await">>)
          BY <4>1, ShortWellFormed, ConcatWellFormed, Zenon
        <4> QED
          BY <4>2, AccessWellFormed, ConcatWellFormed, Zenon
      <3>4. \/ todo' = EndOps \/ todo' = Send \o todo \/ todo' = Access \o todo
            \/ todo' = Access \o EndOps \/ todo' = Access \o (OnOps \o Send \o <<"await">>)
        BY <2>3, Zenon DEF Strobe, ReadAck, GiveUp
      <3> QED
        BY <1>1, <1>5, <3>1, <3>2, <3>3, <3>4, Zenon
    <2>4. CASE SetFlag \/ Call \/ SetTimer
      <3>1. CASE SetFlag \/ CallReturns \/ StrobeRadio \/ SetTimer
        BY <1>2, <1>5, <3>1 DEF SetFlag, CallReturns, StrobeRadio, SetTimer, Do, Goes, Inside
      <3>2. CASE SetReceiveOn
        <4>1. todo' = todo /\ ~radio.locked
          BY <3>2 DEF SetReceiveOn
        <4> QED
          BY <1>0, <1>1, <1>5, <4>1
      <3> QED
        BY <2>4, <3>1, <3>2 DEF Call
    <2>5. CASE Transmit \/ ReleaseLock
      BY <1>3, <1>5, <2>5 DEF Transmit, ReleaseLock, Do, Goes, Inside
    <2> QED
      BY <1>5, <2>1, <2>2, <2>3, <2>4, <2>5 DEF Process
  <1>6. CASE Handler
    <2>1. todo = <<>> /\ ~Lock
      BY <1>6 DEF Handler, ReadPacket, SendPacket, SetXmacConfig, Lock, Do
    <2>2. ~radio.locked
      BY <2>1, NotLocked
    <2>3. WellFormed(todo')
      <3>1. CASE ReadPacket
        <4>1. fifo \in Frames /\ todo' = ReadOps[fifo]
          BY <3>1 DEF ReadPacket, RadioTypes
        <4> QED
          BY <4>1, ReadOpsWellFormed
      <3>2. CASE SendPacket
        <4>1. WellFormed(<<"set_sending">> \o OffOps)
          BY ShortWellFormed, ConcatWellFormed, Zenon
        <4>2. WellFormed(<<"set_sending">> \o OffOps \o OnOps)
              /\ WellFormed(<<"set_sending">> \o OffOps \o Send)
          BY <4>1, AccessWellFormed, ShortWellFormed, ConcatWellFormed, Zenon
        <4>3. WellFormed(<<"set_sending">> \o OffOps \o OnOps \o Send)
              /\ WellFormed(<<"set_sending">> \o OffOps \o Send \o <<"broadcast">>)
          BY <4>2, AccessWellFormed, ShortWellFormed, ConcatWellFormed, Zenon
        <4>4. WellFormed(<<"set_sending">> \o OffOps \o OnOps \o Send \o <<"strobe">>)
          BY <4>3, ShortWellFormed, ConcatWellFormed, Zenon
        <4> QED
          BY <3>2, <4>3, <4>4, Zenon DEF SendPacket
      <3>3. CASE SetXmacConfig
        BY <3>3, ShortWellFormed, Zenon DEF SetXmacConfig
      <3> QED
        BY <1>6, <3>1, <3>2, <3>3 DEF Handler
    <2> QED
      BY <1>1, <2>1, <2>2, <2>3
  <1>7. CASE Interrupt \/ Arrive \/ UNCHANGED vars
    <2>1. UNCHANGED todo
      BY <1>7 DEF Interrupt, Powercycle, Timeout, GlossyStarts, GlossyEnds, Arrive, vars
    <2>2. CASE ~Lock
      BY <1>0, <2>1, <2>2, RadioKept DEF PlanInv
    <2> QED
      BY <1>4, <2>2
  <1> QED
    BY <1>4, <1>5, <1>6, <1>7 DEF Next

\* Whoever disables one timer enables the other, or is about to.
LEMMA CycleKept ==
  ASSUME CycleGoesOn, PlanInv, [Next]_vars
  PROVE  CycleGoesOn'
  <1>1. CASE SetTimer
    <2>1. CASE Do("disable_TBCCR3")
      <3>1. todo # <<>> /\ todo' = Tail(todo) /\ Head(todo) = "disable_TBCCR3"
        BY <1>1, <2>1 DEF SetTimer, Do, Goes
      <3> QED
        BY <3>1, FirstOperation DEF PlanInv, CycleGoesOn, Do
    <2>2. CASE ~Do("disable_TBCCR3")
      BY <1>1, <2>2 DEF SetTimer, CycleGoesOn
    <2> QED
      BY <2>1, <2>2
  <1>2. CASE Timeout
    BY <1>2 DEF Timeout, Restarted, CycleGoesOn
  <1>3. CASE GlossyStarts
    BY <1>3 DEF GlossyStarts, CycleGoesOn
  <1>4. CASE GlossyEnds
    BY <1>4 DEF GlossyEnds, CycleGoesOn
  <1>5. CASE Powercycle
    BY <1>5 DEF Powercycle, Expires, CycleGoesOn
  <1>6. CASE /\ UNCHANGED <<glossy, armed>>
             /\ Do("enable_TBCCR2") => UNCHANGED todo
    BY <1>6 DEF CycleGoesOn, Do
  <1>7. ASSUME Process, ~SetTimer
        PROVE  UNCHANGED <<glossy, armed>> /\ ~Do("enable_TBCCR2")
    BY <1>7 DEF Process, TestOnOff, SetFlag, Call, CallReturns, SetReceiveOn, StrobeRadio,
                TestTimeout, Lock, Transmit, ReleaseLock,
                Strobe, ReadAck, GiveUp, Goes, Do
  <1>8. ASSUME Handler
        PROVE  UNCHANGED <<glossy, armed>> /\ ~Do("enable_TBCCR2")
    BY <1>8 DEF Handler, ReadPacket, SendPacket, SetXmacConfig, Do
  <1>9. CASE Arrive \/ UNCHANGED vars
    BY <1>6, <1>9 DEF Arrive, vars
  <1> QED
    BY <1>1, <1>2, <1>3, <1>4, <1>5, <1>6, <1>7, <1>8, <1>9 DEF Next, Interrupt

LEMMA InitInv == Init => CycleInv
  <1> SUFFICES ASSUME Init PROVE CycleInv
    OBVIOUS
  <1>1. mac \in MacFlags /\ RadioTypes /\ CycleGoesOn
    BY DEF Init, MacFlags, RadioTypes, RadioFlags, CycleGoesOn
  <1>2. OtherTypes
    <2>1. turns \in 0 .. Turns
      BY TurnsAssumption DEF Init
    <2>2. armed \subseteq Timers /\ hit \subseteq Timers /\ pt \in {"off", "on"}
      BY DEF Init, Timers
    <2>3. glossy \in BOOLEAN /\ adapt \in BOOLEAN /\ settled \in BOOLEAN
      BY DEF Init
    <2> QED
      BY <2>1, <2>2, <2>3 DEF OtherTypes
  <1>3. PlanInv /\ SwitchInv
    BY ShortWellFormed DEF Init, PlanInv, SwitchInv
  <1> QED
    BY <1>1, <1>2, <1>3 DEF CycleInv

LEMMA InvAlways == Spec => []CycleInv
  <1>1. ASSUME CycleInv, [Next]_vars
        PROVE  CycleInv'
    <2>1. /\ mac \in MacFlags /\ RadioTypes /\ OtherTypes
          /\ PlanInv /\ SwitchInv /\ CycleGoesOn
      BY <1>1 DEF CycleInv
    <2>2. mac' \in MacFlags
      BY <1>1, <2>1, MacFlagsKept
    <2>3. RadioTypes'
      BY <1>1, <2>1, RadioKept
    <2>4. OtherTypes'
      BY <1>1, <2>1, OthersKept
    <2>5. PlanInv'
      BY <1>1, <2>1, PlanKept
    <2>7. SwitchInv'
      BY <1>1, <2>1, SwitchingKept
    <2>6. CycleGoesOn'
      BY <1>1, <2>1, CycleKept
    <2> QED
      BY <2>2, <2>3, <2>4, <2>5, <2>6, <2>7 DEF CycleInv
  <1> QED
    BY <1>1, InitInv, PTL DEF Spec

\* Types are kept, and the driver is locked only inside of an access, wherever
\* the interrupts fall.
THEOREM TypeCorrect == Spec => []TypeOK
  <1>1. CycleInv => TypeOK
    <2> SUFFICES ASSUME CycleInv PROVE TypeOK
      OBVIOUS
    <2>1. radio.locked => \E i \in 1 .. Len(todo) : todo[i] = "unlock"
      BY DEF CycleInv, PlanInv, Unlocks
    <2>2. todo \in Seq(Operations)
      BY DEF CycleInv, PlanInv, WellFormed
    <2> QED
      BY <2>1, <2>2, Zenon DEF CycleInv, MacFlags, RadioTypes, RadioFlags, OtherTypes, TypeOK
  <1> QED
    BY <1>1, InvAlways, PTL

\* The duty cycle never stops, wherever the interrupts fall and however many
\* phases of Glossy there are.
THEOREM CycleGoesOnHolds == Spec => []CycleGoesOn
  <1>1. CycleInv => CycleGoesOn
    BY DEF CycleInv
  <1> QED
    BY <1>1, InvAlways, PTL

-----------------------------------------------------------------------------
(***************************************************************************)
(* The radio follows the duty cycle.                                       *)
(***************************************************************************)
\* What the process does unless it is sending; a packet to send has its plan too.
PlanNames == {"strobe", "data", "broadcast", "other", "ack", "config", "toAll", "toOne"}
Plan(f) ==
  IF f = "config" THEN <<"mac_off", "call_off", "mac_on", "enable_TBCCR3">>
  ELSE IF f = "toAll" THEN <<"set_sending">> \o OffOps \o Send \o <<"broadcast">>
  ELSE IF f = "toOne" THEN <<"set_sending">> \o OffOps \o OnOps \o Send \o <<"strobe">>
  ELSE ReadOps[f]

Suffix(q, i) == SubSeq(q, i, Len(q))

LEMMA SuffixStep ==
  ASSUME NEW q \in Seq(Operations), NEW i \in 1 .. Len(q)
  PROVE  /\ Suffix(q, i) # <<>> /\ Head(Suffix(q, i)) = q[i]
         /\ Tail(Suffix(q, i)) = Suffix(q, i + 1)
         /\ i + 3 <= Len(q) + 1 =>
              SubSeq(Suffix(q, i), 4, Len(Suffix(q, i))) = Suffix(q, i + 3)
  <1> DEFINE n == Len(q)
             r == Suffix(q, i)
  <1>1. n \in Nat /\ n \in i .. n
    BY LenProperties
  <1>2. Head(r) = q[i] /\ Tail(r) = Suffix(q, i + 1)
    BY <1>1, HeadTailOfSubSeq DEF Suffix
  <1>3. Len(r) = n - i + 1 /\ r # <<>>
    <2>1. \A k \in i .. n : q[k] \in Operations
      BY ElementOfSeq
    <2>2. Len(r) = n - i + 1
      <3> HIDE DEF n
      <3> QED
        BY <1>1, <2>1, SubSeqProperties DEF Suffix, n
    <2> QED
      BY <1>1, <2>2
  <1>4. ASSUME i + 3 <= n + 1
        PROVE  SubSeq(r, 4, Len(r)) = Suffix(q, i + 3)
    <2>1. CASE i + 3 <= n
      <3>1. 4 \in 1 .. n - i + 1 /\ Len(r) \in 1 .. n - i + 1
        BY <1>1, <1>3, <2>1
      <3>2. SubSeq(SubSeq(q, i, n), 4, Len(r)) = SubSeq(q, i + 4 - 1, i + Len(r) - 1)
        <4> HIDE DEF r
        <4> QED
          BY <1>1, <3>1, SubSeqOfSubSeq
      <3>3. i + 4 - 1 = i + 3 /\ i + Len(r) - 1 = n
        BY <1>1, <1>3
      <3> QED
        BY <3>2, <3>3 DEF Suffix
    <2>2. CASE i + 3 = n + 1
      <3>1. SubSeq(r, 4, Len(r)) = <<>>
        BY <1>1, <1>3, <2>2, SubSeqEmpty
      <3>2. Suffix(q, i + 3) = <<>>
        BY <1>1, <2>2, SubSeqEmpty DEF Suffix
      <3> QED
        BY <3>1, <3>2
    <2> QED
      BY <1>1, <1>4, <2>1, <2>2
  <1> QED
    BY <1>2, <1>3, <1>4

AccessSet == {"lock", "unlock"} \cup Inside
OffSet == {"test_off", "set_off", "call_off"}
Plain == Operations \ {"end_sending"}

\* What the proof needs of the operations q of the plan f: none of them ends the
\* sending, and those of a plan are where the invariant expects them.
Facts(f, q) ==
  /\ q \in Seq(Plain) /\ q \in Seq(Operations)
  /\ f = "strobe" =>
       /\ Len(q) = 16
       /\ \A i \in 1 .. 16 : q[i] \in AccessSet \/ i \in 5 .. 11
       /\ q[5] = "test_timeout" /\ q[6] = "disable_TBCCR3" /\ q[7] = "enable_TBCCR2"
       /\ q[8] = "set_timeout" /\ q[9] = "test_on" /\ q[10] = "set_on" /\ q[11] = "call_on"
  /\ f \in {"data", "broadcast"} =>
       \A i \in 1 .. Len(q) : /\ q[i] \in AccessSet \cup OffSet
                              /\ q[i] = "test_off" => i + 3 <= Len(q) + 1
  /\ f \in {"other", "ack"} => \A i \in 1 .. Len(q) : q[i] \in AccessSet
  /\ f = "config" => /\ Len(q) = 4 /\ q[1] = "mac_off" /\ q[2] = "call_off"
                     /\ q[3] = "mac_on" /\ q[4] = "enable_TBCCR3"
  /\ f \in {"toAll", "toOne"} => Len(q) > 0 /\ q[1] = "set_sending"

\* r is a sequence over S: the m elements of a and then the n elements of b.
Joins(r, S, a, b, m, n) ==
  /\ r \in Seq(S) /\ Len(r) = m + n
  /\ \A i \in 1 .. m : r[i] = a[i]
  /\ \A i \in 1 .. n : r[m + i] = b[i]

LEMMA Joined ==
  ASSUME NEW S, NEW a \in Seq(S), NEW b \in Seq(S),
         NEW m \in Nat, NEW n \in Nat, Len(a) = m, Len(b) = n
  PROVE  Joins(a \o b, S, a, b, m, n)
  <1> DEFINE r == a \o b
  <1>1. /\ r \in Seq(S) /\ Len(r) = m + n
        /\ \A i \in 1 .. m + n : r[i] = IF i <= m THEN a[i] ELSE b[i - m]
    BY ConcatProperties
  <1> HIDE DEF r
  <1>2. \A i \in 1 .. m : r[i] = a[i]
    BY <1>1
  <1>3. ASSUME NEW i \in 1 .. n PROVE r[m + i] = b[i]
    <2>1. m + i \in 1 .. m + n /\ ~(m + i <= m) /\ m + i - m = i
      OBVIOUS
    <2> QED
      BY <1>1, <2>1
  <1> QED
    BY <1>1, <1>2, <1>3 DEF r, Joins

LEMMA PlainParts ==
  /\ Access \in Seq(AccessSet) /\ Len(Access) = 4
  /\ Send \in Seq(AccessSet) /\ Len(Send) = 5
  /\ OffOps \in Seq(OffSet) /\ Len(OffOps) = 3
  /\ OnOps \in Seq(Plain) /\ Len(OnOps) = 3
  /\ AccessSet \subseteq Plain /\ OffSet \subseteq Plain
  /\ \A i \in 1 .. 3 : OffOps[i] = "test_off" => i = 1
  <1>1. Access \in Seq(AccessSet) /\ Len(Access) = 4
    BY DEF Access, AccessSet, Inside
  <1>2. Send \in Seq(AccessSet) /\ Len(Send) = 5
    BY DEF Send, AccessSet, Inside
  <1>3. OffOps \in Seq(OffSet) /\ Len(OffOps) = 3
    BY DEF OffOps, OffSet
  <1>4. OnOps \in Seq(Plain) /\ Len(OnOps) = 3
    BY DEF OnOps, Plain, Operations
  <1>5. AccessSet \subseteq Plain /\ OffSet \subseteq Plain
    BY DEF AccessSet, OffSet, Inside, Plain, Operations
  <1>6. \A i \in 1 .. 3 : OffOps[i] = "test_off" => i = 1
    BY DEF OffOps
  <1> QED
    BY <1>1, <1>2, <1>3, <1>4, <1>5, <1>6

LEMMA MoreSequences ==
  ASSUME NEW S, NEW T, S \subseteq T, NEW q \in Seq(S)
  PROVE  q \in Seq(T)
  OBVIOUS

LEMMA StrobePlan == Facts("strobe", Plan("strobe"))
  <1> DEFINE timer == <<"test_timeout", "disable_TBCCR3", "enable_TBCCR2", "set_timeout">>
             s1 == Access \o timer
             s2 == s1 \o OnOps
             s3 == s2 \o Send
  <1>1. Plan("strobe") = s3
    BY DEF Plan, ReadOps
  <1>2. Access \in Seq(Plain) /\ Send \in Seq(Plain) /\ OnOps \in Seq(Plain)
    BY PlainParts, MoreSequences, Zenon
  <1>3. timer \in Seq(Plain) /\ Len(timer) = 4
    BY DEF Plain, Operations
  <1>4. /\ timer[1] = "test_timeout" /\ timer[2] = "disable_TBCCR3"
        /\ timer[3] = "enable_TBCCR2" /\ timer[4] = "set_timeout"
    OBVIOUS
  <1> HIDE DEF timer
  <1>5. /\ s1 \in Seq(Plain) /\ Len(s1) = 4 + 4
        /\ \A i \in 1 .. 4 : s1[i] = Access[i]
        /\ \A i \in 1 .. 4 : s1[4 + i] = timer[i]
    <2>1. Len(Access) = 4 /\ 4 \in Nat
      BY PlainParts
    <2>2. Joins(s1, Plain, Access, timer, 4, 4)
      BY <1>2, <1>3, <2>1, Joined, Zenon
    <2> QED
      BY <2>2 DEF Joins
  <1> HIDE DEF s1
  <1>6. Len(s1) = 8
    BY <1>5
  <1>7. /\ s2 \in Seq(Plain) /\ Len(s2) = 8 + 3
        /\ \A i \in 1 .. 8 : s2[i] = s1[i]
        /\ \A i \in 1 .. 3 : s2[8 + i] = OnOps[i]
    <2>1. Len(OnOps) = 3 /\ 8 \in Nat /\ 3 \in Nat
      BY PlainParts
    <2>2. Joins(s2, Plain, s1, OnOps, 8, 3)
      BY <1>2, <1>5, <1>6, <2>1, Joined, Zenon
    <2> QED
      BY <2>2 DEF Joins
  <1> HIDE DEF s2
  <1>8. Len(s2) = 11
    BY <1>7
  <1>9. /\ s3 \in Seq(Plain) /\ Len(s3) = 11 + 5
        /\ \A i \in 1 .. 11 : s3[i] = s2[i]
        /\ \A i \in 1 .. 5 : s3[11 + i] = Send[i]
    <2>1. Len(Send) = 5 /\ 11 \in Nat /\ 5 \in Nat
      BY PlainParts
    <2>2. Joins(s3, Plain, s2, Send, 11, 5)
      BY <1>2, <1>7, <1>8, <2>1, Joined, Zenon
    <2> QED
      BY <2>2 DEF Joins
  <1> HIDE DEF s3
  <1>10. /\ s3[5] = "test_timeout" /\ s3[6] = "disable_TBCCR3"
         /\ s3[7] = "enable_TBCCR2" /\ s3[8] = "set_timeout"
    <2>1. s1[5] = timer[1] /\ s1[6] = timer[2] /\ s1[7] = timer[3] /\ s1[8] = timer[4]
      <3>1. s1[4 + 1] = timer[1] /\ s1[4 + 2] = timer[2] /\ s1[4 + 3] = timer[3]
            /\ s1[4 + 4] = timer[4]
        BY <1>5
      <3> QED
        BY <3>1
    <2>2. s3[5] = s1[5] /\ s3[6] = s1[6] /\ s3[7] = s1[7] /\ s3[8] = s1[8]
      BY <1>7, <1>9
    <2> QED
      BY <1>4, <2>1, <2>2
  <1>11. s3[9] = "test_on" /\ s3[10] = "set_on" /\ s3[11] = "call_on"
    <2>1. s2[8 + 1] = OnOps[1] /\ s2[8 + 2] = OnOps[2] /\ s2[8 + 3] = OnOps[3]
      BY <1>7
    <2>2. s3[9] = s2[9] /\ s3[10] = s2[10] /\ s3[11] = s2[11]
      BY <1>9
    <2>3. OnOps[1] = "test_on" /\ OnOps[2] = "set_on" /\ OnOps[3] = "call_on"
      BY DEF OnOps
    <2> QED
      BY <2>1, <2>2, <2>3
  <1>12. ASSUME NEW i \in 1 .. 16, i \notin 5 .. 11
         PROVE  s3[i] \in AccessSet
    <2>1. CASE i \in 1 .. 4
      <3>1. i \in 1 .. 8 /\ i \in 1 .. 11 /\ i \in 1 .. 4
        BY <2>1
      <3>2. s3[i] = Access[i]
        BY <1>5, <1>7, <1>9, <3>1
      <3> QED
        BY <3>1, <3>2, PlainParts, ElementOfSeq
    <2>2. CASE i \notin 1 .. 4
      <3>1. i - 11 \in 1 .. 5 /\ 11 + (i - 11) = i
        BY <1>12, <2>2
      <3>2. s3[11 + (i - 11)] = Send[i - 11]
        BY <1>9, <3>1
      <3>3. s3[i] = Send[i - 11]
        BY <3>1, <3>2
      <3> QED
        BY <3>1, <3>3, PlainParts, ElementOfSeq
    <2> QED
      BY <2>1, <2>2
  <1>13. s3 \in Seq(Operations)
    <2>1. Plain \subseteq Operations
      BY DEF Plain
    <2> QED
      BY <1>9, <2>1, MoreSequences, Zenon
  <1>14. Len(s3) = 16
    BY <1>9
  <1>15. Facts("strobe", s3)
    BY <1>9, <1>10, <1>11, <1>12, <1>13, <1>14 DEF Facts
  <1> QED
    BY <1>1, <1>15

LEMMA DataPlans == Facts("broadcast", Plan("broadcast")) /\ Facts("data", Plan("data"))
  <1> DEFINE S == AccessSet \cup OffSet
             b == Access \o OffOps
             d == b \o Send
  <1>1. Plan("broadcast") = b /\ Plan("data") = d
    BY DEF Plan, ReadOps
  <1>2. /\ Access \in Seq(S) /\ OffOps \in Seq(S) /\ Send \in Seq(S)
        /\ Len(Access) = 4 /\ Len(OffOps) = 3 /\ Len(Send) = 5
        /\ 3 \in Nat /\ 4 \in Nat /\ 5 \in Nat /\ 7 \in Nat
    <2>1. AccessSet \subseteq S /\ OffSet \subseteq S
      OBVIOUS
    <2>2. Access \in Seq(S) /\ OffOps \in Seq(S) /\ Send \in Seq(S)
      BY <2>1, PlainParts, MoreSequences, Zenon
    <2> QED
      BY <2>2, PlainParts
  <1>3. S \subseteq Plain /\ S \subseteq Operations
    BY PlainParts DEF Plain
  <1>4. "test_off" \notin AccessSet
    BY DEF AccessSet, Inside
  <1>5. Joins(b, S, Access, OffOps, 4, 3)
    BY <1>2, Joined, Zenon
  <1>6. Len(b) = 7 /\ b \in Seq(S)
    BY <1>5 DEF Joins
  <1>7. Joins(d, S, b, Send, 7, 5)
    BY <1>2, <1>6, Joined, Zenon
  <1> HIDE DEF S, b, d
  <1>8. Len(d) = 12 /\ d \in Seq(S)
    BY <1>7 DEF Joins
  <1>9. ASSUME NEW i \in 1 .. 7
        PROVE  b[i] = "test_off" => i = 5
    <2>1. CASE i \in 1 .. 4
      <3>1. b[i] = Access[i]
        BY <1>5, <2>1 DEF Joins
      <3> QED
        BY <1>4, <2>1, <3>1, PlainParts, ElementOfSeq
    <2>2. CASE i \notin 1 .. 4
      <3>1. i - 4 \in 1 .. 3 /\ 4 + (i - 4) = i /\ (i - 4 = 1 => i = 5)
        BY <2>2
      <3>2. b[4 + (i - 4)] = OffOps[i - 4]
        BY <1>5, <3>1 DEF Joins
      <3> QED
        BY <3>1, <3>2, PlainParts
    <2> QED
      BY <2>1, <2>2
  <1>10. ASSUME NEW i \in 1 .. 12
         PROVE  d[i] = "test_off" => i = 5
    <2>1. CASE i \in 1 .. 7
      <3>1. d[i] = b[i]
        BY <1>7, <2>1 DEF Joins
      <3> QED
        BY <1>9, <2>1, <3>1
    <2>2. CASE i \notin 1 .. 7
      <3>1. i - 7 \in 1 .. 5 /\ 7 + (i - 7) = i
        BY <2>2
      <3>2. d[7 + (i - 7)] = Send[i - 7]
        BY <1>7, <3>1 DEF Joins
      <3>3. Send[i - 7] \in AccessSet
        BY <3>1, PlainParts, ElementOfSeq
      <3> QED
        BY <1>4, <3>1, <3>2, <3>3
    <2> QED
      BY <2>1, <2>2
  <1>11. Facts("broadcast", b)
    <2>1. \A i \in 1 .. 7 : b[i] \in S
      BY <1>6, ElementOfSeq
    <2>2. b \in Seq(Plain) /\ b \in Seq(Operations)
      BY <1>3, <1>6, MoreSequences, Zenon
    <2> QED
      BY <1>6, <1>9, <2>1, <2>2 DEF Facts, S
  <1>12. Facts("data", d)
    <2>1. \A i \in 1 .. 12 : d[i] \in S
      BY <1>8, ElementOfSeq
    <2>2. d \in Seq(Plain) /\ d \in Seq(Operations)
      BY <1>3, <1>8, MoreSequences, Zenon
    <2> QED
      BY <1>8, <1>10, <2>1, <2>2 DEF Facts, S
  <1> QED
    BY <1>1, <1>11, <1>12

LEMMA SendPlans == Facts("toAll", Plan("toAll")) /\ Facts("toOne", Plan("toOne"))
  <1> DEFINE h == <<"set_sending">>
             a0 == h \o OffOps
             a1 == a0 \o Send
             a2 == a1 \o <<"broadcast">>
             c1 == a0 \o OnOps
             c2 == c1 \o Send
             c3 == c2 \o <<"strobe">>
  <1>1. Plan("toAll") = a2 /\ Plan("toOne") = c3
    BY DEF Plan
  <1>2. /\ OnOps \in Seq(Plain) /\ OffOps \in Seq(Plain) /\ Send \in Seq(Plain)
        /\ Len(OnOps) = 3 /\ Len(OffOps) = 3 /\ Len(Send) = 5
        /\ 1 \in Nat /\ 3 \in Nat /\ 4 \in Nat /\ 5 \in Nat /\ 7 \in Nat /\ 9 \in Nat
        /\ 12 \in Nat
    <2>1. OnOps \in Seq(Plain) /\ OffOps \in Seq(Plain) /\ Send \in Seq(Plain)
      BY PlainParts, MoreSequences, Zenon
    <2> QED
      BY <2>1, PlainParts
  <1>3. h \in Seq(Plain) /\ Len(h) = 1 /\ h[1] = "set_sending"
    BY DEF Plain, Operations
  <1>4. <<"broadcast">> \in Seq(Plain) /\ Len(<<"broadcast">>) = 1
    BY DEF Plain, Operations
  <1>5. <<"strobe">> \in Seq(Plain) /\ Len(<<"strobe">>) = 1
    BY DEF Plain, Operations
  <1> HIDE DEF h
  <1>6. Joins(a0, Plain, h, OffOps, 1, 3)
    BY <1>2, <1>3, Joined, Zenon
  <1>7. a0 \in Seq(Plain) /\ Len(a0) = 4 /\ a0[1] = "set_sending"
    BY <1>3, <1>6 DEF Joins
  <1> HIDE DEF a0
  <1>8. Joins(a1, Plain, a0, Send, 4, 5)
    BY <1>2, <1>7, Joined, Zenon
  <1>9. a1 \in Seq(Plain) /\ Len(a1) = 9 /\ a1[1] = "set_sending"
    BY <1>7, <1>8 DEF Joins
  <1> HIDE DEF a1
  <1>10. Joins(a2, Plain, a1, <<"broadcast">>, 9, 1)
    BY <1>2, <1>4, <1>9, Joined, Zenon
  <1>11. a2 \in Seq(Plain) /\ Len(a2) = 10 /\ a2[1] = "set_sending"
    BY <1>9, <1>10 DEF Joins
  <1>12. Joins(c1, Plain, a0, OnOps, 4, 3)
    BY <1>2, <1>7, Joined, Zenon
  <1>13. c1 \in Seq(Plain) /\ Len(c1) = 7 /\ c1[1] = "set_sending"
    BY <1>7, <1>12 DEF Joins
  <1> HIDE DEF c1
  <1>14. Joins(c2, Plain, c1, Send, 7, 5)
    BY <1>2, <1>13, Joined, Zenon
  <1>15. c2 \in Seq(Plain) /\ Len(c2) = 12 /\ c2[1] = "set_sending"
    BY <1>13, <1>14 DEF Joins
  <1> HIDE DEF c2
  <1>16. Joins(c3, Plain, c2, <<"strobe">>, 12, 1)
    BY <1>2, <1>5, <1>15, Joined, Zenon
  <1>17. c3 \in Seq(Plain) /\ Len(c3) = 13 /\ c3[1] = "set_sending"
    BY <1>15, <1>16 DEF Joins
  <1> HIDE DEF a2, c3
  <1>18. a2 \in Seq(Operations) /\ c3 \in Seq(Operations)
    <2>1. Plain \subseteq Operations
      BY DEF Plain
    <2> QED
      BY <1>11, <1>17, <2>1, MoreSequences, Zenon
  <1>19. Facts("toAll", a2)
    BY <1>11, <1>18 DEF Facts
  <1>20. Facts("toOne", c3)
    BY <1>17, <1>18 DEF Facts
  <1> QED
    BY <1>1, <1>19, <1>20

LEMMA PlanOperations == \A f \in PlanNames : Facts(f, Plan(f))
  <1>1. Facts("config", Plan("config"))
    <2> DEFINE c == <<"mac_off", "call_off", "mac_on", "enable_TBCCR3">>
    <2>1. Plan("config") = c
      BY DEF Plan
    <2>2. c \in Seq(Plain) /\ c \in Seq(Operations)
      BY DEF Plain, Operations
    <2>3. /\ Len(c) = 4 /\ c[1] = "mac_off" /\ c[2] = "call_off" /\ c[3] = "mac_on"
          /\ c[4] = "enable_TBCCR3"
      OBVIOUS
    <2> HIDE DEF c
    <2>4. Facts("config", c)
      BY <2>2, <2>3 DEF Facts
    <2> QED
      BY <2>1, <2>4
  <1>2. Facts("other", Plan("other")) /\ Facts("ack", Plan("ack"))
    <2>1. Plan("other") = Access /\ Plan("ack") = Access
      BY DEF Plan, ReadOps
    <2>2. Access \in Seq(Plain) /\ \A i \in 1 .. Len(Access) : Access[i] \in AccessSet
      <3>1. Access \in Seq(Plain)
        BY PlainParts, MoreSequences, Zenon
      <3> QED
        BY <3>1, PlainParts, ElementOfSeq
    <2>3. Access \in Seq(Operations)
      BY DEF Access, Operations
    <2>4. Facts("other", Access) /\ Facts("ack", Access)
      BY <2>2, <2>3 DEF Facts
    <2> QED
      BY <2>1, <2>4
  <1> QED
    BY <1>1, <1>2, StrobePlan, DataPlans, SendPlans DEF PlanNames

\* Nothing follows the end of sending.
LastOnly(q) == \A i \in 1 .. Len(q) : q[i] = "end_sending" => i = Len(q)

LEMMA LastOnlyRest ==
  ASSUME NEW q \in Seq(Operations), LastOnly(q), NEW m \in Nat \ {0}
  PROVE  LastOnly(SubSeq(q, m, Len(q)))
  <1> DEFINE n == Len(q)
             r == SubSeq(q, m, n)
  <1>1. n \in Nat /\ \A i \in m .. n : q[i] \in Operations
    BY LenProperties, ElementOfSeq
  <1>2. /\ Len(r) = IF m <= n THEN n - m + 1 ELSE 0
        /\ \A i \in 1 .. n - m + 1 : r[i] = q[m + i - 1]
    <2> HIDE DEF n
    <2> QED
      BY <1>1, SubSeqProperties
  <1> HIDE DEF r
  <1>3. ASSUME NEW i \in 1 .. Len(r), r[i] = "end_sending"
        PROVE  i = Len(r)
    <2>1. m <= n /\ i \in 1 .. n - m + 1 /\ m + i - 1 \in 1 .. n
      BY <1>1, <1>2, <1>3
    <2>2. q[m + i - 1] = "end_sending"
      BY <1>2, <1>3, <2>1
    <2>3. m + i - 1 = n
      BY <2>1, <2>2 DEF LastOnly
    <2> QED
      BY <1>1, <1>2, <2>1, <2>3
  <1> QED
    BY <1>3 DEF LastOnly, r

LEMMA LastOnlyAfter ==
  ASSUME NEW p \in Seq(Plain), NEW q \in Seq(Operations), LastOnly(q)
  PROVE  LastOnly(p \o q)
  <1> DEFINE r == p \o q
             m == Len(p)
             n == Len(q)
  <1>1. m \in Nat /\ n \in Nat /\ p \in Seq(Operations)
    <2>1. Plain \subseteq Operations
      BY DEF Plain
    <2> QED
      BY <2>1, LenProperties, MoreSequences
  <1>2. Joins(r, Operations, p, q, m, n)
    <2> HIDE DEF m, n
    <2> QED
      BY <1>1, Joined, Zenon DEF m, n
  <1>3. \A i \in 1 .. m : p[i] # "end_sending"
    <2>1. \A i \in 1 .. m : p[i] \in Plain
      BY ElementOfSeq
    <2> QED
      BY <2>1 DEF Plain
  <1> HIDE DEF r, m
  <1>4. ASSUME NEW i \in 1 .. m + n, r[i] = "end_sending"
        PROVE  i = m + n
    <2>1. i \notin 1 .. m
      BY <1>2, <1>3, <1>4 DEF Joins
    <2>2. i - m \in 1 .. n /\ m + (i - m) = i
      BY <1>1, <2>1
    <2>3. q[i - m] = "end_sending"
      <3>1. r[m + (i - m)] = q[i - m]
        BY <1>2, <2>2 DEF Joins
      <3> QED
        BY <1>4, <2>2, <3>1
    <2>4. i - m = n
      BY <2>2, <2>3 DEF LastOnly
    <2> QED
      BY <1>1, <2>4
  <1> QED
    BY <1>2, <1>4 DEF LastOnly, Joins, r

LEMMA PlanSuffix ==
  ASSUME NEW f \in PlanNames, NEW i \in 1 .. Len(Plan(f)) + 1
  PROVE  /\ LastOnly(Suffix(Plan(f), i))
         /\ i = 1 => Suffix(Plan(f), i) = Plan(f)
         /\ i = Len(Plan(f)) + 1 => Suffix(Plan(f), i) = <<>>
  <1> DEFINE q == Plan(f)
  <1>1. q \in Seq(Plain) /\ q \in Seq(Operations) /\ Len(q) \in Nat
    <2>1. Facts(f, q)
      BY PlanOperations
    <2>2. q \in Seq(Plain) /\ q \in Seq(Operations)
      BY <2>1 DEF Facts
    <2> HIDE DEF q
    <2> QED
      BY <2>2, LenProperties
  <1> HIDE DEF q
  <1>2. LastOnly(q)
    <2>1. \A k \in 1 .. Len(q) : q[k] \in Plain
      BY <1>1, ElementOfSeq
    <2> QED
      BY <2>1 DEF LastOnly, Plain
  <1>3. LastOnly(Suffix(q, i))
    <2>1. i \in Nat \ {0}
      BY <1>1 DEF q
    <2> QED
      BY <1>1, <1>2, <2>1, LastOnlyRest DEF Suffix
  <1>4. Suffix(q, 1) = q
    BY <1>1, SubSeqFull DEF Suffix
  <1>5. Suffix(q, Len(q) + 1) = <<>>
    BY <1>1, SubSeqEmpty DEF Suffix
  <1> QED
    BY <1>3, <1>4, <1>5 DEF q

-----------------------------------------------------------------------------
\* Flags and radio say what the duty cycle says.
Stable ==
  /\ mac.xmac_is_on /\ (mac.radio_is_on <=> radio.receive_on) /\ (radio.receive_on <=> listening)
  /\ armed = {"TBCCR3"} \/ (armed = {"TBCCR2"} /\ mac.was_timeout)
  /\ radio.receive_on <=> ("TBCCR2" \in armed \/ (pt = "on" /\ ~mac.was_timeout))

\* powercycle has come to its off phase while the process was at work.
OffNow ==
  /\ pt = "off" /\ ~mac.radio_is_on /\ ~radio.receive_on /\ ~listening
  /\ armed = {"TBCCR3"} /\ ~mac.was_timeout /\ "TBCCR3" \in hit

\* read_packet is answering a strobe: from the disabling of the one timer to the
\* end of on().
Answering(i) ==
  /\ mac.xmac_is_on
  /\ i = 7 => /\ (mac.radio_is_on <=> radio.receive_on) /\ (radio.receive_on <=> listening)
              /\ armed = {} \/ OffNow
  /\ i > 7 => armed = {"TBCCR2"}
  /\ i \in {8, 9} => (mac.radio_is_on <=> radio.receive_on) /\ (radio.receive_on <=> listening)
  /\ i \in 9 .. 11 => mac.was_timeout
  /\ i \in {10, 11} => ~listening
  /\ i = 10 => ~radio.receive_on
  /\ i = 11 => mac.radio_is_on /\ (radio.receive_on <=> radio.switching = "on")

\* What is true of the state when the process is at position i of its plan f.
At(f, i) ==
  /\ f \in {"data", "broadcast"} => OffNow /\ mac.xmac_is_on
  /\ f = "config" => OffNow /\ (mac.xmac_is_on \/ i \in {2, 3})
  /\ f = "strobe" /\ i \in 7 .. 11 => Answering(i)
  /\ f \notin {"data", "broadcast", "config"} /\ ~(f = "strobe" /\ i \in 7 .. 11) => Stable
  /\ f = "strobe" /\ i = 6 => ~mac.was_timeout

PlanAt(f, i) ==
  /\ todo = Suffix(Plan(f), i)
  /\ f \in {"toAll", "toOne"} => i = 1
  /\ f = "strobe" /\ i \in 8 .. 11 => "TBCCR2" \in hit /\ armed # {"TBCCR3"}
  /\ settled => At(f, i)

Quiet ==
  \/ todo = <<>> /\ (settled => Stable)
  \/ \E f \in PlanNames : \E i \in 1 .. Len(Plan(f)) : PlanAt(f, i)

Following ==
  /\ settled => ~mac.we_are_sending /\ ~radio.lock_on /\ ~radio.lock_off
  /\ mac.we_are_sending => LastOnly(todo)
  /\ ~mac.we_are_sending => Quiet

\* The process comes to position j of its plan f, which may be the end.
LEMMA Progress ==
  ASSUME NEW f \in PlanNames, NEW j \in 1 .. Len(Plan(f)) + 1,
         todo' = Suffix(Plan(f), j),
         f \in {"toAll", "toOne"} => j = 1,
         f = "strobe" /\ j \in 8 .. 11 => "TBCCR2" \in hit' /\ armed' # {"TBCCR3"},
         settled' => At(f, j)'
  PROVE  Quiet'
  <1> DEFINE q == Plan(f)
  <1>1. Facts(f, q) /\ Len(q) \in Nat
    <2>1. Facts(f, q)
      BY PlanOperations
    <2> HIDE DEF q
    <2>2. q \in Seq(Operations)
      BY <2>1 DEF Facts
    <2> QED
      BY <2>1, <2>2, LenProperties
  <1>2. CASE j \in 1 .. Len(q)
    <2>1. PlanAt(f, j)'
      BY DEF PlanAt
    <2> QED
      BY <1>2, <2>1 DEF Quiet
  <1>3. CASE j = Len(q) + 1
    <2>1. todo' = <<>>
      BY <1>3, PlanSuffix
    <2>2. f \notin {"toAll", "toOne"}
      <3> HIDE DEF q
      <3> QED
        BY <1>1, <1>3 DEF Facts
    <2>3. (f = "strobe" => j = 17) /\ (f = "config" => j = 5)
      <3> HIDE DEF q
      <3>1. f = "strobe" => Len(q) = 16
        BY <1>1, Zenon DEF Facts
      <3>2. f = "config" => Len(q) = 4
        BY <1>1, Zenon DEF Facts
      <3>3. 16 + 1 = 17 /\ 4 + 1 = 5
        OBVIOUS
      <3> QED
        BY <1>3, <3>1, <3>2, <3>3, Zenon
    <2>4. ASSUME settled' PROVE Stable'
      <3>1. At(f, j)'
        BY <2>4
      <3>2. CASE f \in {"data", "broadcast", "config"}
        <4>1. (OffNow /\ mac.xmac_is_on)'
          BY <2>3, <3>1, <3>2 DEF At
        <4> QED
          BY <4>1 DEF OffNow, Stable
      <3>3. CASE f \notin {"data", "broadcast", "config"}
        BY <2>3, <3>1, <3>3 DEF At
      <3> QED
        BY <3>2, <3>3
    <2> QED
      BY <2>1, <2>4 DEF Quiet
  <1> QED
    BY <1>1, <1>2, <1>3

\* Which plan the process is at, and where, by its next operation op.
Where(f, i, op) ==
  /\ op \in AccessSet =>
       f \in {"strobe", "data", "broadcast", "other", "ack"} /\ (f = "strobe" => i \notin 5 .. 11)
  /\ op = "test_off" => f \in {"data", "broadcast"} /\ i + 3 <= Len(Plan(f)) + 1
  /\ op = "set_off" => f \in {"data", "broadcast"}
  /\ op = "call_off" => f \in {"data", "broadcast"} \/ (f = "config" /\ i = 2)
  /\ op = "test_timeout" => f = "strobe" /\ i = 5
  /\ op = "disable_TBCCR3" => f = "strobe" /\ i = 6
  /\ op = "enable_TBCCR2" => f = "strobe" /\ i = 7
  /\ op = "set_timeout" => f = "strobe" /\ i = 8
  /\ op = "test_on" => f = "strobe" /\ i = 9
  /\ op = "set_on" => f = "strobe" /\ i = 10
  /\ op = "call_on" => f = "strobe" /\ i = 11
  /\ op = "mac_off" => f = "config" /\ i = 1
  /\ op = "mac_on" => f = "config" /\ i = 3
  /\ op = "enable_TBCCR3" => f = "config" /\ i = 4
  /\ op \notin {"end_sending", "strobe", "broadcast", "await"}

LEMMA Positions ==
  ASSUME NEW f \in PlanNames, NEW i \in 1 .. Len(Plan(f)), f \in {"toAll", "toOne"} => i = 1
  PROVE  Where(f, i, Plan(f)[i])
  <1> DEFINE q == Plan(f)
             n == Len(q)
             op == q[i]
  <1>1. Facts(f, q)
    BY PlanOperations
  <1> HIDE DEF q
  <1>2. i \in 1 .. n /\ n \in Nat
    BY <1>1, LenProperties DEF Facts, q
  <1>3. CASE f = "strobe"
    <2>1. /\ n = 16
          /\ \A k \in 1 .. 16 : q[k] \in AccessSet \/ k \in 5 .. 11
          /\ q[5] = "test_timeout" /\ q[6] = "disable_TBCCR3" /\ q[7] = "enable_TBCCR2"
          /\ q[8] = "set_timeout" /\ q[9] = "test_on" /\ q[10] = "set_on" /\ q[11] = "call_on"
      BY <1>1, <1>3 DEF Facts
    <2>2. ASSUME i \notin 5 .. 11
          PROVE  Where(f, i, op)
      <3>1. op \in AccessSet
        BY <1>2, <2>1, <2>2
      <3> HIDE DEF op
      <3> QED
        BY <1>3, <2>2, <3>1 DEF Where, AccessSet, Inside
    <2>3. ASSUME i \in 5 .. 11
          PROVE  Where(f, i, op)
      <3>1. i \in {5, 6, 7, 8, 9, 10, 11}
        BY <2>3
      <3>2. \/ i = 5 /\ op = "test_timeout"
            \/ i = 6 /\ op = "disable_TBCCR3"
            \/ i = 7 /\ op = "enable_TBCCR2"
            \/ i = 8 /\ op = "set_timeout"
            \/ i = 9 /\ op = "test_on"
            \/ i = 10 /\ op = "set_on"
            \/ i = 11 /\ op = "call_on"
        BY <2>1, <3>1
      <3> HIDE DEF op
      <3> QED
        BY <1>3, <3>2 DEF Where, AccessSet, Inside
    <2> QED
      BY <2>2, <2>3 DEF q
  <1>4. CASE f \in {"data", "broadcast"}
    <2>1. op \in AccessSet \cup OffSet /\ (op = "test_off" => i + 3 <= n + 1)
      BY <1>1, <1>2, <1>4 DEF Facts
    <2> HIDE DEF op
    <2>2. Where(f, i, op)
      BY <1>4, <2>1 DEF Where, AccessSet, OffSet, Inside, q
    <2> QED
      BY <2>2 DEF op, q
  <1>5. CASE f \in {"other", "ack"}
    <2>1. op \in AccessSet
      BY <1>1, <1>2, <1>5 DEF Facts
    <2> HIDE DEF op
    <2>2. Where(f, i, op)
      BY <1>5, <2>1 DEF Where, AccessSet, Inside
    <2> QED
      BY <2>2 DEF op, q
  <1>6. CASE f = "config"
    <2>1. /\ n = 4 /\ q[1] = "mac_off" /\ q[2] = "call_off" /\ q[3] = "mac_on"
          /\ q[4] = "enable_TBCCR3"
      BY <1>1, <1>6 DEF Facts
    <2>2. \/ i = 1 /\ op = "mac_off"
          \/ i = 2 /\ op = "call_off"
          \/ i = 3 /\ op = "mac_on"
          \/ i = 4 /\ op = "enable_TBCCR3"
      BY <1>2, <2>1
    <2> HIDE DEF op
    <2>3. Where(f, i, op)
      BY <1>6, <2>2 DEF Where, AccessSet, Inside
    <2> QED
      BY <2>3 DEF op, q
  <1>7. CASE f \in {"toAll", "toOne"}
    <2>1. op = "set_sending"
      BY <1>1, <1>7 DEF Facts
    <2> HIDE DEF op
    <2>2. Where(f, i, op)
      BY <1>7, <2>1 DEF Where, AccessSet, Inside
    <2> QED
      BY <2>2 DEF op, q
  <1> QED
    BY <1>3, <1>4, <1>5, <1>6, <1>7 DEF PlanNames, q

\* The process is at position i of its plan f.
Here(f, i) ==
  /\ PlanAt(f, i) /\ Where(f, i, Head(todo))
  /\ Tail(todo) = Suffix(Plan(f), i + 1)
  /\ i + 3 <= Len(Plan(f)) + 1 => SubSeq(todo, 4, Len(todo)) = Suffix(Plan(f), i + 3)
  /\ LastOnly(todo) /\ LastOnly(Tail(todo))
  /\ Len(Plan(f)) \in Nat

LEMMA Position ==
  ASSUME Following, ~mac.we_are_sending, todo # <<>>
  PROVE  \E f \in PlanNames : \E i \in 1 .. Len(Plan(f)) : Here(f, i)
  <1>1. PICK f \in PlanNames : \E i \in 1 .. Len(Plan(f)) : PlanAt(f, i)
    BY DEF Following, Quiet
  <1>2. PICK i \in 1 .. Len(Plan(f)) : PlanAt(f, i)
    BY <1>1
  <1>3. Plan(f) \in Seq(Operations)
    <2>1. Facts(f, Plan(f))
      BY PlanOperations
    <2> QED
      BY <2>1 DEF Facts
  <1>4. Len(Plan(f)) \in Nat
    BY <1>3, LenProperties
  <1>5. todo = Suffix(Plan(f), i)
    BY <1>2 DEF PlanAt
  <1>6. /\ Head(todo) = Plan(f)[i] /\ Tail(todo) = Suffix(Plan(f), i + 1)
        /\ i + 3 <= Len(Plan(f)) + 1 => SubSeq(todo, 4, Len(todo)) = Suffix(Plan(f), i + 3)
    BY <1>3, <1>5, SuffixStep
  <1>7. LastOnly(todo) /\ LastOnly(Tail(todo))
    <2>1. i \in 1 .. Len(Plan(f)) + 1 /\ i + 1 \in 1 .. Len(Plan(f)) + 1
      BY <1>4
    <2> QED
      BY <1>5, <1>6, <2>1, PlanSuffix
  <1>8. Where(f, i, Head(todo))
    <2>1. Where(f, i, Plan(f)[i])
      BY <1>2, Positions DEF PlanAt
    <2> QED
      BY <1>6, <2>1
  <1>9. Here(f, i)
    BY <1>2, <1>4, <1>6, <1>7, <1>8 DEF Here
  <1> QED
    BY <1>9

-----------------------------------------------------------------------------
\* The steps of the process.  An access of the driver finds no request left.
LEMMA FollowAccess ==
  ASSUME CycleInv, Following, ~mac.we_are_sending, Lock \/ Transmit \/ ReleaseLock
  PROVE  Following'
  <1>1. todo # <<>> /\ Head(todo) \in AccessSet /\ todo' = Tail(todo)
    BY DEF Lock, Transmit, ReleaseLock, Do, Goes, AccessSet, Inside
  <1>2. PICK f \in PlanNames : \E i \in 1 .. Len(Plan(f)) : Here(f, i)
    BY <1>1, Position
  <1>3. PICK i \in 1 .. Len(Plan(f)) : Here(f, i)
    BY <1>2
  <1>4. f \in {"strobe", "data", "broadcast", "other", "ack"} /\ (f = "strobe" => i \notin 5 .. 11)
    BY <1>1, <1>3 DEF Here, Where
  <1>5. UNCHANGED <<mac, pt, armed, hit>>
    BY DEF Lock, Transmit, ReleaseLock, Goes
  <1>6. ASSUME settled'
        PROVE  /\ settled /\ radio'.receive_on = radio.receive_on
               /\ (radio.receive_on <=> listening) => (radio'.receive_on <=> listening')
               /\ ~radio'.lock_on /\ ~radio'.lock_off
    <2>1. settled /\ radio \in RadioFlags /\ ~radio.lock_on /\ ~radio.lock_off
      <3>1. settled
        BY <1>6 DEF Lock, Transmit, ReleaseLock
      <3> QED
        BY <3>1 DEF CycleInv, RadioTypes, Following
    <2>2. CASE Lock
      BY <2>1, <2>2 DEF Lock, RadioFlags
    <2>3. CASE Transmit
      BY <1>6, <2>1, <2>3 DEF Transmit, RadioFlags
    <2>4. CASE ReleaseLock
      BY <1>6, <2>1, <2>4 DEF ReleaseLock, NoSwitch
    <2> QED
      BY <2>1, <2>2, <2>3, <2>4
  <1>7. ASSUME settled' PROVE At(f, i + 1)'
    <2>1. At(f, i)
      BY <1>3, <1>6, <1>7 DEF Here, PlanAt
    <2>2. CASE f \in {"data", "broadcast"}
      <3>1. OffNow /\ mac.xmac_is_on
        BY <2>1, <2>2 DEF At
      <3>2. (OffNow /\ mac.xmac_is_on)'
        BY <1>5, <1>6, <1>7, <3>1 DEF OffNow
      <3> QED
        BY <2>2, <3>2 DEF At
    <2>3. CASE f \notin {"data", "broadcast"}
      <3>1. ~(f = "strobe" /\ i \in 7 .. 11) /\ ~(f = "strobe" /\ i + 1 \in 6 .. 11)
        BY <1>4
      <3>2. Stable
        BY <1>4, <2>1, <2>3, <3>1 DEF At
      <3>3. Stable'
        BY <1>5, <1>6, <1>7, <3>2 DEF Stable
      <3> QED
        BY <1>4, <2>3, <3>1, <3>3 DEF At
    <2> QED
      BY <2>2, <2>3
  <1>8. Quiet'
    <2>1. i + 1 \in 1 .. Len(Plan(f)) + 1 /\ todo' = Suffix(Plan(f), i + 1)
      BY <1>1, <1>3 DEF Here
    <2>2. f \notin {"toAll", "toOne"} /\ ~(f = "strobe" /\ i + 1 \in 8 .. 11)
      BY <1>4
    <2> QED
      BY <1>7, <2>1, <2>2, Progress
  <1> QED
    BY <1>5, <1>6, <1>8 DEF Following

LEMMA FollowTest ==
  ASSUME CycleInv, Following, ~mac.we_are_sending, TestOnOff \/ TestTimeout
  PROVE  Following'
  <1>1. todo # <<>> /\ Head(todo) \in {"test_on", "test_off", "test_timeout"}
        /\ UNCHANGED <<mac, pt, armed, radio, listening, hit, settled>>
    BY DEF TestOnOff, TestTimeout, Do
  <1>2. PICK f \in PlanNames : \E i \in 1 .. Len(Plan(f)) : Here(f, i)
    BY <1>1, Position
  <1>3. PICK i \in 1 .. Len(Plan(f)) : Here(f, i)
    BY <1>2
  <1>4. ASSUME settled PROVE At(f, i)
    BY <1>3, <1>4 DEF Here, PlanAt
  <1> SUFFICES Quiet'
    BY <1>1 DEF Following
  <1>5. CASE Head(todo) = "test_timeout"
    <2>1. f = "strobe" /\ i = 5
      BY <1>3, <1>5 DEF Here, Where
    <2>2. settled => Stable
      BY <1>4, <2>1 DEF At
    <2>3. todo' = IF mac.was_timeout THEN <<>> ELSE Tail(todo)
      BY <1>5 DEF TestOnOff, TestTimeout, Do
    <2>4. CASE mac.was_timeout
      <3>1. settled' => Stable'
        BY <1>1, <2>2 DEF Stable
      <3> QED
        BY <2>3, <2>4, <3>1 DEF Quiet
    <2>5. CASE ~mac.was_timeout
      <3>1. settled' => At(f, 6)'
        BY <1>1, <2>1, <2>2, <2>5 DEF At, Stable
      <3>2. todo' = Suffix(Plan(f), 6) /\ 6 \in 1 .. Len(Plan(f)) + 1
        BY <1>3, <2>1, <2>3, <2>5 DEF Here
      <3> QED
        BY <2>1, <3>1, <3>2, Progress
    <2> QED
      BY <2>4, <2>5
  <1>6. CASE Head(todo) = "test_off"
    <2>1. f \in {"data", "broadcast"} /\ i + 3 <= Len(Plan(f)) + 1
      BY <1>3, <1>6 DEF Here, Where
    <2>2. settled => OffNow /\ mac.xmac_is_on
      BY <1>4, <2>1 DEF At
    <2>3. \A j : settled' => At(f, j)'
      BY <1>1, <2>1, <2>2 DEF At, OffNow
    <2>4. PICK j \in 1 .. Len(Plan(f)) + 1 : todo' = Suffix(Plan(f), j)
      <3>1. todo' = Tail(todo) \/ todo' = SubSeq(todo, 4, Len(todo))
        BY <1>6 DEF TestOnOff, TestTimeout, Do
      <3>2. i + 1 \in 1 .. Len(Plan(f)) + 1 /\ i + 3 \in 1 .. Len(Plan(f)) + 1
        BY <1>3, <2>1 DEF Here
      <3> QED
        BY <1>3, <2>1, <3>1, <3>2 DEF Here
    <2> QED
      BY <2>1, <2>3, <2>4, Progress
  <1>7. CASE Head(todo) = "test_on"
    <2>1. f = "strobe" /\ i = 9
      BY <1>3, <1>7 DEF Here, Where
    <2>2. settled => Answering(9)
      BY <1>4, <2>1 DEF At
    <2>3. "TBCCR2" \in hit /\ armed # {"TBCCR3"}
      BY <1>3, <2>1 DEF Here, PlanAt
    <2>4. CASE mac.xmac_is_on /\ ~mac.radio_is_on
      <3>1. todo' = Suffix(Plan(f), 10) /\ 10 \in 1 .. Len(Plan(f)) + 1
        BY <1>3, <1>7, <2>1, <2>4 DEF Here, TestOnOff, TestTimeout, Do
      <3>2. settled' => At(f, 10)'
        BY <1>1, <2>1, <2>2, <2>4 DEF At, Answering
      <3> QED
        BY <1>1, <2>1, <2>3, <3>1, <3>2, Progress
    <2>5. CASE ~(mac.xmac_is_on /\ ~mac.radio_is_on)
      <3>1. todo' = Suffix(Plan(f), 12) /\ 12 \in 1 .. Len(Plan(f)) + 1
        <4>1. todo' = SubSeq(todo, 4, Len(todo))
          BY <1>7, <2>5 DEF TestOnOff, TestTimeout, Do
        <4>2. Len(Plan(f)) = 16
          BY <2>1, StrobePlan DEF Facts
        <4>3. i + 3 <= Len(Plan(f)) + 1 /\ i + 3 = 12 /\ 12 \in 1 .. Len(Plan(f)) + 1
          <5>1. i = 9 /\ 9 + 3 = 12 /\ 16 + 1 = 17 /\ 12 <= 17 /\ 12 \in 1 .. 17
            BY <2>1
          <5> QED
            BY <4>2, <5>1, Zenon
        <4>4. SubSeq(todo, 4, Len(todo)) = Suffix(Plan(f), i + 3)
          BY <1>3, <4>3 DEF Here
        <4> QED
          BY <4>1, <4>3, <4>4
      <3>2. settled' => Stable'
        BY <1>1, <2>2, <2>5 DEF Answering, Stable
      <3>3. settled' => At(f, 12)'
        BY <2>1, <3>2 DEF At
      <3> QED
        BY <2>1, <3>1, <3>3, Progress
    <2> QED
      BY <2>4, <2>5
  <1> QED
    BY <1>1, <1>5, <1>6, <1>7

LEMMA FollowFlag ==
  ASSUME CycleInv, Following, ~mac.we_are_sending, SetFlag
  PROVE  Following'
  <1>1. todo # <<>> /\ todo' = Tail(todo) /\ mac \in MacFlags
        /\ UNCHANGED <<pt, radio, listening, armed, hit>>
    BY DEF SetFlag, Do, Goes, NoSwitch, CycleInv
  <1>2. PICK f \in PlanNames : \E i \in 1 .. Len(Plan(f)) : Here(f, i)
    BY <1>1, Position
  <1>3. PICK i \in 1 .. Len(Plan(f)) : Here(f, i)
    BY <1>2
  <1>4. i + 1 \in 1 .. Len(Plan(f)) + 1 /\ todo' = Suffix(Plan(f), i + 1)
    BY <1>1, <1>3 DEF Here
  <1>5. ASSUME settled PROVE At(f, i)
    BY <1>3, <1>5 DEF Here, PlanAt
  <1>6. CASE Head(todo) = "set_sending"
    <2>1. mac'.we_are_sending /\ ~settled'
      BY <1>1, <1>6 DEF SetFlag, Do, MacFlags
    <2>2. LastOnly(todo)'
      BY <1>1, <1>3 DEF Here
    <2> QED
      BY <2>1, <2>2 DEF Following
  <1>7. CASE Head(todo) # "set_sending"
    <2>1. /\ ~mac'.we_are_sending /\ (settled' => settled)
          /\ settled' => ~radio'.lock_on /\ ~radio'.lock_off
      <3>1. ~mac'.we_are_sending /\ settled' = settled
        BY <1>1, <1>7 DEF SetFlag, Do, MacFlags
      <3> QED
        BY <1>1, <3>1 DEF Following
    <2> SUFFICES Quiet'
      BY <2>1 DEF Following
    <2>2. Head(todo) \in {"set_on", "set_off", "set_timeout", "mac_off", "mac_on"}
      <3>1. Head(todo) # "end_sending"
        BY <1>3 DEF Here, Where
      <3> QED
        BY <1>7, <3>1 DEF SetFlag, Do
    <2>3. CASE Head(todo) = "set_on"
      <3>1. f = "strobe" /\ i = 10
        BY <1>3, <2>3 DEF Here, Where
      <3>2. mac' = [mac EXCEPT !.radio_is_on = TRUE]
        BY <2>3 DEF SetFlag, Do
      <3>3. settled' => At(f, 11)'
        <4>1. settled => Answering(10)
          BY <1>5, <3>1 DEF At
        <4>2. radio'.switching # "on"
          BY <1>1, <2>3 DEF CycleInv, SwitchInv, Do
        <4>3. settled' => Answering(11)'
          BY <1>1, <2>1, <3>2, <4>1, <4>2 DEF Answering, MacFlags
        <4> QED
          BY <3>1, <4>3 DEF At
      <3>4. "TBCCR2" \in hit' /\ armed' # {"TBCCR3"}
        BY <1>1, <1>3, <3>1 DEF Here, PlanAt
      <3> QED
        BY <1>4, <3>1, <3>3, <3>4, Progress
    <2>4. CASE Head(todo) = "set_off"
      <3>1. f \in {"data", "broadcast"}
        BY <1>3, <2>4 DEF Here, Where
      <3>2. mac' = [mac EXCEPT !.radio_is_on = FALSE]
        BY <2>4 DEF SetFlag, Do
      <3>3. settled => OffNow /\ mac.xmac_is_on
        BY <1>5, <3>1 DEF At
      <3>4. settled' => (OffNow /\ mac.xmac_is_on)'
        BY <1>1, <2>1, <3>2, <3>3 DEF OffNow, MacFlags
      <3>5. settled' => At(f, i + 1)'
        BY <3>1, <3>4 DEF At
      <3> QED
        BY <1>4, <3>1, <3>5, Progress
    <2>5. CASE Head(todo) = "set_timeout"
      <3>1. f = "strobe" /\ i = 8
        BY <1>3, <2>5 DEF Here, Where
      <3>2. mac' = [mac EXCEPT !.was_timeout = TRUE]
        BY <2>5 DEF SetFlag, Do
      <3>3. settled' => At(f, 9)'
        <4>1. settled => Answering(8)
          BY <1>5, <3>1 DEF At
        <4>2. settled' => Answering(9)'
          BY <1>1, <2>1, <3>2, <4>1 DEF Answering, MacFlags
        <4> QED
          BY <3>1, <4>2 DEF At
      <3>4. "TBCCR2" \in hit' /\ armed' # {"TBCCR3"}
        BY <1>1, <1>3, <3>1 DEF Here, PlanAt
      <3> QED
        BY <1>4, <3>1, <3>3, <3>4, Progress
    <2>6. CASE Head(todo) \in {"mac_off", "mac_on"}
      <3>1. f = "config" /\ i \in {1, 3} /\ (i = 3 => Head(todo) = "mac_on")
        BY <1>3, <2>6 DEF Here, Where
      <3>2. \E b \in BOOLEAN : mac' = [mac EXCEPT !.xmac_is_on = b] /\ (i = 3 => b)
        BY <2>6, <3>1 DEF SetFlag, Do
      <3>3. settled => OffNow
        BY <1>5, <3>1 DEF At
      <3>4. settled' => OffNow'
        BY <1>1, <2>1, <3>2, <3>3 DEF OffNow, MacFlags
      <3>5. i = 3 => mac'.xmac_is_on
        BY <1>1, <3>2 DEF MacFlags
      <3>6. settled' => At(f, i + 1)'
        <4>1. i + 1 \in {2, 3} \/ i = 3
          BY <3>1
        <4> QED
          BY <3>1, <3>4, <3>5, <4>1 DEF At
      <3> QED
        BY <1>4, <3>1, <3>6, Progress
    <2> QED
      BY <2>2, <2>3, <2>4, <2>5, <2>6
  <1> QED
    BY <1>6, <1>7

LEMMA FollowCall ==
  ASSUME CycleInv, Following, ~mac.we_are_sending, Call
  PROVE  Following'
  <1>1. /\ todo # <<>> /\ radio \in RadioFlags
        /\ UNCHANGED <<mac, pt, armed, hit, settled>>
    BY DEF Call, CallReturns, SetReceiveOn, StrobeRadio, Do, Goes, CycleInv, RadioTypes
  <1>2. PICK f \in PlanNames : \E i \in 1 .. Len(Plan(f)) : Here(f, i)
    BY <1>1, Position
  <1>3. PICK i \in 1 .. Len(Plan(f)) : Here(f, i)
    BY <1>2
  <1>4. /\ i \in 1 .. Len(Plan(f)) + 1 /\ i + 1 \in 1 .. Len(Plan(f)) + 1
        /\ todo = Suffix(Plan(f), i) /\ Tail(todo) = Suffix(Plan(f), i + 1)
    BY <1>3 DEF Here, PlanAt
  <1>5. ASSUME settled PROVE At(f, i)
    BY <1>3, <1>5 DEF Here, PlanAt
  <1>6. ASSUME settled
        PROVE  ~radio'.lock_on /\ ~radio'.lock_off
    <2>1. ~radio.lock_on /\ ~radio.lock_off /\ ~radio.locked
      <3>1. Head(todo) \in {"call_on", "call_off"}
        BY DEF Call, CallReturns, SetReceiveOn, StrobeRadio, Do
      <3>2. ~radio.locked
        BY <3>1, NotLocked DEF CycleInv, Inside
      <3> QED
        BY <1>6, <3>2 DEF Following
    <2> QED
      BY <1>1, <2>1 DEF Call, CallReturns, RadioOn, RadioOff, NoSwitch, SetReceiveOn, StrobeRadio,
                        RadioFlags
  <1>7. CASE Head(todo) = "call_on"
    <2>1. f = "strobe" /\ i = 11
      BY <1>3, <1>7 DEF Here, Where
    <2>2. "TBCCR2" \in hit' /\ armed' # {"TBCCR3"}
      BY <1>1, <1>3, <2>1 DEF Here, PlanAt
    <2>3. ASSUME settled PROVE Answering(11)
      BY <1>5, <2>1, <2>3 DEF At
    <2>4. CASE SetReceiveOn
      <3>1. radio' = [radio EXCEPT !.receive_on = TRUE, !.switching = "on"]
            /\ UNCHANGED <<listening, todo>>
        BY <1>7, <2>4 DEF SetReceiveOn, Do
      <3>2. settled' => Answering(11)'
        BY <1>1, <2>3, <3>1 DEF Answering, RadioFlags
      <3>3. settled' => At(f, 11)'
        BY <2>1, <3>2 DEF At
      <3>4. Quiet'
        BY <1>4, <2>1, <2>2, <3>1, <3>3, Progress
      <3> QED
        BY <1>1, <1>6, <3>4 DEF Following
    <2>5. CASE StrobeRadio
      <3>1. radio' = [radio EXCEPT !.switching = "none"] /\ listening' = TRUE
            /\ todo' = Tail(todo) /\ radio.switching = "on"
        BY <1>7, <2>5 DEF StrobeRadio, Do, Goes
      <3>2. settled' => Stable'
        BY <1>1, <2>3, <3>1 DEF Answering, Stable, RadioFlags
      <3>3. settled' => At(f, 12)'
        BY <2>1, <3>2 DEF At
      <3>4. Quiet'
        BY <1>4, <2>1, <3>1, <3>3, Progress
      <3> QED
        BY <1>1, <1>6, <3>4 DEF Following
    <2>6. CASE CallReturns
      <3>1. todo' = Tail(todo) /\ ~settled
        <4>1. radio.receive_on /\ radio.switching = "none"
          <5>1. ~radio.locked
            BY <1>7, NotLocked DEF CycleInv, Inside
          <5> QED
            BY <1>7, <2>6, <5>1 DEF CallReturns, Do
        <4> QED
          BY <2>3, <2>6, <4>1 DEF Answering, CallReturns, Goes
      <3>2. Quiet'
        BY <1>1, <1>4, <2>1, <3>1, Progress
      <3> QED
        BY <1>1, <1>6, <3>2 DEF Following
    <2> QED
      BY <2>4, <2>5, <2>6 DEF Call
  <1>8. CASE Head(todo) = "call_off"
    <2>1. f \in {"data", "broadcast"} \/ (f = "config" /\ i = 2)
      BY <1>3, <1>8 DEF Here, Where
    <2>2. ASSUME settled PROVE OffNow
      BY <1>5, <2>1, <2>2 DEF At
    <2>3. ASSUME settled PROVE OffNow'
      <3>1. ~radio.receive_on /\ ~listening
        BY <2>2, <2>3 DEF OffNow
      <3>2. ~radio'.receive_on /\ ~listening'
        BY <1>1, <1>8, <3>1 DEF Call, CallReturns, SetReceiveOn, StrobeRadio, Do, RadioOff, NoSwitch,
                                RadioFlags
      <3> QED
        BY <1>1, <2>2, <2>3, <3>2 DEF OffNow
    <2>4. settled' => At(f, i)' /\ At(f, i + 1)'
      BY <1>1, <1>5, <2>1, <2>3 DEF At
    <2>5. todo' = todo \/ todo' = Tail(todo)
      BY DEF Call, CallReturns, SetReceiveOn, StrobeRadio, Goes
    <2>6. Quiet'
      <3>1. f \notin {"toAll", "toOne", "strobe"}
        BY <2>1
      <3>2. CASE todo' = todo
        BY <1>4, <2>4, <3>1, <3>2, Progress
      <3>3. CASE todo' = Tail(todo)
        BY <1>4, <2>4, <3>1, <3>3, Progress
      <3> QED
        BY <2>5, <3>2, <3>3
    <2> QED
      BY <1>1, <1>6, <2>6 DEF Following
  <1> QED
    BY <1>7, <1>8 DEF Call, CallReturns, SetReceiveOn, StrobeRadio, Do

LEMMA FollowTimer ==
  ASSUME CycleInv, Following, ~mac.we_are_sending, SetTimer
  PROVE  Following'
  <1>1. /\ todo # <<>> /\ todo' = Tail(todo) /\ armed \subseteq Timers
        /\ UNCHANGED <<mac, pt, radio, listening>> /\ (settled' => settled)
    BY DEF SetTimer, Do, Goes, NoSwitch, CycleInv, OtherTypes
  <1>2. PICK f \in PlanNames : \E i \in 1 .. Len(Plan(f)) : Here(f, i)
    BY <1>1, Position
  <1>3. PICK i \in 1 .. Len(Plan(f)) : Here(f, i)
    BY <1>2
  <1>4. i + 1 \in 1 .. Len(Plan(f)) + 1 /\ todo' = Suffix(Plan(f), i + 1)
    BY <1>1, <1>3 DEF Here
  <1>5. ASSUME settled PROVE At(f, i)
    BY <1>3, <1>5 DEF Here, PlanAt
  <1> SUFFICES Quiet'
    BY <1>1 DEF Following
  <1>6. CASE Head(todo) = "disable_TBCCR3"
    <2>1. f = "strobe" /\ i = 6
      BY <1>3, <1>6 DEF Here, Where
    <2>2. armed' = armed \ {"TBCCR3"}
      BY <1>6 DEF SetTimer, Do
    <2>3. settled => Stable /\ ~mac.was_timeout
      BY <1>5, <2>1 DEF At
    <2>4. settled' => Answering(7)'
      BY <1>1, <2>2, <2>3 DEF Stable, Answering
    <2>5. settled' => At(f, 7)'
      BY <2>1, <2>4 DEF At
    <2> QED
      BY <1>4, <2>1, <2>5, Progress
  <1>7. CASE Head(todo) = "enable_TBCCR2"
    <2>1. f = "strobe" /\ i = 7
      BY <1>3, <1>7 DEF Here, Where
    <2>2. /\ armed' = armed \cup {"TBCCR2"} /\ hit' = hit \cup {"TBCCR2"}
          /\ settled' = (settled /\ armed = {})
      BY <1>7 DEF SetTimer, Do
    <2>3. settled => Answering(7)
      BY <1>5, <2>1 DEF At
    <2>4. settled' => Answering(8)'
      <3>1. settled' => /\ mac.xmac_is_on /\ (mac.radio_is_on <=> radio.receive_on)
                        /\ (radio.receive_on <=> listening)
        BY <1>1, <2>3 DEF Answering
      <3>2. settled' => armed' = {"TBCCR2"}
        BY <2>2
      <3> QED
        BY <1>1, <3>1, <3>2 DEF Answering
    <2>5. settled' => At(f, 8)'
      BY <2>1, <2>4 DEF At
    <2>6. "TBCCR2" \in hit' /\ armed' # {"TBCCR3"}
      BY <2>2
    <2> QED
      BY <1>4, <2>1, <2>5, <2>6, Progress
  <1>8. CASE Head(todo) = "enable_TBCCR3"
    <2>1. f = "config" /\ i = 4
      BY <1>3, <1>8 DEF Here, Where
    <2>2. armed' = armed \cup {"TBCCR3"} /\ hit' = hit \cup {"TBCCR3"}
      BY <1>8 DEF SetTimer, Do
    <2>3. settled => OffNow /\ mac.xmac_is_on
      BY <1>5, <2>1 DEF At
    <2>4. settled' => (OffNow /\ mac.xmac_is_on)'
      BY <1>1, <2>2, <2>3 DEF OffNow
    <2>5. settled' => At(f, 5)'
      BY <2>1, <2>4 DEF At
    <2> QED
      BY <1>4, <2>1, <2>5, Progress
  <1> QED
    BY <1>6, <1>7, <1>8 DEF SetTimer, Do

\* What a sending process puts before or in place of the rest of its operations.
LEMMA SendingParts ==
  /\ Send \in Seq(Plain) /\ Access \in Seq(Plain)
  /\ EndOps \in Seq(Operations) /\ LastOnly(EndOps)
  /\ OnOps \o Send \o <<"await">> \in Seq(Operations) /\ LastOnly(OnOps \o Send \o <<"await">>)
  <1>1. Send \in Seq(Plain) /\ Access \in Seq(Plain) /\ OnOps \in Seq(Plain) /\ OffOps \in Seq(Plain)
    BY PlainParts, MoreSequences, Zenon
  <1>2. <<"await">> \in Seq(Plain)
    BY DEF Plain, Operations
  <1>3. <<"end_sending">> \in Seq(Operations) /\ LastOnly(<<"end_sending">>)
    BY DEF LastOnly, Operations
  <1>4. LastOnly(EndOps)
    BY <1>1, <1>3, LastOnlyAfter, Zenon DEF EndOps
  <1> DEFINE p == OnOps \o Send \o <<"await">>
  <1>5. p \in Seq(Plain)
    <2>1. OnOps \o Send \in Seq(Plain)
      BY <1>1, ConcatProperties, Zenon
    <2> QED
      BY <1>2, <2>1, ConcatProperties, Zenon
  <1> HIDE DEF p
  <1>6. LastOnly(p)
    <2>1. \A i \in 1 .. Len(p) : p[i] \in Plain
      BY <1>5, ElementOfSeq
    <2> QED
      BY <2>1 DEF LastOnly, Plain
  <1>7. EndOps \in Seq(Operations)
    BY ShortWellFormed DEF WellFormed
  <1>8. p \in Seq(Operations)
    <2>1. Plain \subseteq Operations
      BY DEF Plain
    <2> QED
      BY <1>5, <2>1, MoreSequences, Zenon
  <1> QED
    BY <1>1, <1>4, <1>6, <1>7, <1>8 DEF p

LEMMA FollowSending ==
  ASSUME CycleInv, Following, mac.we_are_sending, Process
  PROVE  Following'
  <1>1. todo \in Seq(Operations) /\ LastOnly(todo) /\ ~settled /\ mac \in MacFlags
    BY DEF CycleInv, PlanInv, WellFormed, Following
  <1>2. todo # <<>>
    BY DEF Process, TestOnOff, SetFlag, Call, CallReturns, SetReceiveOn, StrobeRadio,
           SetTimer, TestTimeout, Lock, Transmit, ReleaseLock,
           Strobe, ReadAck, GiveUp, Do
  <1>3. ~settled'
    BY <1>1 DEF Process, TestOnOff, SetFlag, Call, CallReturns, SetReceiveOn, StrobeRadio,
                SetTimer, TestTimeout, Lock, Transmit,
                ReleaseLock, NoSwitch, Strobe, ReadAck, GiveUp
  <1>4. LastOnly(SubSeq(todo, 4, Len(todo))) /\ LastOnly(Tail(todo)) /\ LastOnly(<<>>)
    <2>1. Tail(todo) = SubSeq(todo, 2, Len(todo))
      BY <1>1, <1>2, TailIsSubSeq
    <2>2. 2 \in Nat \ {0} /\ 4 \in Nat \ {0}
      OBVIOUS
    <2>3. LastOnly(SubSeq(todo, 4, Len(todo))) /\ LastOnly(SubSeq(todo, 2, Len(todo)))
      BY <1>1, <2>2, LastOnlyRest, Zenon
    <2>4. LastOnly(<<>>)
      BY DEF LastOnly
    <2> QED
      BY <2>1, <2>3, <2>4
  <1>5. LastOnly(todo')
    <2>1. CASE TestOnOff \/ TestTimeout
      BY <1>4, <2>1 DEF TestOnOff, TestTimeout
    <2>2. CASE SetFlag \/ Call \/ SetTimer \/ Lock \/ Transmit \/ ReleaseLock
      BY <1>1, <1>4, <2>2
         DEF SetFlag, Call, CallReturns, SetReceiveOn, StrobeRadio, SetTimer, Lock, Transmit,
             ReleaseLock, Goes
    <2>3. CASE Strobe
      <3>1. todo' = Send \o todo \/ todo' = EndOps
        BY <2>3 DEF Strobe
      <3>2. LastOnly(Send \o todo)
        BY <1>1, SendingParts, LastOnlyAfter, Zenon
      <3> QED
        BY <3>1, <3>2, SendingParts
    <2>4. CASE ReadAck
      <3>1. PICK q \in {OnOps \o Send \o <<"await">>, EndOps, todo} : todo' = Access \o q
        BY <2>4 DEF ReadAck
      <3>2. q \in Seq(Operations) /\ LastOnly(q)
        BY <1>1, SendingParts, Zenon
      <3>3. LastOnly(Access \o q)
        BY <3>2, SendingParts, LastOnlyAfter, Zenon
      <3> QED
        BY <3>1, <3>3
    <2>5. CASE GiveUp
      BY <2>5, SendingParts DEF GiveUp
    <2> QED
      BY <2>1, <2>2, <2>3, <2>4, <2>5 DEF Process
  <1>6. ASSUME ~mac'.we_are_sending PROVE todo' = <<>>
    <2>1. todo' = Tail(todo) /\ Head(todo) = "end_sending"
      BY <1>1, <1>6 DEF Process, TestOnOff, SetFlag, Call, CallReturns, SetReceiveOn, StrobeRadio,
                SetTimer, TestTimeout, Lock, Transmit,
                        ReleaseLock, Goes, Do, Strobe, ReadAck, GiveUp, MacFlags
    <2>2. Len(todo) \in Nat /\ Len(todo) > 0 /\ Head(todo) = todo[1]
      BY <1>1, <1>2
    <2>3. Len(todo) = 1
      <3>1. 1 \in 1 .. Len(todo) /\ todo[1] = "end_sending"
        BY <2>1, <2>2
      <3> QED
        BY <1>1, <3>1, Zenon DEF LastOnly
    <2> QED
      BY <1>1, <1>2, <2>1, <2>3
  <1> QED
    BY <1>3, <1>5, <1>6 DEF Following, Quiet

\* The process starts with a plan.
LEMMA FollowHandler ==
  ASSUME CycleInv, Following, Handler
  PROVE  Following'
  <1>1. todo = <<>> /\ UNCHANGED <<mac, pt, armed, radio, listening>> /\ (settled' => settled)
    <2>1. settled \in BOOLEAN
      BY DEF CycleInv, OtherTypes
    <2>2. CASE ReadPacket
      BY <2>1, <2>2 DEF ReadPacket
    <2>3. CASE SendPacket
      BY <2>3 DEF SendPacket
    <2>4. CASE SetXmacConfig
      BY <2>4 DEF SetXmacConfig
    <2> QED
      BY <2>2, <2>3, <2>4 DEF Handler
  <1>2. PICK f \in PlanNames : /\ todo' = Plan(f)
                               /\ settled' => settled /\ f \notin {"data", "broadcast", "config"}
    <2>1. CASE ReadPacket
      <3>1. fifo \in {"strobe", "data", "broadcast", "other", "ack"}
        BY <2>1 DEF ReadPacket, CycleInv, RadioTypes, Frames, ReadOps
      <3>2. fifo \in PlanNames /\ Plan(fifo) = ReadOps[fifo] /\ fifo # "config"
        BY <3>1 DEF PlanNames, Plan
      <3>3. todo' = ReadOps[fifo] /\ (settled' => settled /\ fifo \notin {"data", "broadcast"})
        BY <2>1 DEF ReadPacket
      <3> QED
        BY <3>2, <3>3
    <2>2. CASE SendPacket
      <3>1. todo' = Plan("toAll") \/ todo' = Plan("toOne")
        BY <2>2 DEF SendPacket, Plan
      <3>2. settled' = settled
        BY <2>2 DEF SendPacket
      <3> QED
        BY <3>1, <3>2 DEF PlanNames
    <2>3. CASE SetXmacConfig
      <3>1. todo' = Plan("config") /\ ~settled'
        BY <2>3 DEF SetXmacConfig, Plan
      <3> QED
        BY <3>1 DEF PlanNames
    <2> QED
      BY <2>1, <2>2, <2>3 DEF Handler
  <1>3. 1 \in 1 .. Len(Plan(f)) + 1
    <2>1. Plan(f) \in Seq(Operations)
      BY PlanOperations DEF Facts
    <2> QED
      BY <2>1, LenProperties
  <1>4. todo' = Suffix(Plan(f), 1) /\ LastOnly(todo')
    BY <1>2, <1>3, PlanSuffix
  <1>5. ASSUME ~mac.we_are_sending PROVE Quiet'
    <2>1. settled => Stable
      <3>1. CASE \E g \in PlanNames : \E i \in 1 .. Len(Plan(g)) : PlanAt(g, i)
        <4>1. PICK g \in PlanNames : \E i \in 1 .. Len(Plan(g)) : PlanAt(g, i)
          BY <3>1
        <4>2. PICK i \in 1 .. Len(Plan(g)) : PlanAt(g, i)
          BY <4>1
        <4>3. Plan(g) \in Seq(Operations)
          BY PlanOperations DEF Facts
        <4> QED
          BY <1>1, <4>2, <4>3, SuffixStep DEF PlanAt
      <3> QED
        BY <1>5, <3>1 DEF Following, Quiet
    <2>2. settled' => Stable'
      BY <1>1, <2>1 DEF Stable
    <2>3. settled' => At(f, 1)'
      BY <1>2, <2>2 DEF At
    <2> QED
      BY <1>3, <1>4, <2>3, Progress
  <1> QED
    BY <1>1, <1>4, <1>5 DEF Following

-----------------------------------------------------------------------------
\* The interrupts leave the process where it is.
LEMMA Stays ==
  ASSUME Following, ~mac.we_are_sending, todo' = todo,
         todo = <<>> /\ (settled => Stable) => (settled' => Stable'),
         \A f \in PlanNames : \A i \in 1 .. Len(Plan(f)) :
           todo # <<>> /\ PlanAt(f, i) =>
             /\ f = "strobe" /\ i \in 8 .. 11 => "TBCCR2" \in hit' /\ armed' # {"TBCCR3"}
             /\ settled' => At(f, i)'
  PROVE  Quiet'
  <1>1. CASE todo = <<>> /\ (settled => Stable)
    BY <1>1 DEF Quiet
  <1>2. CASE \E f \in PlanNames : \E i \in 1 .. Len(Plan(f)) : PlanAt(f, i)
    <2>1. PICK f \in PlanNames : \E i \in 1 .. Len(Plan(f)) : PlanAt(f, i)
      BY <1>2
    <2>2. PICK i \in 1 .. Len(Plan(f)) : PlanAt(f, i)
      BY <2>1
    <2>3. todo # <<>>
      <3>1. Plan(f) \in Seq(Operations)
        BY PlanOperations DEF Facts
      <3> QED
        BY <2>2, <3>1, SuffixStep DEF PlanAt
    <2>4. PlanAt(f, i)'
      BY <2>2, <2>3 DEF PlanAt
    <2> QED
      BY <2>4 DEF Quiet
  <1> QED
    BY <1>1, <1>2 DEF Following, Quiet

\* The off phase: whatever was before, the flags and the radio agree from now on.
LEMMA FollowOffPhase ==
  ASSUME CycleInv, Following, Expires("TBCCR3"),
         pt = "on" /\ ~mac.was_timeout, OffPhase, armed' = armed, todo' = todo
  PROVE  Following'
  <1>1. mac \in MacFlags /\ radio \in RadioFlags /\ listening \in BOOLEAN
    BY DEF CycleInv, RadioTypes
  <1>2. CASE mac.we_are_sending
    BY <1>2 DEF OffPhase, Following
  <1>3. CASE ~mac.we_are_sending
    <2>1. ~mac'.we_are_sending
      BY <1>1, <1>3 DEF OffPhase, Off, MacFlags
    <2>2. ASSUME settled'
          PROVE  /\ pt' = "off" /\ mac'.xmac_is_on /\ ~mac'.radio_is_on /\ ~mac'.was_timeout
                 /\ ~radio'.receive_on /\ ~radio'.lock_on /\ ~radio'.lock_off /\ ~listening'
                 /\ armed' = {"TBCCR3"}
      <3>1. /\ pt' = "off" /\ Off /\ mac.xmac_is_on /\ armed' = {"TBCCR3"} /\ Free
            /\ (mac.radio_is_on <=> radio.receive_on) /\ (listening => radio.receive_on)
        BY <1>3, <2>2 DEF OffPhase
      <3>2. CASE radio.receive_on
        <4>1. mac' = [mac EXCEPT !.radio_is_on = FALSE] /\ SwitchOff
          BY <3>1, <3>2 DEF Off, RadioOff, Free
        <4> QED
          BY <1>1, <3>1, <4>1 DEF SwitchOff, Free, MacFlags, RadioFlags
      <3>3. CASE ~radio.receive_on
        <4>1. mac' = mac /\ NoSwitch
          BY <3>1, <3>3 DEF Off
        <4> QED
          BY <1>1, <3>1, <3>3, <4>1 DEF NoSwitch, Free
      <3> QED
        BY <3>2, <3>3
    <2>3. settled' => Stable'
      BY <2>2 DEF Stable
    <2>4. ASSUME todo # <<>>
          PROVE  hit' = hit \cup {"TBCCR3"}
      BY <1>3, <2>4 DEF Expires, Short
    <2>5. ASSUME NEW f \in PlanNames, NEW i \in 1 .. Len(Plan(f)), todo # <<>>, PlanAt(f, i)
          PROVE  /\ f = "strobe" /\ i \in 8 .. 11 => "TBCCR2" \in hit' /\ armed' # {"TBCCR3"}
                 /\ settled' => At(f, i)'
      <3>1. f = "strobe" /\ i \in 8 .. 11 => "TBCCR2" \in hit' /\ armed' # {"TBCCR3"}
        BY <2>4, <2>5 DEF PlanAt
      <3>2. ASSUME settled' PROVE At(f, i)'
        <4>1. (OffNow /\ mac.xmac_is_on)'
          BY <2>2, <2>4, <2>5, <3>2 DEF OffNow
        <4>2. Stable' /\ ~mac'.was_timeout /\ armed' = {"TBCCR3"}
          BY <2>2, <2>3, <3>2
        <4>3. f = "strobe" /\ i \in 7 .. 11 => Answering(i)'
          <5>1. f = "strobe" /\ i \in 7 .. 11 => i = 7
            BY <3>1, <4>2
          <5>2. Answering(7)'
            BY <4>1, <4>2 DEF Answering, Stable
          <5> QED
            BY <5>1, <5>2
        <4> QED
          BY <4>1, <4>2, <4>3 DEF At
      <3> QED
        BY <3>1, <3>2
    <2>6. Quiet'
      BY <1>3, <2>3, <2>5, Stays
    <2> QED
      BY <2>1, <2>2, <2>6 DEF Following
  <1> QED
    BY <1>2, <1>3

\* A timer expires that the plan does not have stopped: the duty cycle is stable.
LEMMA StableAt ==
  ASSUME NEW f \in PlanNames, NEW i \in 1 .. Len(Plan(f)), PlanAt(f, i), settled,
         NEW timer \in armed, timer \notin hit, armed \subseteq Timers
  PROVE  /\ Stable /\ f \notin {"data", "broadcast", "config"}
         /\ ~(f = "strobe" /\ i \in 7 .. 11)
         /\ f = "strobe" /\ i = 6 => ~mac.was_timeout
  <1>1. At(f, i) /\ (f = "strobe" /\ i \in 8 .. 11 => "TBCCR2" \in hit /\ armed # {"TBCCR3"})
    BY DEF PlanAt
  <1>2. ~OffNow
    BY DEF OffNow
  <1>3. f \notin {"data", "broadcast", "config"}
    BY <1>1, <1>2 DEF At
  <1>4. ~(f = "strobe" /\ i \in 7 .. 11)
    <2>1. ASSUME f = "strobe", i \in 7 .. 11 PROVE FALSE
      <3>1. Answering(i)
        BY <1>1, <2>1 DEF At
      <3>2. CASE i = 7
        BY <1>2, <3>1, <3>2 DEF Answering
      <3>3. CASE i \in 8 .. 11
        <4>1. armed = {"TBCCR2"} /\ "TBCCR2" \in hit
          BY <1>1, <2>1, <3>1, <3>3 DEF Answering
        <4> QED
          BY <4>1
      <3> QED
        BY <2>1, <3>2, <3>3
    <2> QED
      BY <2>1
  <1> QED
    BY <1>1, <1>3, <1>4 DEF At

\* The on phase and the end of the wait for a packet take it from one stable state
\* to another.
LEMMA FollowSwitch ==
  ASSUME CycleInv, Following, todo' = todo, NEW timer, Expires(timer),
         mac.we_are_sending => mac'.we_are_sending /\ ~settled',
         ~mac.we_are_sending => ~mac'.we_are_sending,
         ~mac.we_are_sending /\ settled' =>
           /\ settled /\ ~radio'.lock_on /\ ~radio'.lock_off
           /\ Stable => Stable' /\ (mac'.was_timeout => mac.was_timeout),
         timer = "TBCCR2" \/ armed' = armed
  PROVE  Following'
  <1>1. CASE mac.we_are_sending
    BY <1>1 DEF Following
  <1>2. CASE ~mac.we_are_sending
    <2>1. timer \in armed /\ armed \subseteq Timers
      BY DEF Expires, CycleInv, OtherTypes
    <2>2. ASSUME NEW f \in PlanNames, NEW i \in 1 .. Len(Plan(f)), todo # <<>>, PlanAt(f, i)
          PROVE  /\ f = "strobe" /\ i \in 8 .. 11 => "TBCCR2" \in hit' /\ armed' # {"TBCCR3"}
                 /\ settled' => At(f, i)'
      <3>1. timer \notin hit /\ hit' = hit \cup {timer}
        BY <1>2, <2>2 DEF Expires, Short
      <3>2. f = "strobe" /\ i \in 8 .. 11 => "TBCCR2" \in hit' /\ armed' # {"TBCCR3"}
        BY <2>2, <3>1 DEF PlanAt
      <3>3. ASSUME settled' PROVE At(f, i)'
        <4>1. settled
          BY <1>2, <3>3
        <4>2. /\ Stable /\ f \notin {"data", "broadcast", "config"}
              /\ ~(f = "strobe" /\ i \in 7 .. 11)
              /\ f = "strobe" /\ i = 6 => ~mac.was_timeout
          BY <2>1, <2>2, <3>1, <4>1, StableAt
        <4>3. Stable' /\ (mac'.was_timeout => mac.was_timeout)
          BY <1>2, <3>3, <4>2
        <4> QED
          BY <4>2, <4>3 DEF At
      <3> QED
        BY <3>2, <3>3
    <2>3. todo = <<>> /\ (settled => Stable) => (settled' => Stable')
      BY <1>2
    <2>4. Quiet'
      BY <1>2, <2>2, <2>3, Stays
    <2> QED
      BY <1>2, <2>4 DEF Following
  <1> QED
    BY <1>1, <1>2

LEMMA FollowInterrupt ==
  ASSUME CycleInv, Following, Interrupt
  PROVE  Following'
  <1>1. /\ mac \in MacFlags /\ radio \in RadioFlags /\ listening \in BOOLEAN
        /\ settled \in BOOLEAN /\ pt \in {"off", "on"} /\ armed \subseteq Timers
    BY DEF CycleInv, RadioTypes, OtherTypes
  <1>2. CASE Powercycle
    <2>1. Expires("TBCCR3") /\ armed' = armed /\ todo' = todo
      BY <1>2 DEF Powercycle
    <2>2. CASE pt = "on" /\ ~mac.was_timeout
      BY <1>2, <2>1, <2>2, FollowOffPhase DEF Powercycle
    <2>3. CASE ~(pt = "on" /\ ~mac.was_timeout)
      <3>1. OnPhase
        BY <1>2, <2>3 DEF Powercycle
      <3>2. mac'.we_are_sending = mac.we_are_sending
        BY <1>1, <3>1 DEF OnPhase, Cleared, On, MacFlags
      <3>3. mac.we_are_sending => ~settled'
        BY <3>1 DEF OnPhase, Following
      <3>4. ASSUME ~mac.we_are_sending, settled'
            PROVE  /\ settled /\ ~radio'.lock_on /\ ~radio'.lock_off
                   /\ Stable => Stable' /\ (mac'.was_timeout => mac.was_timeout)
        <4>1. /\ settled /\ Free /\ pt' = "on" /\ On(Cleared(mac))
          BY <1>1, <3>1, <3>4 DEF OnPhase
        <4>2. ~radio'.lock_on /\ ~radio'.lock_off
          BY <1>1, <4>1 DEF On, RadioOn, SwitchOn, NoSwitch, Free, RadioFlags
        <4>3. ASSUME Stable PROVE Stable' /\ ~mac'.was_timeout
          <5>1. armed = {"TBCCR3"} /\ "TBCCR2" \notin armed
            BY <2>1, <4>3 DEF Stable, Expires
          <5>2. ~radio.receive_on /\ ~mac.radio_is_on /\ ~listening /\ mac.xmac_is_on
            BY <2>3, <4>3, <5>1 DEF Stable
          <5>3. mac' = [Cleared(mac) EXCEPT !.radio_is_on = TRUE] /\ SwitchOn
            BY <1>1, <4>1, <5>2 DEF On, RadioOn, Cleared, Free, MacFlags
          <5> QED
            BY <1>1, <2>1, <4>1, <5>1, <5>2, <5>3 DEF Stable, SwitchOn, Cleared, MacFlags, RadioFlags
        <4> QED
          BY <4>1, <4>2, <4>3
      <3> QED
        BY <2>1, <3>2, <3>3, <3>4, FollowSwitch
    <2> QED
      BY <2>2, <2>3
  <1>3. CASE Timeout
    <2>1. Expires("TBCCR2") /\ armed' = Restarted /\ todo' = todo /\ pt' = pt
      BY <1>3 DEF Timeout
    <2>2. mac'.we_are_sending = mac.we_are_sending /\ mac'.was_timeout = mac.was_timeout
      BY <1>1, <1>3 DEF Timeout, Off, MacFlags
    <2>3. mac.we_are_sending => ~settled'
      BY <1>3 DEF Timeout, Following
    <2>4. ASSUME ~mac.we_are_sending, settled'
          PROVE  /\ settled /\ ~radio'.lock_on /\ ~radio'.lock_off
                 /\ Stable => Stable'
      <3>1. settled /\ Free /\ Off
        BY <1>1, <1>3, <2>4 DEF Timeout
      <3>2. ~radio'.lock_on /\ ~radio'.lock_off
        BY <1>1, <3>1 DEF Off, RadioOff, SwitchOff, NoSwitch, Free, RadioFlags
      <3>3. ASSUME Stable PROVE Stable'
        <4>1. armed = {"TBCCR2"} /\ mac.was_timeout
          BY <2>1, <3>3 DEF Stable, Expires
        <4>2. radio.receive_on /\ mac.radio_is_on /\ mac.xmac_is_on
          BY <3>3, <4>1 DEF Stable
        <4>3. mac' = [mac EXCEPT !.radio_is_on = FALSE] /\ SwitchOff
          BY <3>1, <4>2 DEF Off, RadioOff, Free
        <4>4. armed' = {"TBCCR3"}
          BY <2>1, <4>1 DEF Restarted
        <4> QED
          BY <1>1, <2>1, <4>1, <4>2, <4>3, <4>4 DEF Stable, SwitchOff, MacFlags, RadioFlags
      <3> QED
        BY <3>1, <3>2, <3>3
    <2> QED
      BY <2>1, <2>2, <2>3, <2>4, FollowSwitch
  <1>4. CASE GlossyStarts
    <2>1. todo' = todo /\ hit' = hit /\ armed' = {} /\ ~settled'
          /\ mac'.we_are_sending = mac.we_are_sending
      BY <1>1, <1>4 DEF GlossyStarts, MacFlags
    <2>2. ASSUME ~mac.we_are_sending PROVE Quiet'
      BY <2>1, <2>2, Stays DEF PlanAt
    <2> QED
      BY <2>1, <2>2 DEF Following
  <1>5. CASE GlossyEnds
    <2>1. todo' = todo /\ ~settled' /\ mac'.we_are_sending = mac.we_are_sending
          /\ (mac.we_are_sending \/ todo = <<>>)
      BY <1>1, <1>5 DEF GlossyEnds, Short, MacFlags
    <2> QED
      BY <2>1 DEF Following, Quiet
  <1> QED
    BY <1>2, <1>3, <1>4, <1>5 DEF Interrupt

-----------------------------------------------------------------------------
LEMMA FollowStep == CycleInv /\ Following /\ [Next]_vars => Following'
  <1> SUFFICES ASSUME CycleInv, Following, [Next]_vars PROVE Following'
    OBVIOUS
  <1>1. Following
    OBVIOUS
  <1>2. CASE Process
    <2>1. CASE mac.we_are_sending
      BY <1>1, <1>2, <2>1, FollowSending
    <2>2. CASE ~mac.we_are_sending
      <3>1. ~(Strobe \/ ReadAck \/ GiveUp)
        <4>1. ASSUME todo # <<>>
              PROVE  Head(todo) \notin {"strobe", "broadcast", "await"}
          <5>1. PICK f \in PlanNames : \E i \in 1 .. Len(Plan(f)) : Here(f, i)
            BY <1>1, <2>2, <4>1, Position
          <5> QED
            BY <5>1 DEF Here, Where
        <4> QED
          BY <4>1 DEF Strobe, ReadAck, GiveUp, Do
      <3> QED
        BY <1>1, <1>2, <2>2, <3>1, FollowAccess, FollowTest, FollowFlag, FollowCall, FollowTimer
           DEF Process
    <2> QED
      BY <2>1, <2>2
  <1>3. CASE Handler
    BY <1>1, <1>3, FollowHandler
  <1>4. CASE Interrupt
    BY <1>1, <1>4, FollowInterrupt
  <1>5. CASE Arrive \/ UNCHANGED vars
    <2>1. UNCHANGED <<mac, pt, armed, radio, listening, todo, hit, settled>>
      BY <1>5 DEF Arrive, vars
    <2> QED
      BY <1>1, <2>1 DEF Following, Quiet, PlanAt, At, Answering, OffNow, Stable
  <1> QED
    BY <1>2, <1>3, <1>4, <1>5 DEF Next

\* In the phases and after the strobes the radio is on when the duty cycle says
\* so, wherever the interrupts have fallen since the last agreement.
THEOREM RadioFollowsHolds == Spec => []RadioFollows
  <1>1. Init => Following
    BY DEF Init, Following, Quiet
  <1>2. CycleInv /\ Following => RadioFollows
    <2> SUFFICES ASSUME CycleInv, Following, settled, todo = <<>>
                 PROVE  listening <=> "TBCCR2" \in armed \/ (pt = "on" /\ ~mac.was_timeout)
      BY DEF RadioFollows
    <2>1. Quiet
      BY DEF Following
    <2>2. Stable
      <3>1. ASSUME NEW f \in PlanNames, NEW i \in 1 .. Len(Plan(f)), PlanAt(f, i)
            PROVE  FALSE
        <4>1. Plan(f) \in Seq(Operations)
          BY PlanOperations DEF Facts
        <4> QED
          BY <3>1, <4>1, SuffixStep DEF PlanAt
      <3> QED
        BY <2>1, <3>1 DEF Quiet
    <2> QED
      BY <2>2 DEF Stable
  <1>3. Spec => []Following
    BY <1>1, FollowStep, InvAlways, PTL DEF Spec
  <1> QED
    BY <1>2, <1>3, InvAlways, PTL
=============================================================================
