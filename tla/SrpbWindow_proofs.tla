--------------------------- MODULE SrpbWindow_proofs ---------------------------
(***************************************************************************)
(* Proofs about SrpbWindow: the types, that the averages are fractions,    *)
(* that no packet takes more than half of a window, and that the end of a  *)
(* round of the averages always lies ahead.  The last rests on an          *)
(* inequality: a window w of at least a frame F that is cut in half and    *)
(* grows by F * F / w is still at least a frame.                           *)
(***************************************************************************)
EXTENDS SrpbWindow, TLAPS

\* What the other parts need of the windows: their range, and that max_srpb_bytes_ is
\* one of them unless a preferred flow has lifted it.
InRange ==
  /\ \A k \in Signals : window[k] \in MinWindow[k] .. MaxSrpb
  /\ \/ \A k \in Signals : maxSrpb <= window[k]
     \/ PriorityFlow /\ maxSrpb = MaxSrpb
  /\ maxSrpb = MaxSrpb \/ \E k \in Signals : maxSrpb = window[k]

\* Where FramesFit says so, no window is below a frame, nor is max_srpb_bytes_.
AboveFrame == FramesFit => /\ \A k \in Signals : window[k] >= MaxFrame
                           /\ maxSrpb >= MaxFrame

IInv == TypeOK /\ RatioIsFraction /\ InRange /\ AboveFrame /\ RoundAhead

-----------------------------------------------------------------------------
(* Arithmetic *)

LEMMA Constant ==
  /\ MaxFrame \in Nat /\ MaxFrame >= 1 /\ MaxSrpb \in Nat /\ MaxSrpb >= MaxFrame
  /\ One \in Nat /\ One >= 1 /\ Weight \in Nat /\ Weight <= One
  /\ Additive \in Nat /\ PktCap \in Nat
  /\ \A k \in Signals : MinWindow[k] \in Nat /\ 1 <= MinWindow[k] /\ MinWindow[k] <= MaxSrpb
  BY WindowAssumption

\* The integer division of the code.
LEMMA DivBounds ==
  ASSUME NEW a \in Nat, NEW b \in Nat, b >= 1
  PROVE  /\ a \div b \in Nat
         /\ b * (a \div b) <= a
         /\ a < b * (a \div b) + b
  BY Z3

LEMMA TimesNat == ASSUME NEW x \in Nat, NEW y \in Nat PROVE x * y \in Nat
  OBVIOUS

LEMMA TimesMono ==
  ASSUME NEW c \in Nat, NEW x \in Int, NEW y \in Int, x <= y PROVE c * x <= c * y
<1>1. PICK d \in Nat : y = x + d
  <2>1. y - x \in Nat /\ y = x + (y - x)
    OBVIOUS
  <2> QED
    BY <2>1
<1>2. c * d \in Nat /\ c * x \in Int
  BY TimesNat
<1>3. c * (x + d) = c * x + c * d
  OBVIOUS
<1> QED
  BY <1>1, <1>2, <1>3

\* A factor of a strict inequality is dropped.
LEMMA TimesCancel ==
  ASSUME NEW c \in Nat, NEW x \in Int, NEW y \in Int, c * x < c * y PROVE x < y
<1> SUFFICES ASSUME y <= x PROVE FALSE
  OBVIOUS
<1>1. c * y <= c * x
  BY TimesMono
<1>2. c * x \in Int /\ c * y \in Int
  OBVIOUS
<1> QED
  BY <1>1, <1>2

\* A quotient is bounded by what its divisor's multiple bounds.
LEMMA DivAtMost ==
  ASSUME NEW a \in Nat, NEW b \in Nat, b >= 1, NEW c \in Nat, a <= b * c
  PROVE  a \div b <= c
<1> DEFINE q == a \div b
<1>1. q \in Nat /\ b * q <= a
  BY DivBounds
<1>2. b * q < b * (c + 1)
  <2>1. b * (c + 1) = b * c + b /\ b * c \in Nat /\ b * q \in Nat
    BY <1>1, TimesNat
  <2> QED
    BY <1>1, <2>1
<1>3. q < c + 1
  BY <1>1, <1>2, TimesCancel
<1> QED
  BY <1>1, <1>3

\* A window of at least a frame, cut to half and grown by F * F / w, is still at
\* least a frame: (w - F) * (w - F - 1) is not negative for whole w and F.
LEMMA CutAndGrown ==
  ASSUME NEW F \in Nat, F >= 1, NEW w \in Nat, w >= F, NEW i \in Nat,
         F * F < (i + 1) * w
  PROVE  w + 2 * i >= 2 * F
<1> SUFFICES ASSUME w + 2 * i < 2 * F PROVE FALSE
  OBVIOUS
<1>1. PICK d \in Nat : w = F + d
  <2>1. w - F \in Nat /\ w = F + (w - F)
    OBVIOUS
  <2> QED
    BY <2>1
<1>2. 2 * (i + 1) <= F - d + 1
  BY <1>1
<1>3. w * (2 * (i + 1)) <= w * (F - d + 1)
  BY <1>2, TimesMono
<1>4. w * (F - d + 1) = F * F + F - d * d + d
  <2>1. (F + d) * (F - d + 1) = F * F + F - d * d + d
    BY Z3
  <2> QED
    BY <1>1, <2>1
<1>5. d * d >= d
  <2>1. CASE d = 0
    BY <2>1
  <2>2. CASE d >= 1
    <3>1. d * 1 <= d * d
      BY <2>2, TimesMono
    <3> QED
      BY <3>1
  <2> QED
    BY <2>1, <2>2
<1>6. F * F >= F
  <2>1. F * 1 <= F * F
    BY TimesMono
  <2> QED
    BY <2>1
<1>7. w * (2 * (i + 1)) = 2 * ((i + 1) * w)
  BY Z3
<1>8. F * F \in Nat /\ d * d \in Nat /\ (i + 1) * w \in Nat
  BY TimesNat
<1> QED
  <2> DEFINE P == (i + 1) * w
             D == d * d
             S == F * F
  <2>1. /\ P \in Nat /\ D \in Nat /\ S \in Nat
        /\ 2 * P <= S + F - D + d /\ D >= d /\ S >= F /\ S < P
    BY <1>3, <1>4, <1>5, <1>6, <1>7, <1>8
  <2> HIDE DEF P, D, S
  <2> QED
    BY <1>1, <2>1

\* What rounding down leaves of a window that is cut by at most a half: with r at
\* most One, (2 * One * g - w * r) / (2 * One) is at least g - w / 2, less a fraction.
LEMMA CutLeaves ==
  ASSUME NEW w \in Nat, NEW g \in Nat, NEW r \in Nat, w <= g, r <= One
  PROVE  LET X == 2 * One * g - w * r IN
         /\ X \div (2 * One) \in Nat
         /\ 2 * g - w <= 2 * (X \div (2 * One)) + 1
<1> DEFINE X == 2 * One * g - w * r
<1> DEFINE q == X \div (2 * One)
<1>0. One \in Nat /\ One >= 1
  BY Constant
<1>1. w * r <= w * One /\ w * r \in Nat /\ w * One \in Nat
  BY <1>0, TimesMono, TimesNat
<1>2. One * w <= One * g /\ One * w \in Nat /\ One * g \in Nat
  BY <1>0, TimesMono, TimesNat
<1>3. w * One = One * w /\ 2 * One * g = 2 * (One * g)
  BY <1>0, Z3
<1>4. X \in Nat /\ 2 * (One * g) - One * w <= X
  BY <1>1, <1>2, <1>3
<1>5. q \in Nat /\ X < (2 * One) * q + 2 * One
  <2>1. 2 * One \in Nat /\ 2 * One >= 1
    BY <1>0
  <2> HIDE DEF X
  <2> QED
    BY <2>1, <1>4, DivBounds
<1>6. (2 * One) * q + 2 * One = One * (2 * q + 2)
  BY <1>0, <1>5, Z3
<1>7. 2 * (One * g) - One * w = One * (2 * g - w)
  BY <1>0, Z3
<1>8. One * (2 * g - w) < One * (2 * q + 2)
  <2>1. One * (2 * g - w) \in Int /\ One * (2 * q + 2) \in Int
    BY <1>0, <1>5
  <2> HIDE DEF X, q
  <2> QED
    BY <2>1, <1>4, <1>5, <1>6, <1>7
<1>9. 2 * g - w < 2 * q + 2
  <2> HIDE DEF q
  <2> QED
    BY <1>0, <1>5, <1>8, TimesCancel
<1> QED
  BY <1>5, <1>9

\* The average of a fraction and a fraction is one.
LEMMA AveragedIsFraction ==
  ASSUME NEW r \in Nat, r <= One, NEW n \in Nat, n >= 1, NEW m \in Nat, m <= n
  PROVE  Averaged(r, m, n) \in Nat /\ Averaged(r, m, n) <= One
<1>0. /\ One \in Nat /\ One >= 1 /\ Weight \in Nat /\ Weight <= One
      /\ One - Weight \in Nat
  BY Constant
<1> DEFINE V == One - Weight
           A == V * r * n
           B == Weight * One * m
<1>1. V * r <= V * One /\ V * r \in Nat /\ V * One \in Nat
  BY <1>0, TimesMono, TimesNat
<1>2. A <= V * One * n /\ A \in Nat /\ V * One * n \in Nat
  <2>1. n * (V * r) <= n * (V * One)
    BY <1>1, TimesMono
  <2>2. A = n * (V * r) /\ V * One * n = n * (V * One)
    BY <1>0, Z3
  <2>3. n * (V * r) \in Nat /\ n * (V * One) \in Nat
    BY <1>1, TimesNat
  <2> QED
    BY <2>1, <2>2, <2>3
<1>3. B <= Weight * One * n /\ B \in Nat /\ Weight * One * n \in Nat
  <2>1. Weight * One \in Nat
    BY <1>0, TimesNat
  <2> QED
    BY <2>1, TimesMono, TimesNat
<1>4. V * One * n + Weight * One * n = (One * n) * One
  BY <1>0, Z3
<1>5. One * n \in Nat /\ One * n >= 1
  <2>1. One * n >= One * 1 /\ One * n \in Nat
    BY <1>0, TimesMono, TimesNat
  <2> QED
    BY <1>0, <2>1
<1>6. A + B \in Nat /\ A + B <= (One * n) * One
  <2> HIDE DEF A, B, V
  <2> QED
    BY <1>2, <1>3, <1>4
<1> HIDE DEF A, B
<1>7. (A + B) \div (One * n) \in Nat /\ (A + B) \div (One * n) <= One
  BY <1>0, <1>5, <1>6, DivBounds, DivAtMost
<1> QED
  BY <1>7 DEF Averaged, A, B

-----------------------------------------------------------------------------
(* The operators of the specification *)

LEMMA CountType ==
  ASSUME NEW n \in Nat PROVE Count(n) \in 0 .. PktCap /\ Count(n) <= n
  BY Constant DEF Count, Smaller

LEMMA IncreaseType == ASSUME TypeOK PROVE Increase \in Nat
<1>1. MaxFrame * MaxFrame \in Nat /\ maxSrpb \in Nat /\ maxSrpb >= 1 /\ Additive \in Nat
  BY Constant, TimesNat DEF TypeOK
<1>2. (MaxFrame * MaxFrame) \div maxSrpb \in Nat
  BY <1>1, DivBounds
<1> QED
  BY <1>1, <1>2, TimesNat DEF Increase

\* The count of a round is at least 1 when it ends, as it counts this packet.
LEMMA RatioNowType ==
  ASSUME TypeOK, RatioIsFraction, NEW k \in Signals, NEW marks
  PROVE  /\ RatioNow(k, marks) \in Nat /\ RatioNow(k, marks) <= One
         /\ MarkedNow(k, marks) \in 0 .. PktCap
         /\ MarkedNow(k, marks) <= Count(sinceRatio + 1)
<1>1. /\ sinceRatio \in 0 .. PktCap /\ marked[k] \in 0 .. PktCap /\ marked[k] <= sinceRatio
      /\ ratio[k] \in Nat /\ ratio[k] <= One
  BY DEF TypeOK, RatioIsFraction
<1>2. PktCap \in Nat /\ PktCap >= 1
  <2>1. (3 * MaxSrpb) \div (2 * MaxFrame) \in Nat
    <3>1. 3 * MaxSrpb \in Nat /\ 2 * MaxFrame \in Nat /\ 2 * MaxFrame >= 1
      BY Constant
    <3> QED
      BY <3>1, DivBounds
  <2> QED
    BY <2>1, WindowAssumption
<1>3. Count(sinceRatio + 1) \in Nat /\ Count(sinceRatio + 1) >= 1
  BY <1>1, <1>2 DEF Count, Smaller
<1>4. MarkedNow(k, marks) \in 0 .. PktCap /\ MarkedNow(k, marks) <= Count(sinceRatio + 1)
  BY <1>1, <1>2 DEF MarkedNow, Count, Smaller
<1>5. MarkedNow(k, marks) \in Nat
  BY <1>4, <1>2
<1>6. /\ Averaged(ratio[k], MarkedNow(k, marks), Count(sinceRatio + 1)) \in Nat
      /\ Averaged(ratio[k], MarkedNow(k, marks), Count(sinceRatio + 1)) <= One
  BY <1>1, <1>3, <1>4, <1>5, AveragedIsFraction
<1> QED
  BY <1>1, <1>4, <1>6 DEF RatioNow

\* Every packet increases every window: the flag a marked packet sets is read by
\* the packet itself (r2p2-cc-hybrid.cc:1316-1329).
LEMMA AlwaysAi ==
  ASSUME NEW marks \in SUBSET Signals, NEW prio, ReceivePacket(marks, prio),
         NEW k \in Signals
  PROVE  ShouldAi(k, marks)
  BY DEF ReceivePacket, ShouldAi

\* What the new value of a window is worth: it is in its range, at least the old
\* one if it is not cut, at least half of the old one and the increase if it is.
LEMMA WindowStep ==
  ASSUME TypeOK, RatioIsFraction, InRange, NEW marks \in SUBSET Signals, NEW prio,
         ReceivePacket(marks, prio), NEW k \in Signals
  PROVE  /\ window'[k] \in Nat /\ window'[k] \in MinWindow[k] .. MaxSrpb
         /\ ~Cuts(k, marks) => window'[k] >= window[k]
         /\ \A b \in Nat : b <= MaxSrpb /\ 2 * b <= window[k] + 2 * Increase => window'[k] >= b
<1> DEFINE w == window[k]
           g == w + Increase
           r == RatioNow(k, marks)
           X == 2 * One * g - w * r
           q == X \div (2 * One)
<1>1. w \in Nat /\ MinWindow[k] <= w /\ w <= MaxSrpb
  BY Constant DEF TypeOK, InRange
<1>2. Increase \in Nat
  BY IncreaseType
<1>3. r \in Nat /\ r <= One
  BY RatioNowType
<1>4. g \in Nat /\ w <= g
  BY <1>1, <1>2
<1>5. q \in Nat /\ 2 * g - w <= 2 * q + 1
  BY <1>1, <1>3, <1>4, CutLeaves
<1>6. window'[k] = Clamped(k, IF Cuts(k, marks) THEN q ELSE g)
  BY AlwaysAi DEF ReceivePacket, WindowAfter
<1> HIDE DEF q, r, X
<1>7. /\ window'[k] \in Nat /\ window'[k] \in MinWindow[k] .. MaxSrpb
      /\ ~Cuts(k, marks) => window'[k] >= w
  BY <1>1, <1>4, <1>5, <1>6, Constant DEF Clamped, Smaller, Larger
<1>8. ASSUME NEW b \in Nat, b <= MaxSrpb, 2 * b <= w + 2 * Increase
      PROVE  window'[k] >= b
  <2>1. g >= b
    BY <1>1, <1>2, <1>8
  <2>2. q >= b
    BY <1>1, <1>2, <1>5, <1>8
  <2> QED
    BY <2>1, <2>2, <1>4, <1>5, <1>6, <1>8, Constant DEF Clamped, Smaller, Larger
<1> QED
  BY <1>7, <1>8

\* The smaller window counts (std::min at r2p2-cc-hybrid.cc:1247).
LEMMA TighterType ==
  ASSUME \A k \in Signals : window'[k] \in Nat
  PROVE  /\ \E k \in Signals : Tighter = window'[k]
         /\ \A k \in Signals : Tighter <= window'[k]
  BY DEF Tighter, Smaller, Signals

-----------------------------------------------------------------------------
(* The inductive invariant *)

LEMMA AtCutType ==
  ASSUME NEW m \in Nat, m <= MaxSrpb
  PROVE  /\ (3 * m) \div (2 * MaxFrame) \in 0 .. PktCap
         /\ m \div MaxFrame \in 0 .. PktCap
         /\ m >= MaxFrame => m \div MaxFrame >= 1
<1>0. /\ MaxFrame \in Nat /\ MaxFrame >= 1 /\ MaxSrpb \in Nat /\ PktCap \in Nat
      /\ 2 * MaxFrame \in Nat /\ 2 * MaxFrame >= 1 /\ 3 * m \in Nat /\ 3 * MaxSrpb \in Nat
  BY Constant
<1> DEFINE c == (3 * MaxSrpb) \div (2 * MaxFrame)
           a == (3 * m) \div (2 * MaxFrame)
           b == m \div MaxFrame
<1>1. /\ c \in Nat /\ a \in Nat /\ b \in Nat /\ c < PktCap
      /\ (2 * MaxFrame) * a <= 3 * m /\ MaxFrame * b <= m /\ m < MaxFrame * b + MaxFrame
      /\ 3 * MaxSrpb < (2 * MaxFrame) * c + 2 * MaxFrame
  BY <1>0, DivBounds, WindowAssumption
<1> HIDE DEF a, b, c
<1>2. (2 * MaxFrame) * c + 2 * MaxFrame = (2 * MaxFrame) * (c + 1)
  BY <1>0, <1>1
<1>3. a < c + 1
  <2>1. (2 * MaxFrame) * a < (2 * MaxFrame) * (c + 1)
    <3>1. (2 * MaxFrame) * a \in Nat /\ (2 * MaxFrame) * c \in Nat
      BY <1>0, <1>1, TimesNat
    <3>2. 3 * m <= 3 * MaxSrpb
      BY <1>0
    <3> QED
      BY <1>0, <1>1, <1>2, <3>1, <3>2
  <2> QED
    BY <1>0, <1>1, <2>1, TimesCancel
<1>4. b < c + 1
  <2>1. (2 * MaxFrame) * b = 2 * (MaxFrame * b) /\ MaxFrame * b \in Nat
    BY <1>0, <1>1, TimesNat
  <2>2. (2 * MaxFrame) * b < (2 * MaxFrame) * (c + 1)
    <3>1. (2 * MaxFrame) * c \in Nat
      BY <1>0, <1>1, TimesNat
    <3>2. 2 * (MaxFrame * b) <= 3 * MaxSrpb
      BY <1>0, <1>1, <2>1
    <3> QED
      BY <1>0, <1>1, <1>2, <2>1, <3>1, <3>2
  <2> QED
    BY <1>0, <1>1, <2>2, TimesCancel
<1>5. m >= MaxFrame => b >= 1
  <2> SUFFICES ASSUME m >= MaxFrame, b = 0 PROVE FALSE
    BY <1>1
  <2>1. MaxFrame * b = 0
    BY <1>0
  <2> QED
    BY <1>0, <1>1, <2>1
<1> QED
  BY <1>0, <1>1, <1>3, <1>4, <1>5 DEF a, b, c

LEMMA InitIInv == Init => IInv
<1> SUFFICES ASSUME Init PROVE IInv
  OBVIOUS
<1>1. TypeOK
  <2>1. PktCap >= 1 /\ MaxSrpb \div MaxFrame \in 0 .. PktCap /\ PktCap \in Nat
    <3>1. MaxSrpb \div MaxFrame \in 0 .. PktCap /\ MaxSrpb \div MaxFrame >= 1
      BY Constant, AtCutType
    <3> QED
      BY <3>1, Constant
  <2> QED
    BY <2>1, Constant DEF Init, TypeOK
<1>2. RatioIsFraction /\ InRange /\ AboveFrame /\ RoundAhead
  BY Constant, WindowAssumption DEF Init, RatioIsFraction, InRange, AboveFrame, RoundAhead
<1> QED
  BY <1>1, <1>2 DEF IInv

\* A packet keeps max_srpb_bytes_ and the two windows in step.
LEMMA RangeStep ==
  ASSUME IInv, NEW marks \in SUBSET Markable, NEW prio \in BOOLEAN, ReceivePacket(marks, prio)
  PROVE  InRange' /\ maxSrpb' \in 1 .. MaxSrpb
<1>1. \A k \in Signals : window'[k] \in Nat /\ window'[k] \in MinWindow[k] .. MaxSrpb
  BY WindowStep, WindowAssumption DEF IInv
<1>2. /\ \E k \in Signals : Tighter = window'[k]
      /\ \A k \in Signals : Tighter <= window'[k]
  BY <1>1, TighterType
<1>3. \A k \in Signals : window'[k] \in Nat /\ 1 <= window'[k] /\ window'[k] <= MaxSrpb
  BY <1>1, Constant
<1>4. maxSrpb' = IF PriorityFlow /\ prio THEN MaxSrpb ELSE Tighter
  BY DEF ReceivePacket
<1>5. MaxSrpb \in Nat /\ 1 <= MaxSrpb
  BY Constant
<1>6. CASE PriorityFlow /\ prio
  BY <1>1, <1>4, <1>5, <1>6 DEF InRange
<1>7. CASE ~(PriorityFlow /\ prio)
  <2>1. maxSrpb' = Tighter
    BY <1>4, <1>7
  <2>2. maxSrpb' \in 1 .. MaxSrpb
    BY <2>1, <1>2, <1>3, <1>5
  <2> QED
    BY <2>1, <2>2, <1>1, <1>2 DEF InRange
<1> QED
  BY <1>6, <1>7

\* No packet takes a window below a frame.
LEMMA FrameStep ==
  ASSUME IInv, NEW marks \in SUBSET Markable, NEW prio \in BOOLEAN, ReceivePacket(marks, prio)
  PROVE  AboveFrame'
<1> SUFFICES ASSUME FramesFit
             PROVE  (\A k \in Signals : window'[k] >= MaxFrame) /\ maxSrpb' >= MaxFrame
  BY DEF AboveFrame, FramesFit
<1>1. ASSUME NEW k \in Signals PROVE window'[k] >= MaxFrame
  <2>0. window'[k] \in Nat /\ window'[k] >= MinWindow[k] /\ MinWindow[k] \in Nat
    <3>1. window'[k] \in Nat /\ window'[k] \in MinWindow[k] .. MaxSrpb
      BY WindowStep, WindowAssumption DEF IInv
    <3>2. MinWindow[k] \in Nat /\ MaxSrpb \in Nat
      BY Constant
    <3> QED
      BY <3>1, <3>2
  <2>1. CASE MinWindow[k] >= MaxFrame
    BY <2>0, <2>1, Constant
  <2>2. CASE Additive >= 1 /\ ~PriorityFlow
    <3> DEFINE i == (MaxFrame * MaxFrame) \div maxSrpb
    <3>1. /\ maxSrpb \in Nat /\ maxSrpb >= 1 /\ window[k] \in Nat /\ window[k] >= MaxFrame
          /\ maxSrpb <= window[k]
      BY <2>2 DEF IInv, TypeOK, AboveFrame, InRange
    <3>2. MaxFrame \in Nat /\ MaxFrame >= 1 /\ MaxFrame * MaxFrame \in Nat /\ Additive \in Nat
      BY Constant, TimesNat
    <3>3. i \in Nat /\ MaxFrame * MaxFrame < maxSrpb * i + maxSrpb
      BY <3>1, <3>2, DivBounds
    <3>4. Increase \in Nat /\ i <= Increase
      <4>1. Increase = i * Additive
        BY <3>2, <3>3 DEF Increase
      <4>2. i * 1 <= i * Additive /\ i * Additive \in Nat
        BY <2>2, <3>2, <3>3, TimesMono, TimesNat
      <4> HIDE DEF i
      <4> QED
        BY <3>3, <4>1, <4>2
    <3> HIDE DEF i
    <3>5. maxSrpb * i + maxSrpb = (i + 1) * maxSrpb
      BY <3>1, <3>3
    <3>6. (i + 1) * maxSrpb <= (i + 1) * window[k]
      BY <3>1, <3>3, TimesMono
    <3>7. MaxFrame * MaxFrame < (i + 1) * window[k]
      <4>1. (i + 1) * maxSrpb \in Nat /\ (i + 1) * window[k] \in Nat
        BY <3>1, <3>3, TimesNat
      <4> QED
        BY <3>2, <3>3, <3>5, <3>6, <4>1
    <3>8. window[k] + 2 * i >= 2 * MaxFrame
      BY <3>1, <3>2, <3>3, <3>7, CutAndGrown
    <3>9. 2 * MaxFrame <= window[k] + 2 * Increase
      BY <3>1, <3>2, <3>3, <3>4, <3>8
    <3> QED
      BY <3>2, <3>9, WindowStep, WindowAssumption, Constant DEF IInv
  <2> QED
    BY <2>1, <2>2 DEF FramesFit
<1>2. maxSrpb' >= MaxFrame
  <2>1. InRange' /\ maxSrpb' \in 1 .. MaxSrpb
    BY RangeStep
  <2>2. maxSrpb' = MaxSrpb \/ \E k \in Signals : maxSrpb' = window'[k]
    BY <2>1 DEF InRange
  <2> QED
    BY <1>1, <2>2, Constant
<1> QED
  BY <1>1, <1>2

\* A round that ends starts the next one with a frame's worth of packets at least.
LEMMA RoundStep ==
  ASSUME IInv, NEW marks \in SUBSET Markable, NEW prio \in BOOLEAN, ReceivePacket(marks, prio)
  PROVE  RoundAhead' /\ sinceRatio' \in 0 .. PktCap /\ atRatio' \in 0 .. PktCap
<1>1. maxSrpb' \in Nat /\ maxSrpb' <= MaxSrpb
  BY RangeStep, Constant
<1>2. /\ maxSrpb' \div MaxFrame \in 0 .. PktCap
      /\ maxSrpb' >= MaxFrame => maxSrpb' \div MaxFrame >= 1
  BY <1>1, AtCutType
<1>3. /\ sinceRatio \in 0 .. PktCap /\ atRatio \in 0 .. PktCap /\ PktCap \in Nat
      /\ sinceRatio' = IF Updates THEN 0 ELSE Count(sinceRatio + 1)
      /\ atRatio' = IF Updates THEN maxSrpb' \div MaxFrame ELSE atRatio
  BY Constant DEF ReceivePacket, RoundAfter, IInv, TypeOK
<1>4. Count(sinceRatio + 1) \in 0 .. PktCap
  BY <1>3, CountType
<1>5. ASSUME FramesFit PROVE sinceRatio' < atRatio'
  <2>1. maxSrpb' >= MaxFrame
    BY <1>5, FrameStep DEF AboveFrame, FramesFit
  <2>2. sinceRatio < atRatio
    BY <1>5 DEF IInv, RoundAhead
  <2>3. Count(sinceRatio + 1) = sinceRatio + 1
    BY <1>3, <2>2 DEF Count, Smaller
  <2> QED
    BY <1>2, <1>3, <2>1, <2>2, <2>3 DEF Updates
<1>6. RoundAhead'
  BY <1>5 DEF RoundAhead, FramesFit
<1> QED
  BY <1>2, <1>3, <1>4, <1>6

\* The counts, the averages and what is left of a round.
LEMMA CountersStep ==
  ASSUME IInv, NEW marks \in SUBSET Markable, NEW prio \in BOOLEAN, ReceivePacket(marks, prio)
  PROVE  TypeOK' /\ RatioIsFraction'
<1>1. RoundAhead' /\ sinceRatio' \in 0 .. PktCap /\ atRatio' \in 0 .. PktCap
  BY RoundStep
<1>2. /\ maxSrpb' \in 1 .. MaxSrpb
      /\ \A k \in Signals : window'[k] \in Nat
  BY RangeStep, WindowStep, WindowAssumption DEF IInv
<1>3. /\ sinceCut \in [Signals -> 0 .. PktCap] /\ atCut \in [Signals -> 0 .. PktCap]
      /\ maxSrpb \in Nat /\ maxSrpb <= MaxSrpb /\ PktCap \in Nat
  BY Constant DEF IInv, TypeOK
<1>4. ASSUME NEW k \in Signals
      PROVE  /\ ratio'[k] \in Nat /\ ratio'[k] <= One
             /\ marked'[k] \in 0 .. PktCap /\ marked'[k] <= sinceRatio'
             /\ sinceCut'[k] \in 0 .. PktCap
             /\ atCut'[k] \in 0 .. PktCap
  <2>1. /\ RatioNow(k, marks) \in Nat /\ RatioNow(k, marks) <= One
        /\ MarkedNow(k, marks) \in 0 .. PktCap
        /\ MarkedNow(k, marks) <= Count(sinceRatio + 1)
    BY RatioNowType DEF IInv
  <2>2. ratio'[k] = RatioNow(k, marks) /\ marked'[k] = MarkedAfter(k, marks)
    BY DEF ReceivePacket
  <2>3. sinceRatio' = IF Updates THEN 0 ELSE Count(sinceRatio + 1)
    BY DEF ReceivePacket, RoundAfter
  <2>4. marked'[k] \in 0 .. PktCap /\ marked'[k] <= sinceRatio'
    BY <1>3, <2>1, <2>2, <2>3 DEF MarkedAfter, RatioDue, Updates
  <2>5. Count(sinceCut[k] + 1) \in 0 .. PktCap
    <3>1. sinceCut[k] + 1 \in Nat
      BY <1>3
    <3> QED
      BY <3>1, CountType
  <2>6. NextCut \in 0 .. PktCap
    BY <1>3, AtCutType DEF NextCut
  <2>7. /\ sinceCut'[k] = IF Cuts(k, marks) THEN 0 ELSE Count(sinceCut[k] + 1)
        /\ atCut'[k] = IF Cuts(k, marks) THEN NextCut ELSE atCut[k]
    BY DEF ReceivePacket
  <2>8. sinceCut'[k] \in 0 .. PktCap /\ atCut'[k] \in 0 .. PktCap
    BY <1>3, <2>5, <2>6, <2>7
  <2> QED
    BY <2>1, <2>2, <2>4, <2>8
<1>5. /\ window' = [k \in Signals |-> window'[k]]
      /\ ratio' = [k \in Signals |-> ratio'[k]]
      /\ marked' = [k \in Signals |-> marked'[k]]
      /\ sinceCut' = [k \in Signals |-> sinceCut'[k]]
      /\ atCut' = [k \in Signals |-> atCut'[k]]
      /\ burst' \in [Signals -> BOOLEAN]
  BY DEF ReceivePacket
<1>6. TypeOK'
  BY <1>1, <1>2, <1>4, <1>5 DEF TypeOK
<1> QED
  BY <1>4, <1>6 DEF RatioIsFraction

LEMMA NextIInv == IInv /\ [Next]_vars => IInv'
<1> SUFFICES ASSUME IInv, [Next]_vars PROVE IInv'
  OBVIOUS
<1>1. CASE Next
  <2>1. PICK marks \in SUBSET Markable, prio \in BOOLEAN : ReceivePacket(marks, prio)
    BY <1>1 DEF Next
  <2> QED
    BY <2>1, CountersStep, RangeStep, FrameStep, RoundStep DEF IInv
<1>2. CASE UNCHANGED vars
  <2>1. /\ TypeOK' /\ RatioIsFraction'
    BY <1>2 DEF IInv, vars, TypeOK, RatioIsFraction
  <2>2. InRange' /\ AboveFrame' /\ RoundAhead'
    BY <1>2 DEF IInv, vars, InRange, AboveFrame, RoundAhead, FramesFit
  <2> QED
    BY <2>1, <2>2 DEF IInv
<1> QED
  BY <1>1, <1>2

LEMMA Inductive == Spec => []IInv
<1> QED
  BY InitIInv, NextIInv, PTL DEF Spec

-----------------------------------------------------------------------------
(* The theorems *)

\* Every count and window has its type; max_srpb_bytes_, the divisor of the
\* increase (r2p2-cc-hybrid.cc:1354), is never 0.
THEOREM WindowType == Spec => []TypeOK
<1>1. IInv => TypeOK
  BY DEF IInv
<1> QED
  BY <1>1, Inductive, PTL

\* The averages are fractions, the assertions at r2p2-cc-hybrid.cc:1783-1784.
THEOREM RatiosAreFractions == Spec => []RatioIsFraction
<1>1. IInv => RatioIsFraction
  BY DEF IInv
<1> QED
  BY <1>1, Inductive, PTL

\* The end of a round always lies ahead where FramesFit holds, so that the equality
\* at r2p2-cc-hybrid.cc:1230 is met.
THEOREM RoundsEnd == Spec => []RoundAhead
<1>1. IInv => RoundAhead
  BY DEF IInv
<1> QED
  BY <1>1, Inductive, PTL

\* What one packet may take from a window: half of it, and only if it is marked.
LEMMA CutAtMostHalf ==
  ASSUME IInv, NEW marks \in SUBSET Markable, NEW prio \in BOOLEAN,
         ReceivePacket(marks, prio), NEW k \in Signals
  PROVE  2 * window'[k] >= window[k] - 1 /\ (window'[k] < window[k] => burst'[k])
<1>1. window[k] \in Nat /\ MaxSrpb \in Nat /\ window[k] <= MaxSrpb
  BY Constant DEF IInv, TypeOK, InRange
<1>2. /\ window'[k] \in Nat
      /\ ~Cuts(k, marks) => window'[k] >= window[k]
      /\ \A b \in Nat : b <= MaxSrpb /\ 2 * b <= window[k] + 2 * Increase => window'[k] >= b
  BY WindowStep, WindowAssumption DEF IInv
<1>3. PICK b \in Nat : 2 * b <= window[k] /\ window[k] <= 2 * b + 1
  <2>1. /\ window[k] \div 2 \in Nat /\ 2 * (window[k] \div 2) <= window[k]
        /\ window[k] <= 2 * (window[k] \div 2) + 1
    BY <1>1, Z3
  <2> QED
    BY <2>1
<1>4. Increase \in Nat
  BY IncreaseType DEF IInv
<1>5. window'[k] >= b
  BY <1>1, <1>2, <1>3, <1>4
<1>6. window'[k] < window[k] => Cuts(k, marks)
  BY <1>1, <1>2
<1>7. k \in marks => burst'[k]
  BY DEF ReceivePacket
<1> QED
  BY <1>1, <1>2, <1>3, <1>5, <1>6, <1>7 DEF Cuts

\* No packet more than halves a window, and only a marked one shrinks it
\* (r2p2-cc-hybrid.cc:1357-1364).
THEOREM HalvedAtMost == Spec => AtMostHalved
<1>1. IInv /\ [Next]_vars => [\A k \in Signals : HalfIsLeft(k)]_vars
  <2> SUFFICES ASSUME IInv, Next, NEW k \in Signals PROVE HalfIsLeft(k)
    OBVIOUS
  <2>1. PICK marks \in SUBSET Markable, prio \in BOOLEAN : ReceivePacket(marks, prio)
    BY DEF Next
  <2> QED
    BY <2>1, CutAtMostHalf DEF HalfIsLeft
<1> QED
  BY <1>1, Inductive, PTL DEF Spec, AtMostHalved
=============================================================================
