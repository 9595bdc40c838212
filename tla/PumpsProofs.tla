------------------------------ MODULE PumpsProofs -----------------------------
(***************************************************************************)
(* Theorems of Pumps, for every rate, window, deadline and period that      *)
(* PumpsAssumption allows.  Three layers: the types with where the ticker   *)
(* is (Typed), the frames of the limiter's windows (Windowed), and the      *)
(* deadlines of a connection that is well and of which no frame was refused *)
(* (Healthy).                                                               *)
(***************************************************************************)
EXTENDS Pumps, FiniteSetTheorems, WellFoundedInduction, TLAPS

(* The ticker is at most a period ahead.                                    *)
Ticking == pingAt <= now + PingPeriod

Typed == TypeOK /\ Ticking

(* The last limiter.count frames passed in the limiter's window, which      *)
(* starts at reset - RateLimitWindow; the ones before them passed before    *)
(* it, and those that are another RateLimitCount frames older before the    *)
(* window in front of it was over.                                          *)
Start == limiter.reset - RateLimitWindow

InOrder ==
  /\ \A i \in DOMAIN passed : passed[i] <= now /\ passed[i] <= limiter.reset
  /\ \A i, j \in DOMAIN passed : i <= j => passed[i] <= passed[j]

InWindow ==
  /\ limiter.count <= Len(passed) /\ Start \in 0 .. now
  /\ \A i \in DOMAIN passed : i > Len(passed) - limiter.count => passed[i] >= Start
  /\ \A i \in DOMAIN passed : i <= Len(passed) - limiter.count => passed[i] < Start
  /\ \A i \in DOMAIN passed :
       i <= Len(passed) - limiter.count - RateLimitCount => passed[i] + RateLimitWindow < Start

(* Of any 2 * RateLimitCount + 1 frames in a row the last one passed more   *)
(* than a window after the first one.                                       *)
Apart ==
  \A i, j \in DOMAIN passed :
    j = i + 2 * RateLimitCount => passed[j] > passed[i] + RateLimitWindow

Windowed == InOrder /\ InWindow /\ Apart

(* The read deadline has room for the next ping, as late as it may be, and  *)
(* for its pong.                                                            *)
ReadInTime ==
  /\ pinged = None => readBy >= pingAt - PingPeriod + ReadDeadline
  /\ pinged # None => now <= pinged + PongDelay /\ readBy > pinged + PongDelay

(* A write has a deadline of its own, and does not take that long.          *)
WriteInTime ==
  Writing => /\ began \in Nat /\ deadline = began + WriteDeadline
             /\ now <= began + WriteDelay

Well ==
  /\ sock = "open" /\ reader \in {"reading", "offering"} /\ writer # "done"
  /\ now <= pingAt + PingDelay /\ WriteInTime /\ ReadInTime

Healthy == healthy /\ Len(passed) = frames => Well

-----------------------------------------------------------------------------
(* The constants, and the types with the numbers they are.                  *)
LEMMA Periods ==
  /\ RateLimitCount \in Nat /\ RateLimitCount >= 1 /\ RateLimitWindow \in Nat /\ RateLimitWindow >= 1
  /\ WriteDeadline \in Nat /\ PingPeriod \in Nat /\ PingPeriod >= 1 /\ ReadDeadline \in Nat
  /\ PingDelay \in Nat /\ WriteDelay \in Nat /\ PongDelay \in Nat
  /\ MaxFrames \in Nat /\ MaxEvents \in Nat /\ MaxTime \in Nat
  /\ RateLimitWindow <= ReadDeadline /\ WriteDeadline <= ReadDeadline
  /\ WriteDelay < WriteDeadline /\ PingPeriod + PingDelay + PongDelay < ReadDeadline /\ None = -1
BY PumpsAssumption DEF None

LEMMA TimesAre == Times = {t \in Nat : t <= MaxTime + ReadDeadline}
BY Periods DEF Times

LEMMA Numbers ==
  ASSUME TypeOK
  PROVE  /\ now \in Nat /\ now <= MaxTime /\ limiter.count \in Nat /\ limiter.count <= RateLimitCount
         /\ limiter.reset \in Nat /\ readBy \in Nat /\ pingAt \in Nat
         /\ began \in Nat \cup {None} /\ deadline \in Nat \cup {None} /\ pinged \in Nat \cup {None}
         /\ frames \in Nat /\ Len(passed) \in Nat /\ Len(passed) <= frames
         /\ DOMAIN passed = 1 .. Len(passed)
         /\ \A i \in DOMAIN passed : passed[i] \in Nat
BY TimesAre, Periods DEF TypeOK

LEMMA TypedFromStart == Init => Typed
<1> SUFFICES ASSUME Init PROVE Typed
  OBVIOUS
<1>1. limiter \in [count : 0 .. RateLimitCount, reset : Times]
  BY TimesAre, Periods DEF Init
<1>2. {began, deadline, pinged} \subseteq Times \cup {None} /\ {readBy, pingAt} \subseteq Times
  BY TimesAre, Periods DEF Init
<1>3. passed \in Seq(0 .. MaxTime) /\ Len(passed) <= frames
  BY DEF Init
<1>4. now \in 0 .. MaxTime /\ frames \in 0 .. MaxFrames /\ events \in 0 .. MaxEvents
  BY Periods DEF Init
<1>5. TypeOK
  BY <1>1, <1>2, <1>3, <1>4 DEF Init, TypeOK
<1>6. Ticking
  BY Periods DEF Init, Ticking
<1> QED
  BY <1>5, <1>6 DEF Typed

(* What the limiter's window becomes at a frame.                            *)
LEMMA WindowTyped ==
  ASSUME TypeOK
  PROVE  /\ CurrentWindow \in [count : 0 .. RateLimitCount, reset : Times]
         /\ now <= limiter.reset => CurrentWindow = limiter
         /\ now > limiter.reset => /\ CurrentWindow.count = 0
                                   /\ CurrentWindow.reset = now + RateLimitWindow
         /\ Allowed => [CurrentWindow EXCEPT !.count = @ + 1] \in [count : 0 .. RateLimitCount, reset : Times]
         /\ ~Allowed => CurrentWindow = limiter /\ limiter.count = RateLimitCount /\ now <= limiter.reset
<1>1. now + RateLimitWindow \in Times /\ 0 \in 0 .. RateLimitCount
  BY Numbers, TimesAre, Periods
<1>2. CurrentWindow \in [count : 0 .. RateLimitCount, reset : Times]
  BY <1>1 DEF CurrentWindow, TypeOK
<1>3. now <= limiter.reset => CurrentWindow = limiter
  BY Numbers DEF CurrentWindow
<1>4. now > limiter.reset => /\ CurrentWindow.count = 0
                             /\ CurrentWindow.reset = now + RateLimitWindow
  BY DEF CurrentWindow
<1>5. ASSUME Allowed
      PROVE  [CurrentWindow EXCEPT !.count = @ + 1] \in [count : 0 .. RateLimitCount, reset : Times]
  <2>1. CurrentWindow.count + 1 \in 0 .. RateLimitCount
    BY <1>2, <1>5, Periods DEF Allowed
  <2> QED
    BY <1>2, <2>1
<1>6. ASSUME ~Allowed PROVE CurrentWindow = limiter /\ limiter.count = RateLimitCount /\ now <= limiter.reset
  <2>1. ~(CurrentWindow.count < RateLimitCount)
    BY <1>6 DEF Allowed
  <2>2. now <= limiter.reset
    BY <1>4, <2>1, Numbers, Periods
  <2> QED
    BY <1>3, <2>1, <2>2, Numbers, Periods
<1> QED
  BY <1>2, <1>3, <1>4, <1>5, <1>6

LEMMA TickIsNext == NextTicks \subseteq now .. now + PingPeriod
BY DEF NextTicks

LEMMA BeginWriteTyped ==
  ASSUME Typed, BeginWrite
  PROVE  Typed'
<1>1. TypeOK /\ Ticking /\ now \in Nat /\ now <= MaxTime
  BY Numbers DEF Typed
<1>2. /\ deadline' = now + WriteDeadline /\ began' = now
      /\ UNCHANGED <<now, limiter, reader, readBy, sock, passed, frames, healthy, panicked>>
  BY DEF BeginWrite, NextDeadline
<1>3. /\ now \in Times /\ now + WriteDeadline \in Times
      /\ \A t \in now .. now + PingPeriod : t \in Times /\ t <= now + PingPeriod
  BY <1>1, TimesAre, Periods
<1>4. writer' \in {"event", "ping"}
  BY DEF BeginWrite
<1>5. events' \in 0 .. MaxEvents
  <2>1. events \in 0 .. MaxEvents /\ MaxEvents \in Nat
    BY <1>1, Periods DEF TypeOK
  <2>2. events' = events \/ (events < MaxEvents /\ events' = events + 1)
    BY DEF BeginWrite
  <2> QED
    BY <2>1, <2>2
<1>6. pinged' \in {pinged, now}
  BY DEF BeginWrite
<1>7. pingAt' = pingAt \/ pingAt' \in now .. now + PingPeriod
  BY TickIsNext DEF BeginWrite
<1>8. pingAt' \in Times /\ Ticking'
  <2>1. CASE pingAt' = pingAt
    BY <1>1, <1>2, <2>1 DEF TypeOK, Ticking
  <2>2. CASE pingAt' \in now .. now + PingPeriod
    BY <1>2, <1>3, <2>2 DEF Ticking
  <2> QED
    BY <1>7, <2>1, <2>2
<1>9. {began', deadline', pinged'} \subseteq Times \cup {None}
  BY <1>1, <1>2, <1>3, <1>6 DEF TypeOK
<1>10. TypeOK'
  BY <1>1, <1>2, <1>4, <1>5, <1>8, <1>9 DEF TypeOK
<1> QED
  BY <1>8, <1>10 DEF Typed

LEMMA TypedStays == Typed /\ [Next]_vars => Typed'
<1> SUFFICES ASSUME Typed, [Next]_vars PROVE Typed'
  OBVIOUS
<1>1. TypeOK /\ Ticking
  BY DEF Typed
<1> USE Numbers, TimesAre, Periods
<1>2. CASE Tick
  <2>1. now' = now + 1 /\ now < MaxTime /\ healthy' \in BOOLEAN
    BY <1>1, <1>2 DEF Tick, TypeOK
  <2>2. TypeOK'
    BY <1>1, <1>2, <2>1 DEF Tick, TypeOK
  <2>3. Ticking'
    BY <1>1, <1>2, <2>1 DEF Tick, Ticking
  <2> QED
    BY <2>2, <2>3 DEF Typed
<1>3. CASE GoAway \/ HubTakes
  BY <1>1, <1>3 DEF GoAway, HubTakes, Typed, TypeOK, Ticking
<1>4. CASE Read
  <2>1. limiter' \in [count : 0 .. RateLimitCount, reset : Times]
    BY <1>1, <1>4, WindowTyped DEF Read
  <2>2. passed' \in Seq(0 .. MaxTime) /\ Len(passed') <= frames' /\ frames' \in 0 .. MaxFrames
    <3>1. passed' = Append(passed, now) /\ frames' = frames + 1 /\ frames < MaxFrames
      BY <1>4 DEF Read, Reading
    <3>2. passed \in Seq(0 .. MaxTime) /\ now \in 0 .. MaxTime
      BY <1>1 DEF TypeOK
    <3>3. passed' \in Seq(0 .. MaxTime) /\ Len(passed') = Len(passed) + 1
      BY <3>1, <3>2
    <3> QED
      BY <1>1, <3>1, <3>3
  <2> QED
    BY <1>1, <1>4, <2>1, <2>2 DEF Read, Typed, TypeOK, Ticking
<1>5. CASE Refuse
  <2>1. limiter' \in [count : 0 .. RateLimitCount, reset : Times]
    BY <1>1, <1>5, WindowTyped DEF Refuse
  <2>2. passed' = passed /\ Len(passed') <= frames' /\ frames' \in 0 .. MaxFrames
    BY <1>1, <1>5 DEF Refuse, Reading, TypeOK
  <2> QED
    BY <1>1, <1>5, <2>1, <2>2 DEF Refuse, Typed, TypeOK, Ticking
<1>6. CASE Pong
  <2>1. readBy' \in Times /\ pinged' = None
    BY SMTT(30), <1>1, <1>6 DEF Pong
  <2> QED
    BY <1>1, <1>6, <2>1 DEF Pong, Typed, TypeOK, Ticking
<1>7. CASE ReadEnd
  BY <1>1, <1>7 DEF ReadEnd, Typed, TypeOK, Ticking
<1>8. CASE BeginWrite
  BY <1>8, BeginWriteTyped
<1>9. CASE EndWrite
  <2>1. writer' \in {"idle", "done"} /\ sock' \in {"open", "broken", "closed"}
    BY <1>1, <1>9 DEF EndWrite, TypeOK
  <2> QED
    BY <1>1, <1>9, <2>1 DEF EndWrite, Typed, TypeOK, Ticking
<1>10. CASE EndRefuse
  <2>1. sock' \in {"open", "broken", "closed"}
    BY <1>1, <1>10 DEF EndRefuse, TypeOK
  <2> QED
    BY <1>1, <1>10, <2>1 DEF EndRefuse, Typed, TypeOK, Ticking
<1>11. CASE Collide
  <2>1. sock' \in {"open", "broken", "closed"} /\ panicked' \in BOOLEAN
    BY <1>1, <1>11 DEF Collide, TypeOK
  <2> QED
    BY <1>1, <1>11, <2>1 DEF Collide, Typed, TypeOK, Ticking
<1>12. CASE UNCHANGED vars
  BY <1>1, <1>12 DEF vars, Typed, TypeOK, Ticking
<1> QED
  BY <1>2, <1>3, <1>4, <1>5, <1>6, <1>7, <1>8, <1>9, <1>10, <1>11, <1>12 DEF Next

LEMMA AlwaysTyped == Spec => []Typed
BY TypedFromStart, TypedStays, PTL DEF Spec

-----------------------------------------------------------------------------
(* The limiter's windows.                                                   *)
LEMMA WindowedFromStart == Init => Windowed
<1> SUFFICES ASSUME Init PROVE Windowed
  OBVIOUS
<1>1. passed = <<>> /\ Len(passed) = 0 /\ DOMAIN passed = {}
  BY DEF Init
<1>2. InWindow
  BY <1>1, Periods DEF Init, InWindow, Start
<1> QED
  BY <1>1, <1>2 DEF Windowed, InOrder, Apart

(* The frames stay, and time only goes on.                                  *)
LEMMA LaterStaysWindowed ==
  ASSUME TypeOK, Windowed, passed' = passed, limiter' = limiter, now' \in {now, now + 1}
  PROVE  Windowed'
<1>1. InOrder'
  BY Numbers DEF Windowed, InOrder
<1>2. InWindow'
  <2>1. Start' = Start
    BY DEF Start
  <2>2. Start \in 0 .. now'
    BY Numbers DEF Windowed, InWindow
  <2> QED
    BY <2>1, <2>2 DEF Windowed, InWindow
<1>3. Apart'
  BY DEF Windowed, Apart
<1> QED
  BY <1>1, <1>2, <1>3 DEF Windowed

LEMMA ReadStaysWindowed ==
  ASSUME TypeOK, Windowed, Read
  PROVE  Windowed'
<1> DEFINE n == Len(passed)
           c == limiter.count
           k == RateLimitCount
           w == RateLimitWindow
<1>1. /\ now \in Nat /\ c \in 0 .. k /\ limiter.reset \in Nat /\ n \in Nat
      /\ DOMAIN passed = 1 .. n /\ \A i \in 1 .. n : passed[i] \in Nat
      /\ k \in Nat /\ k >= 1 /\ w \in Nat /\ w >= 1 /\ Start = limiter.reset - w
  BY Numbers, Periods DEF Start
<1>2. /\ \A i \in 1 .. n : passed[i] <= now /\ passed[i] <= limiter.reset
      /\ \A i, j \in 1 .. n : i <= j => passed[i] <= passed[j]
      /\ c <= n /\ Start \in 0 .. now
      /\ \A i \in 1 .. n : i > n - c => passed[i] >= Start
      /\ \A i \in 1 .. n : i <= n - c => passed[i] < Start
      /\ \A i \in 1 .. n : i <= n - c - k => passed[i] + w < Start
      /\ \A i, j \in 1 .. n : j = i + 2 * k => passed[j] > passed[i] + w
  BY <1>1 DEF Windowed, InOrder, InWindow, Apart
<1>3. /\ now' = now /\ Len(passed') = n + 1 /\ DOMAIN passed' = 1 .. n + 1
      /\ passed'[n + 1] = now /\ \A i \in 1 .. n : passed'[i] = passed[i]
  BY DEF Read, TypeOK
<1>4. \/ /\ now <= limiter.reset /\ c < k
         /\ limiter'.count = c + 1 /\ limiter'.reset = limiter.reset
      \/ /\ now > limiter.reset
         /\ limiter'.count = 1 /\ limiter'.reset = now + w
  <2>1. limiter' = [CurrentWindow EXCEPT !.count = @ + 1] /\ CurrentWindow.count < k
    BY DEF Read, Allowed
  <2>2. CurrentWindow \in [count : 0 .. k, reset : Times]
    BY WindowTyped
  <2>3. limiter'.count = CurrentWindow.count + 1 /\ limiter'.reset = CurrentWindow.reset
    BY <2>1, <2>2
  <2>4. CASE now <= limiter.reset
    BY <1>1, <2>1, <2>3, <2>4, WindowTyped
  <2>5. CASE now > limiter.reset
    BY <1>1, <2>1, <2>3, <2>5, WindowTyped
  <2> QED
    BY <1>1, <2>4, <2>5
<1> DEFINE c1 == limiter'.count
           s1 == limiter'.reset - w
<1>5. Start' = s1
  BY DEF Start
<1> HIDE DEF n, c, k, w, c1, s1
<1>6. /\ c1 \in Nat /\ s1 \in Int /\ limiter'.reset \in Nat
      /\ now <= limiter.reset => c < k /\ c1 = c + 1 /\ s1 = Start /\ limiter'.reset = limiter.reset
      /\ now > limiter.reset => c1 = 1 /\ s1 = now /\ limiter'.reset = now + w
  BY SMTT(30), <1>1, <1>4 DEF c1, s1, c
<1>7. InOrder'
  <2>1. ASSUME NEW i \in 1 .. n + 1 PROVE passed'[i] <= now /\ passed'[i] <= limiter'.reset
    <3>1. CASE i = n + 1
      BY <1>1, <1>3, <1>6, <3>1
    <3>2. CASE i \in 1 .. n
      <4>1. passed'[i] = passed[i] /\ passed[i] \in Nat /\ passed[i] <= now /\ passed[i] <= limiter.reset
        BY <1>1, <1>2, <1>3, <3>2
      <4> QED
        BY <1>1, <1>6, <4>1
    <3> QED
      BY <1>1, <3>1, <3>2
  <2>2. ASSUME NEW i \in 1 .. n + 1, NEW j \in 1 .. n + 1, i <= j PROVE passed'[i] <= passed'[j]
    <3>1. CASE j = n + 1
      BY <1>3, <2>1, <3>1
    <3>2. CASE i \in 1 .. n /\ j \in 1 .. n
      BY <1>2, <1>3, <2>2, <3>2
    <3> QED
      BY <1>1, <2>2, <3>1, <3>2
  <2> QED
    BY <1>3, <2>1, <2>2 DEF InOrder
<1>8. InWindow'
  <2>1. c1 <= n + 1 /\ s1 \in 0 .. now
    BY <1>1, <1>2, <1>6
  <2>2. ASSUME NEW i \in 1 .. n + 1, i > n + 1 - c1 PROVE passed'[i] >= s1
    <3>1. CASE i = n + 1
      BY <1>1, <1>3, <2>1, <3>1
    <3>2. CASE i \in 1 .. n
      <4>1. now <= limiter.reset
        BY <1>1, <1>6, <2>2, <3>2
      <4> QED
        BY SMTT(30), <1>1, <1>2, <1>3, <1>6, <2>2, <3>2, <4>1 DEF c
    <3> QED
      BY <1>1, <3>1, <3>2
  <2>3. ASSUME NEW i \in 1 .. n + 1, i <= n + 1 - c1 PROVE passed'[i] < s1
    <3>1. i \in 1 .. n
      BY <1>1, <1>6, <2>3 DEF c
    <3>2. passed'[i] = passed[i] /\ passed[i] \in Nat /\ passed[i] <= limiter.reset
      BY <1>1, <1>2, <1>3, <3>1
    <3>3. CASE now <= limiter.reset
      BY SMTT(30), <1>1, <1>2, <1>6, <2>3, <3>1, <3>2, <3>3 DEF c
    <3>4. CASE now > limiter.reset
      BY <1>1, <1>6, <3>2, <3>4
    <3> QED
      BY <1>1, <3>3, <3>4
  <2>4. ASSUME NEW i \in 1 .. n + 1, i <= n + 1 - c1 - k PROVE passed'[i] + w < s1
    <3>1. i \in 1 .. n /\ i <= n - k + (1 - c1)
      BY <1>1, <1>6, <2>4 DEF c
    <3>2. passed'[i] = passed[i] /\ passed[i] \in Nat
      BY <1>1, <1>3, <3>1
    <3>3. CASE now <= limiter.reset
      <4>1. i <= n - c - k
        BY <1>1, <1>6, <2>4, <3>3
      <4>2. passed[i] + w < Start
        BY <1>2, <3>1, <4>1
      <4> QED
        BY <1>6, <3>2, <3>3, <4>2
    <3>4. CASE now > limiter.reset
      <4>1. i <= n - c
        BY <1>1, <1>6, <3>1, <3>4 DEF c
      <4>2. passed[i] < limiter.reset - w
        BY <1>1, <1>2, <3>1, <4>1
      <4> QED
        BY <1>1, <1>6, <3>2, <3>4, <4>2
    <3> QED
      BY <1>1, <3>3, <3>4
  <2>5. ASSUME NEW i \in DOMAIN passed'
        PROVE  /\ i > Len(passed') - c1 => passed'[i] >= s1
               /\ i <= Len(passed') - c1 => passed'[i] < s1
               /\ i <= Len(passed') - c1 - k => passed'[i] + w < s1
    <3>1. i \in 1 .. n + 1 /\ Len(passed') = n + 1
      BY <1>3
    <3>2. i > n + 1 - c1 => passed'[i] >= s1
      BY <2>2, <3>1
    <3>3. i <= n + 1 - c1 => passed'[i] < s1
      BY <2>3, <3>1
    <3>4. i <= n + 1 - c1 - k => passed'[i] + w < s1
      BY <2>4, <3>1
    <3> QED
      BY <1>1, <1>6, <3>1, <3>2, <3>3, <3>4
  <2>6. c1 <= Len(passed') /\ s1 \in 0 .. now'
    BY <1>3, <2>1
  <2> QED
    BY <1>5, <2>5, <2>6 DEF InWindow, c1, k, w
<1>9. Apart'
  <2> SUFFICES ASSUME NEW i \in 1 .. n + 1, NEW j \in 1 .. n + 1, j = i + 2 * k
               PROVE  passed'[j] > passed'[i] + w
    BY <1>3 DEF Apart, k, w
  <2>1. i \in 1 .. n /\ passed'[i] = passed[i] /\ passed[i] \in Nat
    BY <1>1, <1>3
  <2>2. CASE j \in 1 .. n
    BY <1>2, <1>3, <2>1, <2>2
  <2>3. CASE j = n + 1
    <3>1. CASE now <= limiter.reset
      <4>1. i <= n - c - k
        BY <1>1, <1>6, <2>3, <3>1 DEF c
      <4>2. passed[i] + w < Start
        BY <1>2, <2>1, <4>1
      <4> QED
        BY SMTT(30), <1>1, <1>2, <1>3, <2>1, <2>3, <4>2
    <3>2. CASE now > limiter.reset
      <4>1. i <= n - c
        BY <1>1, <2>3 DEF c
      <4>2. passed[i] < limiter.reset - w
        BY <1>1, <1>2, <2>1, <4>1
      <4> QED
        BY SMTT(30), <1>1, <1>3, <2>1, <2>3, <3>2, <4>2
    <3> QED
      BY <1>1, <3>1, <3>2
  <2> QED
    BY <1>1, <2>2, <2>3
<1> QED
  BY <1>7, <1>8, <1>9 DEF Windowed

LEMMA WindowedStays == Typed /\ Windowed /\ [Next]_vars => Windowed'
<1> SUFFICES ASSUME Typed, Windowed, [Next]_vars PROVE Windowed'
  OBVIOUS
<1>1. TypeOK
  BY DEF Typed
<1>2. CASE Read
  BY <1>1, <1>2, ReadStaysWindowed
<1>3. CASE Refuse
  <2>1. limiter' = limiter
    BY <1>1, <1>3, WindowTyped DEF Refuse
  <2> QED
    BY <1>1, <1>3, <2>1, LaterStaysWindowed DEF Refuse
<1>4. CASE Tick
  BY <1>1, <1>4, LaterStaysWindowed DEF Tick
<1>5. CASE UNCHANGED <<passed, limiter, now>>
  BY <1>1, <1>5, LaterStaysWindowed
<1>6. GoAway \/ HubTakes \/ Pong \/ ReadEnd \/ BeginWrite \/ EndWrite \/ EndRefuse \/ Collide
        \/ UNCHANGED vars
        => UNCHANGED <<passed, limiter, now>>
  BY DEF GoAway, HubTakes, Pong, ReadEnd, BeginWrite, EndWrite, EndRefuse, Collide, vars
<1> QED
  BY <1>2, <1>3, <1>4, <1>5, <1>6 DEF Next

LEMMA AlwaysWindowed == Spec => [](Typed /\ Windowed)
<1>1. Init => Typed /\ Windowed
  BY TypedFromStart, WindowedFromStart
<1>2. (Typed /\ Windowed) /\ [Next]_vars => (Typed /\ Windowed)'
  BY TypedStays, WindowedStays
<1> QED
  BY <1>1, <1>2, PTL DEF Spec

(* A frame is refused with RateLimitCount frames of the window in passed.   *)
LEMMA RefusalHasCause ==
  ASSUME TypeOK, Windowed, ~Allowed
  PROVE  Cardinality({i \in DOMAIN passed : passed[i] >= now - RateLimitWindow}) >= RateLimitCount
<1> DEFINE n == Len(passed)
           k == RateLimitCount
           Recent == {i \in DOMAIN passed : passed[i] >= now - RateLimitWindow}
<1>1. now <= limiter.reset /\ limiter.count = k
  BY WindowTyped
<1>2. /\ now \in Nat /\ limiter.reset \in Nat /\ n \in Nat /\ k \in Nat /\ RateLimitWindow \in Nat
      /\ DOMAIN passed = 1 .. n /\ \A i \in 1 .. n : passed[i] \in Nat
  BY Numbers, Periods
<1>3. k <= n /\ \A i \in 1 .. n : i > n - k => passed[i] >= limiter.reset - RateLimitWindow
  BY <1>1, <1>2 DEF Windowed, InWindow, Start
<1> HIDE DEF n, k
<1>4. \A i \in n - k + 1 .. n : i \in 1 .. n /\ i > n - k
  BY <1>2, <1>3
<1>5. \A i \in n - k + 1 .. n : passed[i] >= now - RateLimitWindow
  BY <1>1, <1>2, <1>3, <1>4
<1>6. n - k + 1 .. n \subseteq Recent
  BY <1>2, <1>4, <1>5
<1>7. IsFiniteSet(Recent)
  <2>1. IsFiniteSet(1 .. n)
    BY <1>2, FS_Interval
  <2>2. Recent \in SUBSET (1 .. n)
    BY <1>2
  <2> QED
    BY <2>1, <2>2, FS_Subset
<1>8. Cardinality(n - k + 1 .. n) = k
  <2>1. n - k + 1 \in Int /\ n \in Int
    BY <1>2
  <2>2. Cardinality(n - k + 1 .. n) = IF n - k + 1 > n THEN 0 ELSE n - (n - k + 1) + 1
    BY <2>1, FS_Interval
  <2> QED
    BY <1>2, <2>2
<1>9. Cardinality(n - k + 1 .. n) <= Cardinality(Recent) /\ Cardinality(Recent) \in Nat
  BY <1>6, <1>7, FS_Subset, FS_CardinalityType
<1> QED
  BY <1>2, <1>8, <1>9 DEF k

(* A set of numbers has a smallest one.                                     *)
LEMMA Smallest ==
  ASSUME NEW T, T \subseteq Nat, T # {}
  PROVE  \E m \in T : \A i \in T : i >= m
<1> DEFINE UpTo == {1 .. i : i \in T}
           R == StrictSubsetOrdering(Nat)
<1>1. \A i \in Nat : 1 .. i \in SUBSET Nat /\ IsFiniteSet(1 .. i)
  BY FS_Interval
<1>2. UpTo \subseteq FiniteSubsetsOf(Nat) /\ UpTo # {}
  BY <1>1 DEF FiniteSubsetsOf
<1>3. PICK x \in UpTo : \A y \in UpTo : ~(<<y, x>> \in R)
  BY <1>2, FS_StrictSubsetOrderingWellFounded, WFMin
<1>4. PICK m \in T : x = 1 .. m
  BY <1>3
<1>5. ASSUME NEW i \in T, i < m PROVE FALSE
  <2>1. 1 .. i \in UpTo
    OBVIOUS
  <2>2. 1 .. i \subseteq 1 .. m /\ m \in 1 .. m /\ m \notin 1 .. i
    BY <1>5
  <2>3. <<1 .. i, 1 .. m>> \in (SUBSET Nat) \X (SUBSET Nat)
    BY <1>1
  <2>4. <<1 .. i, 1 .. m>> \in R
    BY <2>2, <2>3 DEF StrictSubsetOrdering
  <2> QED
    BY <1>3, <1>4, <2>1, <2>4
<1> QED
  BY <1>5

(* A window's length has at most the frames of two windows in it: from the  *)
(* first of them, 2 * RateLimitCount frames on, another one is too late.    *)
LEMMA AtMostTwo ==
  ASSUME TypeOK, Windowed
  PROVE  TwoWindows
<1> SUFFICES ASSUME NEW t \in 0 .. MaxTime
             PROVE  Cardinality({i \in DOMAIN passed : passed[i] \in t - RateLimitWindow .. t})
                      <= 2 * RateLimitCount
  BY DEF TwoWindows
<1> DEFINE n == Len(passed)
           k == RateLimitCount
           Near == {i \in DOMAIN passed : passed[i] \in t - RateLimitWindow .. t}
<1>1. /\ n \in Nat /\ k \in Nat /\ RateLimitWindow \in Nat /\ t \in Nat
      /\ DOMAIN passed = 1 .. n /\ \A i \in 1 .. n : passed[i] \in Nat
  BY Numbers, Periods
<1>2. CASE Near = {}
  <2>1. Cardinality(Near) = 0
    BY <1>2, FS_EmptySet
  <2> QED
    BY <1>1, <2>1
<1>3. CASE Near # {}
  <2>1. Near \subseteq Nat
    BY <1>1
  <2>2. PICK m \in Near : \A i \in Near : i >= m
    BY <1>3, <2>1, Smallest
  <2> DEFINE b == m + 2 * k - 1
  <2>3. Near \subseteq m .. b
    <3> SUFFICES ASSUME NEW i \in Near, i >= m + 2 * k PROVE FALSE
      BY <1>1, <2>1, <2>2
    <3>1. i \in 1 .. n /\ m \in 1 .. n /\ passed[i] <= t /\ passed[m] >= t - RateLimitWindow
      BY <1>1
    <3>2. m + 2 * k \in 1 .. n
      BY <1>1, <3>1
    <3>3. passed[m + 2 * k] > passed[m] + RateLimitWindow
      BY <1>1, <3>1, <3>2 DEF Windowed, Apart
    <3>4. passed[m + 2 * k] <= passed[i]
      BY <1>1, <3>1, <3>2 DEF Windowed, InOrder
    <3>5. passed[i] \in Nat /\ passed[m] \in Nat /\ passed[m + 2 * k] \in Nat
      BY <1>1, <3>1, <3>2
    <3> QED
      BY <1>1, <3>1, <3>3, <3>4, <3>5
  <2>4. m \in Int /\ b \in Int /\ b - m + 1 = 2 * k
    BY <1>1, <2>1
  <2> HIDE DEF b, Near
  <2>5. IsFiniteSet(m .. b) /\ Cardinality(m .. b) = IF m > b THEN 0 ELSE b - m + 1
    BY <2>4, FS_Interval
  <2>6. IsFiniteSet(Near) /\ Cardinality(Near) <= Cardinality(m .. b)
    BY <2>3, <2>5, FS_Subset
  <2>7. Cardinality(Near) \in Nat
    BY <2>6, FS_CardinalityType
  <2>8. Cardinality(m .. b) <= 2 * k /\ Cardinality(m .. b) \in Int
    BY <1>1, <2>4, <2>5
  <2>9. Cardinality(Near) <= 2 * k
    BY <1>1, <2>6, <2>7, <2>8
  <2> QED
    BY <2>9 DEF Near
<1> QED
  BY <1>2, <1>3

-----------------------------------------------------------------------------
(* The deadlines.                                                           *)
LEMMA HealthyFromStart == Init => Healthy
<1> SUFFICES ASSUME Init PROVE Well
  BY DEF Healthy
<1>1. ReadInTime /\ WriteInTime
  BY Periods DEF Init, ReadInTime, WriteInTime, Writing
<1>2. now <= pingAt + PingDelay
  BY Periods DEF Init
<1> QED
  BY <1>1, <1>2 DEF Init, Well

(* While it is well no read times out, and no write fails.                  *)
LEMMA WellInTime ==
  ASSUME Typed, Well, healthy
  PROVE  now < readBy /\ (Writing => ~MayFail)
<1>1. /\ now \in Nat /\ pingAt \in Nat /\ readBy \in Nat /\ pinged \in Nat \cup {None}
      /\ deadline \in Nat \cup {None}
  BY Numbers DEF Typed
<1>2. sock = "open" /\ now <= pingAt + PingDelay /\ WriteInTime /\ ReadInTime
  BY DEF Well
<1>3. now < readBy
  BY <1>1, <1>2, Periods DEF ReadInTime
<1>4. ASSUME Writing PROVE ~(now >= deadline)
  <2>1. began \in Nat /\ deadline = began + WriteDeadline /\ now <= began + WriteDelay
    BY <1>2, <1>4 DEF WriteInTime
  <2> QED
    BY <1>1, <2>1, Periods
<1> QED
  BY <1>2, <1>3, <1>4 DEF MayFail

(* A step that ends well, with no frame refused so far, began so.           *)
LEMMA WellBefore ==
  ASSUME Typed, Healthy, [Next]_vars, healthy', Len(passed') = frames'
  PROVE  healthy /\ Well /\ ~Refuse
<1>1. frames \in Nat /\ Len(passed) \in Nat /\ Len(passed) <= frames
  BY Numbers DEF Typed
<1>2. healthy
  BY DEF Next, Tick, GoAway, Read, HubTakes, Refuse, Pong, ReadEnd, BeginWrite, EndWrite, EndRefuse,
         Collide, vars
<1>3. ~Refuse /\ Len(passed) = frames
  <2>1. passed \in Seq(0 .. MaxTime) /\ now \in 0 .. MaxTime
    BY DEF Typed, TypeOK
  <2>2. CASE Read
    <3>1. passed' = Append(passed, now) /\ frames' = frames + 1 /\ reader' = "offering"
      BY <2>2 DEF Read
    <3>2. Len(passed') = Len(passed) + 1
      BY <2>1, <3>1
    <3> QED
      BY <1>1, <3>1, <3>2 DEF Refuse
  <2>3. ~Refuse
    <3> SUFFICES ASSUME Refuse PROVE FALSE
      OBVIOUS
    <3>1. passed' = passed /\ frames' = frames + 1
      BY DEF Refuse
    <3> QED
      BY <1>1, <3>1
  <2>4. CASE UNCHANGED <<passed, frames>>
    BY <2>3, <2>4
  <2> QED
    BY <2>2, <2>3, <2>4
       DEF Next, Tick, GoAway, HubTakes, Pong, ReadEnd, BeginWrite, EndWrite, EndRefuse, Collide, vars
<1> QED
  BY <1>2, <1>3 DEF Healthy

LEMMA HealthyStaysSo == Typed /\ Healthy /\ [Next]_vars => Healthy'
<1> SUFFICES ASSUME Typed, Healthy, [Next]_vars, healthy', Len(passed') = frames'
             PROVE  Well'
  BY DEF Healthy
<1>1. /\ now \in Nat /\ pingAt \in Nat /\ readBy \in Nat /\ pinged \in Nat \cup {None}
      /\ pingAt <= now + PingPeriod
  BY Numbers DEF Typed, Ticking
<1>2. healthy /\ Well /\ ~Refuse
  BY WellBefore
<1>3. /\ sock = "open" /\ reader \in {"reading", "offering"} /\ writer # "done"
      /\ now <= pingAt + PingDelay /\ WriteInTime /\ ReadInTime
  BY <1>2 DEF Well
<1>4. now < readBy /\ (Writing => ~MayFail)
  BY <1>2, WellInTime
<1>5. CASE Tick
  <2>1. /\ now' = now + 1 /\ InTime
        /\ UNCHANGED <<reader, writer, began, deadline, readBy, pingAt, pinged, sock>>
    BY <1>5 DEF Tick
  <2>2. now' <= pingAt' + PingDelay
    BY <1>1, <1>3, <2>1, Periods DEF InTime
  <2>3. WriteInTime'
    <3> SUFFICES ASSUME Writing'
                 PROVE  /\ began' \in Nat /\ deadline' = began' + WriteDeadline
                        /\ now' <= began' + WriteDelay
      BY DEF WriteInTime
    <3>1. Writing
      BY <2>1 DEF Writing
    <3> QED
      BY <1>1, <1>3, <2>1, <3>1, Periods DEF WriteInTime, InTime
  <2>4. ReadInTime'
    BY <1>1, <1>3, <2>1, Periods DEF ReadInTime, InTime
  <2> QED
    BY <1>3, <2>1, <2>2, <2>3, <2>4 DEF Well
<1>6. CASE Read \/ HubTakes
  <2>1. /\ reader' \in {"reading", "offering"}
        /\ UNCHANGED <<now, writer, began, deadline, readBy, pingAt, pinged, sock>>
    BY <1>6 DEF Read, HubTakes
  <2> QED
    BY <1>3, <2>1 DEF Well, WriteInTime, ReadInTime, Writing
<1>7. CASE Pong
  <2>1. /\ pinged' = None /\ readBy' = now + ReadDeadline
        /\ UNCHANGED <<now, reader, writer, began, deadline, pingAt, sock>>
    BY <1>7 DEF Pong
  <2>2. ReadInTime'
    BY <1>1, <2>1, Periods DEF ReadInTime
  <2> QED
    BY <1>3, <2>1, <2>2 DEF Well, WriteInTime, Writing
<1>8. CASE ReadEnd
  BY <1>1, <1>2, <1>3, <1>4, <1>8 DEF ReadEnd
<1>9. CASE BeginWrite
  <2>1. /\ writer = "idle" /\ deadline' = now + WriteDeadline /\ began' = now
        /\ UNCHANGED <<now, reader, readBy, sock>>
    BY <1>9 DEF BeginWrite, NextDeadline
  <2>2. WriteInTime'
    BY <1>1, <2>1, Periods DEF WriteInTime
  <2>3. CASE writer' = "event" /\ UNCHANGED <<pingAt, pinged>>
    BY <1>3, <2>1, <2>2, <2>3 DEF Well, ReadInTime
  <2>4. CASE /\ now >= pingAt /\ pingAt' \in NextTicks /\ writer' = "ping"
             /\ pinged' = (IF pinged = None THEN now ELSE pinged)
    <3>1. pingAt' \in now .. now + PingPeriod
      BY <2>4, TickIsNext
    <3>2. now' <= pingAt' + PingDelay
      <4>1. now' = now /\ pingAt' \in Nat /\ now <= pingAt'
        BY <1>1, <2>1, <3>1, Periods
      <4>2. PingDelay \in Nat
        BY Periods
      <4>3. \A t, n, d \in Nat : t <= n => t <= n + d
        OBVIOUS
      <4> QED
        BY <1>1, <4>1, <4>2, <4>3, Zenon
    <3>3. ReadInTime'
      <4>1. CASE pinged = None
        BY <1>1, <1>3, <2>1, <2>4, <4>1, Periods DEF ReadInTime
      <4>2. CASE pinged # None
        BY <1>3, <2>1, <2>4, <4>2 DEF ReadInTime
      <4> QED
        BY <4>1, <4>2
    <3> QED
      BY <1>3, <2>1, <2>2, <2>4, <3>2, <3>3 DEF Well
  <2> QED
    BY <1>9, <2>3, <2>4 DEF BeginWrite
<1>10. CASE EndWrite
  <2>1. /\ writer' = "idle" /\ UNCHANGED sock
        /\ UNCHANGED <<now, reader, began, deadline, readBy, pingAt, pinged>>
    BY <1>4, <1>10 DEF EndWrite
  <2>2. WriteInTime'
    BY <2>1 DEF WriteInTime, Writing
  <2> QED
    BY <1>3, <2>1, <2>2 DEF Well, ReadInTime
<1>11. CASE EndRefuse \/ Collide
  BY <1>3, <1>11 DEF EndRefuse, Collide
<1>12. CASE UNCHANGED vars
  BY <1>3, <1>12 DEF vars, Well, WriteInTime, ReadInTime, Writing
<1>13. CASE GoAway
  BY <1>13 DEF GoAway
<1> QED
  BY <1>2, <1>5, <1>6, <1>7, <1>8, <1>9, <1>10, <1>11, <1>12, <1>13 DEF Next

LEMMA AlwaysHealthy == Spec => [](Typed /\ Healthy)
<1>1. Init => Typed /\ Healthy
  BY TypedFromStart, HealthyFromStart
<1>2. (Typed /\ Healthy) /\ [Next]_vars => (Typed /\ Healthy)'
  BY TypedStays, HealthyStaysSo
<1> QED
  BY <1>1, <1>2, PTL DEF Spec

-----------------------------------------------------------------------------
(* The theorems.                                                            *)

(* Every variable keeps its type, and deadlines stay times of the clock.    *)
THEOREM TypeCorrect == Spec => []TypeOK
<1>1. Typed => TypeOK
  BY DEF Typed
<1> QED
  BY <1>1, AlwaysTyped, PTL

(* The fixed windows of the limiter let no more than two windows' frames    *)
(* pass in any RateLimitWindow.                                             *)
THEOREM TwoWindowsAtMost == Spec => []TwoWindows
<1>1. Typed /\ Windowed => TwoWindows
  BY AtMostTwo DEF Typed
<1> QED
  BY <1>1, AlwaysWindowed, PTL

(* ReadPump refuses a frame only if a whole window's frames passed in the   *)
(* window before it.                                                        *)
THEOREM RefusalsEarned == Spec => RefusedForCause
<1>1. ASSUME Typed, Windowed, [Next]_vars
      PROVE  [reader' = "writing" /\ reader = "reading" =>
                Cardinality({i \in DOMAIN passed : passed[i] >= now - RateLimitWindow}) >= RateLimitCount]_vars
  <2> SUFFICES ASSUME reader' = "writing", reader = "reading"
               PROVE  Cardinality({i \in DOMAIN passed : passed[i] >= now - RateLimitWindow})
                        >= RateLimitCount
    OBVIOUS
  <2>1. Refuse
    BY <1>1 DEF Next, Tick, GoAway, Read, HubTakes, Pong, ReadEnd, BeginWrite, EndWrite, EndRefuse,
                Collide, vars
  <2>2. ~Allowed
    BY <2>1 DEF Refuse
  <2> QED
    BY <1>1, <2>2, RefusalHasCause DEF Typed
<1> QED
  BY <1>1, AlwaysWindowed, PTL DEF Spec, RefusedForCause

(* Pings come often enough for the read deadline, and every write gets a    *)
(* deadline of its own: a connection that is well, of which no frame was    *)
(* refused, is never closed by the pumps, for every delay of the pings, the *)
(* writes and the pongs that the periods and deadlines leave room for.      *)
THEOREM HealthyConnections == Spec => []HealthyStays
<1>1. Typed /\ Healthy => HealthyStays
  BY DEF Healthy, Well, HealthyStays
<1> QED
  BY <1>1, AlwaysHealthy, PTL
=============================================================================
