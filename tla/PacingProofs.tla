----------------------------- MODULE PacingProofs -----------------------------
(***************************************************************************)
(* For every unit, frame rate, horizon and number of outages: a paced pump   *)
(* is never ahead of the clock, and behind it by its outages only.           *)
(***************************************************************************)
EXTENDS Pacing, TLAPS

\* What a state keeps of its types without the bounds.
Ranges == /\ now \in Nat /\ idx \in Nat /\ given \in Nat
          /\ num \in Nums /\ last \in Nums \cup {0}

\* The history agrees with frame_idx as long as all frames are alike.
Counted == /\ last = 0 => idx = 0 /\ given = 0
           /\ steady => given = idx * last
           /\ last # 0 => idx > 0

\* The last frame pushed was due.
LastWasDue == pump = "paced" /\ last # 0 => due(idx - 1, last) <= now

PacingInv == Ranges /\ Counted /\ LastWasDue

\* Rounding down loses less than one.
LEMMA DivBound ==
  ASSUME NEW a \in Nat, NEW d \in Nat \ {0}, NEW n \in Nat, a \div d <= n
  PROVE  a < (n + 1) * d
<1> DEFINE q == a \div d
<1>1. q \in Int /\ q * d <= a /\ a < q * d + d
  BY SMT
<1>2. q + 1 <= n + 1
  BY <1>1, SMT
<1>3. (q + 1) * d <= (n + 1) * d
  BY <1>1, <1>2, SMT
<1>4. QED
  BY <1>1, <1>3, SMT

\* It holds at the start.
LEMMA InitPacing == Init => PacingInv
  BY PacingAssumption DEF Init, PacingInv, Ranges, Counted, LastWasDue

\* due() is a number.
LEMMA DueIsNat ==
  ASSUME NEW k \in Nat, NEW n \in Nums
  PROVE  due(k, n) \in Int
<1>1. k * Unit * n \in Nat /\ Den \in Nat \ {0}
  BY PacingAssumption, SMT
<1>2. QED
  BY <1>1, SMT DEF due

\* Every step keeps it: only Push and the clock touch it.
LEMMA NextPacing == PacingInv /\ [Next]_vars => PacingInv'
<1> SUFFICES ASSUME PacingInv, [Next]_vars PROVE PacingInv'
  OBVIOUS
<1> USE DEF PacingInv
<1>1. CASE Push
  <2>1. idx' = idx + 1 /\ given' = given + num /\ last' = num /\ num' \in Nums
        /\ now' = now /\ pump' = pump /\ steady' = (steady /\ last \in {0, num})
    BY <1>1 DEF Push, Ranges
  <2>2. num \in Nat \ {0}
    BY PacingAssumption DEF Ranges
  <2>3. Ranges'
    BY <2>1, <2>2 DEF Ranges
  <2>4. steady' => given' = idx' * last'
    <3>1. CASE last = 0
      BY <2>1, <2>2, <3>1, SMT DEF Counted, Ranges
    <3>2. CASE last = num /\ steady
      <4>1. given = idx * num
        BY <3>2 DEF Counted
      <4>2. idx * num + num = (idx + 1) * num
        BY <2>2, SMT DEF Ranges
      <4>3. QED
        BY <2>1, <4>1, <4>2
    <3>3. QED
      BY <2>1, <3>1, <3>2
  <2>5. Counted'
    BY <2>1, <2>2, <2>4, SMT DEF Counted, Ranges
  <2>6. LastWasDue'
    <3>1. pump = "paced" => due(idx, num) <= now
      BY <1>1, DueIsNat DEF Push, Pushes, Waits, Ranges
    <3>2. idx' - 1 = idx
      BY <2>1 DEF Ranges
    <3>3. QED
      BY <2>1, <3>1, <3>2 DEF LastWasDue, due
  <2>7. QED
    BY <2>3, <2>5, <2>6
<1>2. CASE Tick
  <2>1. now' = now + 1 /\ UNCHANGED <<pump, num, idx, given, last, steady>>
    BY <1>2 DEF Tick
  <2>2. Ranges' /\ Counted'
    BY <2>1 DEF Ranges, Counted
  <2>3. LastWasDue'
    <3>1. CASE pump = "paced" /\ last # 0
      <4>1. due(idx - 1, last) \in Int
        BY <3>1, DueIsNat DEF Ranges, Counted
      <4>2. QED
        BY <2>1, <3>1, <4>1, SMT DEF LastWasDue, Ranges, due
    <3>2. QED
      BY <2>1, <3>1 DEF LastWasDue
  <2>4. QED
    BY <2>2, <2>3
<1>3. CASE UNCHANGED <<pump, now, num, idx, given, last, steady>>
  BY <1>3 DEF Ranges, Counted, LastWasDue, due
<1>4. QED
  BY <1>1, <1>2, <1>3 DEF Next, Outage, Respawn, Over, vars

\* What the invariant says of the time that was pushed.
LEMMA DueMeansNotAhead == PacingInv => NeverAhead
<1> SUFFICES ASSUME PacingInv, pump = "paced", steady
             PROVE  (given - last) * Unit < (now + 1) * Den
  BY DEF NeverAhead
<1> USE PacingAssumption
<1>1. CASE last = 0
  BY <1>1, SMT DEF PacingInv, Counted, Ranges
<1>2. CASE last # 0
  <2>1. /\ last \in Nat \ {0} /\ idx \in Nat \ {0} /\ given = idx * last
        /\ now \in Nat /\ Unit \in Nat /\ Den \in Nat \ {0}
    BY <1>2 DEF PacingInv, Counted, Ranges
  <2>2. (idx - 1) * Unit * last \in Nat
    BY <2>1, SMT
  <2>3. ((idx - 1) * Unit * last) \div Den <= now
    BY <1>2 DEF PacingInv, LastWasDue, due
  <2>4. (idx - 1) * Unit * last < (now + 1) * Den
    BY <2>1, <2>2, <2>3, DivBound
  <2>5. (given - last) * Unit = (idx - 1) * Unit * last
    BY <2>1, SMT
  <2>6. QED
    BY <2>4, <2>5
<1>3. QED
  BY <1>1, <1>2

\* A paced pump whose frames are alike is never ahead of the clock by more than
\* the frame it pushed last, whatever the frame rate, the outages and the
\* respawns (main.rs:921-930 and its seven siblings).
THEOREM PacedIsNeverAhead == Spec => []NeverAhead
<1>1. Spec => []PacingInv
  BY InitPacing, NextPacing, PTL DEF Spec
<1>2. QED
  BY <1>1, DueMeansNotAhead, PTL
-----------------------------------------------------------------------------
(* Types *)

\* The clock stops at the horizon and the outages at their bound; a source is
\* away no longer than the clock has run.
LEMMA TypeStep == TypeOK /\ [Next]_vars => TypeOK'
<1> SUFFICES ASSUME TypeOK, [Next]_vars PROVE TypeOK'
  OBVIOUS
<1> USE PacingAssumption
<1>1. CASE Push
  <2>1. /\ idx' = idx + 1 /\ given' = given + num /\ last' = num /\ num' \in Nums
        /\ UNCHANGED <<pump, live, now, up, played, away, outages>>
    BY <1>1 DEF Push, TypeOK
  <2>2. steady' \in BOOLEAN
    BY <1>1, Zenon DEF Push
  <2>3. ready' \in Nat
    BY <1>1 DEF Push, Pushes, Available, TypeOK
  <2>4. QED
    BY <2>1, <2>2, <2>3 DEF TypeOK
<1>2. CASE Tick
  <2>1. played' \in {played, played + 1} /\ now' \in 0 .. Horizon /\ now' = now + 1
    BY <1>2 DEF Tick, TypeOK
  <2>2. ready' \in Nat
    BY <1>2, <2>1 DEF Tick, TypeOK
  <2>3. away' \in 0 .. now'
    BY <1>2, <2>1 DEF Tick, TypeOK
  <2>4. QED
    BY <1>2, <2>1, <2>2, <2>3 DEF Tick, TypeOK
<1>3. CASE Outage
  <2>1. outages' \in 0 .. MaxOutages /\ ready' \in Nat
    BY <1>3 DEF Outage, TypeOK
  <2>2. up' \in BOOLEAN
    BY <1>3, Zenon DEF Outage
  <2>3. QED
    BY <1>3, <2>1, <2>2 DEF Outage, TypeOK
<1>4. CASE Respawn
  BY <1>4 DEF Respawn, TypeOK
<1>5. CASE UNCHANGED vars
  BY <1>5 DEF vars, TypeOK
<1>6. QED
  BY <1>1, <1>2, <1>3, <1>4, <1>5 DEF Next, Over

\* Every variable stays within what the code's counters and the bounds allow.
THEOREM TypeCorrect == Spec => []TypeOK
<1>1. Init => TypeOK
  BY PacingAssumption DEF Init, TypeOK
<1>2. QED
  BY <1>1, TypeStep, PTL DEF Spec
-----------------------------------------------------------------------------
(* The live source *)

\* What a frame of this source is long, times Den.
Long == num * Unit

\* A live source plays in step with the clock: the frames played are those due.
InStep == /\ played * Long < (now + 1) * Den
          /\ (now + 1) * Den <= (played + 1) * Long

\* At most one frame waits, and that one was played just now: the clock does not
\* go on before it is pushed.
OneWaits == /\ ready \in {0, 1}
            /\ ~up => ready = 0
            /\ ready = 1 => now * Den <= played * Long

\* The frames played and never delivered were played while the source was away,
\* but for one frame and one rounding per outage.  Down, the same is said of the
\* time for which the source was up, because the outage is not over.
MissedInv == /\ idx + ready <= played
             /\ up => (played - idx - ready) * Long
                        < outages * (Long + Den) + (away + 1) * Den
             /\ ~up => (now - away) * Den < idx * Long + outages * (Long + Den)

LiveInv == live => /\ steady /\ last \in {0, num}
                   /\ InStep /\ OneWaits /\ MissedInv

\* The other half of rounding down.
LEMMA DivAbove ==
  ASSUME NEW a \in Nat, NEW d \in Nat \ {0}, NEW n \in Nat, n < a \div d
  PROVE  (n + 1) * d <= a
<1> DEFINE q == a \div d
<1>1. q \in Int /\ q * d <= a
  BY SMT
<1>2. (n + 1) * d <= q * d
  BY <1>1, SMT
<1>3. QED
  BY <1>1, <1>2, SMT

\* A frame is due by now, or not, in terms of products.
LEMMA DueBounds ==
  ASSUME NEW k \in Nat, NEW n \in Nat, TypeOK
  PROVE  /\ Long \in Nat \ {0} /\ Den \in Nat \ {0} /\ Den <= Long
         /\ due(k, num) <= n => k * Long < (n + 1) * Den
         /\ n < due(k, num) => (n + 1) * Den <= k * Long
         /\ due(k, num) \in Int
<1>1. num \in Nat \ {0} /\ Unit \in Nat \ {0} /\ Den \in Nat \ {0} /\ Unit * num >= Den
  BY PacingAssumption DEF TypeOK
<1>2. Long \in Nat \ {0} /\ Den <= Long
  BY <1>1, SMT DEF Long
<1>3. k * Unit * num = k * Long /\ k * Long \in Nat
  BY <1>1, SMT DEF Long
<1>4. due(k, num) = (k * Long) \div Den
  BY <1>3 DEF due
<1>5. due(k, num) <= n => k * Long < (n + 1) * Den
  BY <1>1, <1>3, <1>4, DivBound
<1>6. n < due(k, num) => (n + 1) * Den <= k * Long
  BY <1>1, <1>3, <1>4, DivAbove
<1>7. due(k, num) \in Int
  BY <1>1, <1>3, <1>4, SMT
<1>8. QED
  BY <1>1, <1>2, <1>5, <1>6, <1>7

\* Frames all alike: what was pushed is frame_idx times their length.
LEMMA GivenIsCount ==
  ASSUME TypeOK, Counted, steady, last \in {0, num}
  PROVE  given * Unit = idx * Long
<1>1. num \in Nat \ {0} /\ Unit \in Nat /\ idx \in Nat
  BY PacingAssumption DEF TypeOK
<1>2. given = idx * num
  BY <1>1, SMT DEF Counted
<1>3. QED
  BY <1>1, <1>2, SMT DEF Long

\* When the clock ticks, nothing of a live source waits.
LEMMA NothingWaits ==
  ASSUME TypeOK, Counted, LiveInv, live, ~Pushes
  PROVE  ready = 0
<1> SUFFICES ASSUME up, ready = 1 PROVE FALSE
  BY DEF LiveInv, OneWaits
<1> DEFINE L == Long
<1>1. idx \in Nat /\ played \in Nat /\ now \in Nat /\ Horizon \in Nat /\ now <= Horizon
  BY PacingAssumption DEF TypeOK
<1>2. L \in Nat \ {0} /\ Den \in Nat \ {0} /\ Den <= L
  BY <1>1, DueBounds
<1>3. played * L < (now + 1) * Den /\ idx + 1 <= played
  BY DEF LiveInv, InStep, MissedInv
<1> HIDE DEF L
<1>4. (idx + 1) * L <= played * L
  BY <1>1, <1>2, <1>3, SMT
<1>5. idx * L < now * Den
  BY <1>1, <1>2, <1>3, <1>4, SMT
<1>6. ~(now < due(idx, num))
  <2>1. now < due(idx, num) => (now + 1) * Den <= idx * L
    BY <1>1, DueBounds DEF L
  <2>2. QED
    BY <1>1, <1>2, <1>5, <2>1, SMT
<1>7. given * Unit <= Horizon * Den
  <2>1. given * Unit = idx * L
    BY GivenIsCount DEF LiveInv, L
  <2>2. now * Den <= Horizon * Den
    BY <1>1, <1>2, SMT
  <2>3. QED
    BY <1>1, <1>2, <1>5, <2>1, <2>2, SMT
<1>8. QED
  BY <1>6, <1>7 DEF Pushes, Waits, Available
LEMMA PushLive ==
  ASSUME TypeOK, LiveInv, live, Push
  PROVE  LiveInv'
<1>1. /\ ready = 1 /\ ready' = 0 /\ idx' = idx + 1 /\ num' = num /\ last' = num
      /\ UNCHANGED <<live, now, up, played, away, outages>>
    BY DEF Push, Pushes, Available, LiveInv, OneWaits, TypeOK
<1>2. steady' /\ up
  BY DEF Push, Pushes, Available, LiveInv
<1>3. Long' = Long
  BY <1>1 DEF Long
<1>4. InStep' /\ OneWaits'
  BY <1>1, <1>2, <1>3 DEF LiveInv, InStep, OneWaits
<1>5. MissedInv'
  <2>1. idx' + ready' = idx + ready /\ played' - idx' - ready' = played - idx - ready
    BY <1>1 DEF TypeOK
  <2>2. QED
    BY <1>1, <1>2, <1>3, <2>1 DEF LiveInv, MissedInv
<1>6. QED
  BY <1>1, <1>2, <1>4, <1>5 DEF LiveInv

LEMMA TickLive ==
  ASSUME TypeOK, Counted, LiveInv, live, Tick
  PROVE  LiveInv'
<1> DEFINE L == Long
           missed == played - idx - ready
<1>1. ready = 0
  BY NothingWaits DEF Tick
<1>2. /\ now' = now + 1 /\ away' = IF up THEN away ELSE away + 1
      /\ UNCHANGED <<live, up, num, idx, last, steady, outages>>
      /\ played' = IF due(played + 1, num) <= now + 1 THEN played + 1 ELSE played
      /\ ready' = IF up THEN played' - played ELSE 0
  BY <1>1 DEF Tick, TypeOK
<1>3. /\ idx \in Nat /\ played \in Nat /\ now \in Nat /\ outages \in Nat /\ away \in Nat
      /\ away <= now
  BY PacingAssumption DEF TypeOK
<1>4. L \in Nat \ {0} /\ Den \in Nat \ {0} /\ Den <= L /\ L' = L
  BY <1>2, <1>3, DueBounds DEF Long
<1>5. /\ due(played + 1, num) <= now + 1 => (played + 1) * L < (now + 2) * Den
      /\ now + 1 < due(played + 1, num) => (now + 2) * Den <= (played + 1) * L
      /\ due(played + 1, num) \in Int
  <2>1. now + 1 + 1 = now + 2 /\ now + 1 \in Nat /\ played + 1 \in Nat
    BY <1>3
  <2>2. QED
    BY <2>1, DueBounds
<1>6. /\ played * L < (now + 1) * Den /\ (now + 1) * Den <= (played + 1) * L
      /\ idx <= played
      /\ up => (played - idx) * L < outages * (L + Den) + (away + 1) * Den
      /\ ~up => (now - away) * Den < idx * L + outages * (L + Den)
  BY <1>1, <1>3 DEF LiveInv, InStep, MissedInv
<1>7. played' \in {played, played + 1}
      /\ (played' = played + 1 => (played + 1) * L < (now + 2) * Den)
      /\ (played' = played => (now + 2) * Den <= (played + 1) * L)
  BY <1>2, <1>3, <1>5
<1> HIDE DEF L
<1>8. played' * L < (now' + 1) * Den /\ (now' + 1) * Den <= (played' + 1) * L
  <2>1. CASE played' = played
    BY <1>2, <1>3, <1>4, <1>6, <1>7, <2>1, SMT
  <2>2. CASE played' = played + 1
    BY <1>2, <1>3, <1>4, <1>6, <1>7, <2>2, SMT
  <2>3. QED
    BY <1>7, <2>1, <2>2
<1>9. ready' \in {0, 1} /\ (ready' = 1 => now' * Den <= played' * L)
  BY <1>2, <1>3, <1>4, <1>6, <1>7, SMT
<1>10. /\ idx' + ready' <= played'
       /\ up => played' - idx' - ready' = played - idx
       /\ ~up => now' - away' = now - away
  BY <1>2, <1>3, <1>6, <1>7
<1>11. InStep' /\ OneWaits'
  BY <1>2, <1>4, <1>8, <1>9 DEF InStep, OneWaits, L
<1>12. MissedInv'
  BY <1>2, <1>4, <1>6, <1>10 DEF MissedInv, L
<1>13. QED
  BY <1>2, <1>11, <1>12 DEF LiveInv

\* Going down, the frame that waits is missed too.
LEMMA OutageLive ==
  ASSUME TypeOK, LiveInv, live, Outage
  PROVE  LiveInv'
<1> DEFINE L == Long
<1>1. /\ up /\ ~up' /\ outages' = outages + 1 /\ ready' = 0
      /\ UNCHANGED <<live, now, played, num, idx, last, steady, away>>
  BY DEF Outage
<1>2. /\ idx \in Nat /\ played \in Nat /\ now \in Nat /\ outages \in Nat /\ away \in Nat
      /\ ready \in {0, 1}
  BY PacingAssumption DEF TypeOK, LiveInv, OneWaits
<1>3. L \in Nat \ {0} /\ Den \in Nat \ {0} /\ Den <= L /\ L' = L
  BY <1>1, <1>2, DueBounds DEF Long
<1>4. /\ (now + 1) * Den <= (played + 1) * L
      /\ ready = 1 => now * Den <= played * L
      /\ idx + ready <= played
      /\ (played - idx - ready) * L < outages * (L + Den) + (away + 1) * Den
  BY <1>1 DEF LiveInv, InStep, OneWaits, MissedInv
<1> HIDE DEF L
<1>5. (now - away) * Den < idx * L + (outages + 1) * (L + Den)
  <2>1. CASE ready = 0
    BY <1>2, <1>3, <1>4, <2>1, SMT
  <2>2. CASE ready = 1
    BY <1>2, <1>3, <1>4, <2>2, SMT
  <2>3. QED
    BY <1>2, <2>1, <2>2
<1>6. InStep' /\ OneWaits'
  BY <1>1, <1>3 DEF LiveInv, InStep, OneWaits, L
<1>7. MissedInv'
  BY <1>1, <1>2, <1>3, <1>4, <1>5 DEF MissedInv, L
<1>8. QED
  BY <1>1, <1>6, <1>7 DEF LiveInv

LEMMA RespawnLive ==
  ASSUME TypeOK, LiveInv, live, Respawn
  PROVE  LiveInv'
<1> DEFINE L == Long
<1>1. /\ ~up /\ up' /\ ready = 0
      /\ UNCHANGED <<live, now, played, ready, num, idx, last, steady, away, outages>>
  BY DEF Respawn, LiveInv, OneWaits
<1>2. /\ idx \in Nat /\ played \in Nat /\ now \in Nat /\ outages \in Nat /\ away \in Nat
  BY PacingAssumption DEF TypeOK
<1>3. L \in Nat \ {0} /\ Den \in Nat \ {0} /\ L' = L
  BY <1>1, <1>2, DueBounds DEF Long
<1>4. /\ played * L < (now + 1) * Den
      /\ (now - away) * Den < idx * L + outages * (L + Den)
  BY <1>1 DEF LiveInv, InStep, MissedInv
<1> HIDE DEF L
<1>5. (played - idx - ready) * L < outages * (L + Den) + (away + 1) * Den
  BY <1>1, <1>2, <1>3, <1>4, SMT
<1>6. InStep' /\ OneWaits'
  BY <1>1, <1>3 DEF LiveInv, InStep, OneWaits, L
<1>7. MissedInv'
  BY <1>1, <1>3, <1>5 DEF LiveInv, MissedInv, L
<1>8. QED
  BY <1>1, <1>6, <1>7 DEF LiveInv

LEMMA InitLive == Init => LiveInv
<1> SUFFICES ASSUME Init PROVE LiveInv
  OBVIOUS
<1>1. num \in Nat \ {0} /\ Unit * num >= Den /\ Den \in Nat \ {0} /\ Unit \in Nat
  BY PacingAssumption DEF Init
<1>2. Long \in Nat /\ Den <= Long
  BY <1>1, SMT DEF Long
<1>3. InStep /\ OneWaits /\ MissedInv
  BY <1>1, <1>2, SMT DEF Init, InStep, OneWaits, MissedInv
<1>4. QED
  BY <1>3 DEF Init, LiveInv

LEMMA StepLive == TypeOK /\ PacingInv /\ LiveInv /\ [Next]_vars => LiveInv'
<1> SUFFICES ASSUME TypeOK, Counted, LiveInv, live', [Next]_vars PROVE LiveInv'
  BY DEF PacingInv, LiveInv
<1>1. live
  BY DEF Next, Push, Tick, Outage, Respawn, Over, vars
<1>2. CASE UNCHANGED vars
  BY <1>2 DEF vars, LiveInv, InStep, OneWaits, MissedInv, Long
<1>3. QED
  BY <1>1, <1>2, PushLive, TickLive, OutageLive, RespawnLive DEF Next, Over

\* A source that is up and has nothing to push has given all but what it missed.
LEMMA NotBehind == TypeOK /\ PacingInv /\ LiveInv => KeepsUp
<1> SUFFICES ASSUME TypeOK, Counted, LiveInv, up, ~Pushes, pump = "paced", steady,
                    last \in {0, num}
             PROVE  (now - away) * Den < (given + (1 + outages) * num) * Unit + outages * Den
  BY DEF PacingInv, KeepsUp
<1> DEFINE L == Long
<1>1. /\ idx \in Nat /\ played \in Nat /\ now \in Nat /\ outages \in Nat /\ away \in Nat
      /\ away <= now /\ now <= Horizon /\ Horizon \in Nat /\ given \in Nat
      /\ num \in Nat /\ Unit \in Nat
  BY PacingAssumption DEF TypeOK
<1>2. L \in Nat \ {0} /\ Den \in Nat \ {0} /\ Den <= L
  BY <1>1, DueBounds
<1>3. given * Unit = idx * L
  BY GivenIsCount
<1>4. (given + (1 + outages) * num) * Unit = idx * L + (1 + outages) * L
  BY <1>1, <1>3, SMT DEF Long
<1>5. CASE Available
  <2>1. CASE now < due(idx, num)
    <3>1. (now + 1) * Den <= idx * L
      BY <1>1, <2>1, DueBounds
    <3> HIDE DEF L
    <3>2. QED
      BY <1>1, <1>2, <1>4, <3>1, SMT
  <2>2. CASE Horizon * Den < given * Unit
    <3> HIDE DEF L
    <3>1. now * Den <= Horizon * Den
      BY <1>1, <1>2, SMT
    <3>2. QED
      BY <1>1, <1>2, <1>3, <1>4, <2>2, <3>1, SMT
  <2>3. given * Unit \in Int /\ Horizon * Den \in Int
    BY <1>1, <1>2, SMT
  <2>4. QED
    BY <1>5, <2>1, <2>2, <2>3 DEF Pushes, Waits
<1>6. CASE ~Available
  <2>1. live /\ ready = 0
    BY <1>6 DEF Available, LiveInv, OneWaits
  <2>2. /\ (now + 1) * Den <= (played + 1) * L
        /\ (played - idx) * L < outages * (L + Den) + (away + 1) * Den
    BY <1>1, <2>1 DEF LiveInv, InStep, MissedInv
  <2> HIDE DEF L
  <2>3. QED
    BY <1>1, <1>2, <1>4, <2>2, SMT
<1>7. QED
  BY <1>5, <1>6

\* When a paced pump has nothing to push, what it pushed plays as long as the
\* clock has run, but for the time the source was away, and per outage one frame
\* and one rounding: no respawn makes a track drift by more, however many there
\* are (session_start and frame_idx survive respawn, main.rs:527-530).
THEOREM PacedKeepsUp == Spec => []KeepsUp
<1>1. Spec => []PacingInv
  BY InitPacing, NextPacing, PTL DEF Spec
<1>2. Spec => []LiveInv
  BY <1>1, TypeCorrect, InitLive, StepLive, PTL DEF Spec
<1>3. QED
  BY <1>1, <1>2, TypeCorrect, NotBehind, PTL
=============================================================================
