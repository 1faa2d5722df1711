-------------------------------- MODULE Pacing --------------------------------
(***************************************************************************)
(* When a pump of src/src/main.rs pushes: frame_idx, session_start and       *)
(* sleep_until against a source that stores or plays live, through outages    *)
(* and respawns.  One formula serves them all: frame k is due at             *)
(* k * num / den seconds, num / den being fps_d / fps_n or, for audio, what   *)
(* the frame at hand says of itself, samples_per_channel / sample_rate.       *)
(*                                                                         *)
(* Time is counted in units of which a second has Unit (10^6 in the code)    *)
(* from session_start; the pump is never late on its own account.            *)
(***************************************************************************)
EXTENDS Integers

CONSTANTS Unit,        \* units of a second
          Den,         \* fps_n or sample_rate
          Nums,        \* what a frame may have for fps_d or samples_per_channel
          Horizon,     \* bound: when the clock stops
          MaxOutages   \* bound: how often the source goes away

ASSUME PacingAssumption == /\ Unit \in Nat \ {0} /\ Den \in Nat \ {0}
                           /\ Nums \subseteq Nat \ {0} /\ Nums # {}
                           /\ \A n \in Nums : Unit * n >= Den  \* a unit or more
                           /\ Horizon \in Nat /\ MaxOutages \in Nat

VARIABLES
  pump,       \* "paced", or "pcm", which has no sleep_until
  live,       \* does the source hand out a frame only when it is played
  now,        \* the clock
  up,         \* does the child deliver
  played,     \* frames a live source has played
  ready,      \* those of them that wait to be pushed
  num,        \* num of the next frame
  idx,        \* frame_idx
  given,      \* history: the sum of num over the frames pushed
  last,       \* history: num of the last frame pushed, 0 before
  steady,     \* history: all frames had the same num
  away,       \* history: how long the source was away
  outages     \* history: how often

vars == <<pump, live, now, up, played, ready, num, idx, given, last, steady,
          away, outages>>

TypeOK == /\ pump \in {"paced", "pcm"} /\ live \in BOOLEAN
          /\ now \in 0 .. Horizon
          /\ up \in BOOLEAN
          /\ played \in Nat /\ ready \in Nat
          /\ num \in Nums
          /\ idx \in Nat /\ given \in Nat
          /\ last \in Nums \cup {0}
          /\ steady \in BOOLEAN
          /\ away \in 0 .. now /\ outages \in 0 .. MaxOutages

Init == /\ pump \in {"paced", "pcm"} /\ live \in BOOLEAN
        /\ now = 0
        /\ up = TRUE
        /\ played = 0 /\ ready = 0
        /\ num \in Nums
        /\ idx = 0 /\ given = 0 /\ last = 0 /\ steady = TRUE
        /\ away = 0 /\ outages = 0

\* Mutant: a frame's length is rounded before it is multiplied.
dueMutant(k, n) == k * ((Unit * n) \div Den)

\* session_start + from_micros(frame_idx * 1_000_000 * num / den).
due(k, n) == (k * Unit * n) \div Den

\* There is a frame: a stored source has one whenever it is up.
Available == up /\ (live => ready > 0)

Waits == Available /\ pump = "paced" /\ now < due(idx, num)

\* Bound: what is never due is pushed as long as it is within the horizon.
Pushes == Available /\ ~Waits /\ given * Unit <= Horizon * Den

\* Mutant: a frame is counted when it is parsed and when it is pushed.
PushCountsTwiceMutant ==
  /\ Pushes
  /\ idx' = idx + 2
  /\ given' = given + num
  /\ last' = num
  /\ steady' = (steady /\ last \in {0, num})
  /\ num' \in IF live THEN {num} ELSE Nums
  /\ ready' = IF live THEN ready - 1 ELSE ready
  /\ UNCHANGED <<pump, live, now, up, played, away, outages>>

\* Mutant: a frame is pushed without asking whether all of it is there.
PushPartialMutant ==
  /\ up /\ given * Unit <= Horizon * Den
  /\ idx' = idx + 1
  /\ given' = given + num
  /\ last' = num
  /\ steady' = (steady /\ last \in {0, num})
  /\ num' \in IF live THEN {num} ELSE Nums
  /\ ready' = IF live THEN ready - 1 ELSE ready
  /\ UNCHANGED <<pump, live, now, up, played, away, outages>>

\* sleep_until(target) is over, the frame is pushed, frame_idx counts it.
Push ==
  /\ Pushes
  /\ idx' = idx + 1
  /\ given' = given + num
  /\ last' = num
  /\ steady' = (steady /\ last \in {0, num})
  /\ num' \in IF live THEN {num} ELSE Nums
  /\ ready' = IF live THEN ready - 1 ELSE ready
  /\ UNCHANGED <<pump, live, now, up, played, away, outages>>

\* The clock; a live source plays on, whether its child is there or not.
Tick ==
  /\ ~Pushes
  /\ now < Horizon
  /\ now' = now + 1
  /\ played' = IF live /\ due(played + 1, num) <= now + 1 THEN played + 1 ELSE played
  /\ ready' = IF up THEN ready + (played' - played) ELSE ready
  /\ away' = IF up THEN away ELSE away + 1
  /\ UNCHANGED <<pump, live, up, num, idx, given, last, steady, outages>>

\* The child ends; respawn() is tried, and what was buffered is discarded.
Outage ==
  /\ up
  /\ outages < MaxOutages
  /\ up' = FALSE
  /\ outages' = outages + 1
  /\ ready' = 0
  /\ UNCHANGED <<pump, live, now, played, num, idx, given, last, steady, away>>

\* A new child delivers.  frame_idx and session_start stay as they are.
Respawn ==
  /\ ~up
  /\ up' = TRUE
  /\ UNCHANGED <<pump, live, now, played, ready, num, idx, given, last, steady, away, outages>>

Over == now = Horizon /\ ~Pushes /\ UNCHANGED vars

Next == Push \/ Tick \/ Outage \/ Respawn \/ Over

Spec == Init /\ [][Next]_vars

-----------------------------------------------------------------------------
(* Properties *)

\* main.rs:921-923: the file is not shovelled at the SDK.  Whatever respawns and
\* outages there were, the frames pushed do not play longer than the clock has
\* run, but for the last one.  Two pumps do not keep to it: pump_pcm, and pump_opus
\* once the packets' durations differ, because all before count as the current.
NeverAhead == pump = "paced" /\ steady => (given - last) * Unit < (now + 1) * Den

\* And they do not play shorter than it has run without the outages, but for the
\* frame that is not yet due and, per outage, a frame and the rounding of a due
\* time: what was buffered when the child went, and the wait of the next child
\* for its first frame.  A stored source catches up after an outage, a live one
\* goes on with no more delay than that, so that the two tracks of one input can
\* be apart by their outages and no more.
KeepsUp ==
  up /\ ~Pushes /\ pump = "paced" /\ steady /\ last \in {0, num} =>
    (now - away) * Den < (given + (1 + outages) * num) * Unit + outages * Den
=============================================================================
