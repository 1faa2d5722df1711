----------------------------- MODULE PumpProofs -----------------------------
(***************************************************************************)
(* For every --reconnect-attempts, every content and every size of the      *)
(* reads: a pump respawns ffmpeg no more often in a row than it may, every  *)
(* step of it is a step of PumpContract or none, what it pushes are whole   *)
(* frames in order, and a local input that ends has been pushed.  The last  *)
(* two rest on StreamInv: where in the child's output the buffer stands.    *)
(***************************************************************************)
EXTENDS Pump, SequenceTheorems, FiniteSetTheorems, TLAPS

PcStates == {"read", "drain", "push", "returned"}

\* The history is below the counter, which the code resets in two places; the
\* flag that lets an end of input reset it is only up when the history is 0.
BudgetInv == /\ failures \in Nat /\ failures <= Attempts
             /\ barren \in Nat /\ barren <= failures
             /\ progress \in BOOLEAN
             /\ progress => barren = 0

\* Failed is sent on the way out and at no other time.
SentInv == pc # "returned" => sent = "none"

IInv == /\ pc \in PcStates
        /\ cancelled \in BOOLEAN
        /\ BudgetInv
        /\ SentInv

LEMMA InitIInv == Init => IInv
  <1> SUFFICES ASSUME Init PROVE IInv
    OBVIOUS
  <1>1. pc \in PcStates /\ SentInv
    BY DEF Init, PcStates, SentInv
  <1>2. cancelled \in BOOLEAN /\ progress \in BOOLEAN
    BY Zenon DEF Init
  <1>3. failures = 0 /\ barren = 0
    BY DEF Init
  <1> QED BY <1>1, <1>2, <1>3, PumpAssumption DEF IInv, BudgetInv

LEMMA FailIInv == ASSUME IInv, NEW from, NEW reason, Fail(from, reason)
                  PROVE  IInv'
  BY DEF Fail, Goto, IInv, BudgetInv, SentInv, PcStates, budgetVars

LEMMA ReadIInv == IInv /\ Read => IInv'
  BY DEF Read, IInv, BudgetInv, SentInv, PcStates, budgetVars

LEMMA RespawnIInv == IInv /\ Respawn => IInv'
  <1> SUFFICES ASSUME IInv, Respawn PROVE IInv'
    OBVIOUS
  <1>1. failures + 1 <= Attempts
    BY PumpAssumption DEF IInv, BudgetInv, Respawn, MayRespawn
  <1>2. /\ failures' = (IF progress THEN 0 ELSE failures) + 1
        /\ barren' = OneMore(barren)
        /\ progress' = FALSE
        /\ UNCHANGED <<pc, cancelled, sent>>
    BY DEF Respawn
  <1>3. barren' \in Nat /\ barren' = barren + 1
    BY <1>1, <1>2, PumpAssumption DEF OneMore, IInv, BudgetInv
  <1>4. /\ failures' \in Nat /\ failures' <= Attempts
        /\ barren' <= failures'
    <2>1. CASE progress
      BY <1>1, <1>2, <1>3, <2>1, PumpAssumption DEF IInv, BudgetInv, Respawn, MayRespawn
    <2>2. CASE ~progress
      BY <1>1, <1>2, <1>3, <2>2 DEF IInv, BudgetInv
    <2> QED BY <2>1, <2>2
  <1>5. BudgetInv'
    BY <1>2, <1>3, <1>4 DEF BudgetInv
  <1> QED BY <1>2, <1>5 DEF IInv, SentInv

LEMMA PullIInv == IInv /\ Pull => IInv'
  BY DEF Pull, Goto, IInv, BudgetInv, SentInv, PcStates, budgetVars

LEMMA PreludeIInv == IInv /\ Prelude => IInv'
  BY DEF Prelude, IInv, BudgetInv, SentInv, PcStates, budgetVars

LEMMA NeedMoreIInv == IInv /\ NeedMore => IInv'
  BY DEF NeedMore, Goto, IInv, BudgetInv, SentInv, PcStates, budgetVars

LEMMA PushIInv == IInv /\ Push => IInv'
  <1> SUFFICES ASSUME IInv, Push PROVE IInv'
    OBVIOUS
  <1>1. pc = "push" /\ pc' \in PcStates /\ UNCHANGED <<cancelled, sent>>
    BY DEF Push, Goto, PcStates
  <1>2. progress' = TRUE /\ barren' = 0 /\ failures' \in {0, failures}
    BY DEF Push
  <1>3. BudgetInv'
    BY <1>2, PumpAssumption DEF IInv, BudgetInv
  <1> QED BY <1>1, <1>3 DEF IInv, SentInv

LEMMA CancelIInv == IInv /\ Cancel => IInv'
  BY DEF Cancel, IInv, BudgetInv, SentInv, budgetVars

LEMMA SettleIInv == IInv /\ Settle => IInv'
  BY DEF Settle, IInv, BudgetInv, SentInv

\* Whatever the pump does, its respawns since the last frame stay below the
\* failures it has counted.
LEMMA StepIInv == IInv /\ [Next]_vars => IInv'
  <1> SUFFICES ASSUME IInv, [Next]_vars PROVE IInv'
    OBVIOUS
  <1>1. CASE Stop
    BY <1>1, FailIInv DEF Stop
  <1>2. CASE Reads
    <2>1. CASE Read         BY <2>1, ReadIInv
    <2>2. CASE ReadFails    BY <2>2, FailIInv DEF ReadFails
    <2>3. CASE Respawn      BY <2>3, RespawnIInv
    <2>4. CASE RespawnFails BY <2>4, FailIInv DEF RespawnFails
    <2>5. CASE GiveUp       BY <2>5, FailIInv DEF GiveUp
    <2> QED BY <1>2, <2>1, <2>2, <2>3, <2>4, <2>5 DEF Reads
  <1>3. CASE Drains
    <2>1. CASE Pull         BY <2>1, PullIInv
    <2>2. CASE Prelude      BY <2>2, PreludeIInv
    <2>3. CASE NeedMore     BY <2>3, NeedMoreIInv
    <2>4. CASE ParseFails   BY <2>4, FailIInv DEF ParseFails
    <2>5. CASE Push         BY <2>5, PushIInv
    <2>6. CASE PushFails    BY <2>6, FailIInv DEF PushFails
    <2> QED BY <1>3, <2>1, <2>2, <2>3, <2>4, <2>5, <2>6 DEF Drains
  <1>4. CASE Cancel
    BY <1>4, CancelIInv
  <1>5. CASE Settle
    BY <1>5, SettleIInv
  <1>6. CASE UNCHANGED vars
    BY <1>6 DEF vars, budgetVars, IInv, BudgetInv, SentInv
  <1> QED BY <1>1, <1>2, <1>3, <1>4, <1>5, <1>6 DEF Next, Returned

LEMMA PumpInvariant == Spec => []IInv
  BY InitIInv, StepIInv, PTL DEF Spec

\* No more than --reconnect-attempts respawns of ffmpeg without a frame in
\* between, whatever the source does and whenever the counter is reset.
THEOREM RespawnsAreBounded == Spec => []BarrenBudget
  <1>1. IInv => BarrenBudget
    BY PumpAssumption DEF IInv, BudgetInv, BarrenBudget
  <1> QED BY <1>1, PumpInvariant, PTL

-----------------------------------------------------------------------------
(* Every step is the contract's *)

LEMMA FailStep == ASSUME IInv, NEW from \in {"read", "drain", "push"}, NEW reason,
                         Fail(from, reason)
                  PROVE  /\ ContractState[pc] = ContractState[from]
                         /\ ContractState[pc]' = "return"
                         /\ UNCHANGED cancelled
                         /\ ~(sent # "none")
                         /\ (sent # "none")' <=> reason # "none"
  <1>1. pc = from /\ pc' = "returned" /\ sent' = reason /\ UNCHANGED cancelled
    BY DEF Fail, Goto
  <1> QED BY <1>1 DEF IInv, SentInv, ContractState

LEMMA StopStep == IInv /\ Stop => Contract!Stop
  BY FailStep DEF Stop, Contract!Stop, Contract!Go, ContractState

LEMMA ReadStep == IInv /\ Read => Contract!Read \/ UNCHANGED Contract!contractVars
  BY DEF Read, Contract!Read, Contract!Go, Contract!contractVars, ContractState

LEMMA EndStep == ASSUME IInv, ~cancelled, NEW reason, Fail("read", reason)
                 PROVE  Contract!End
  BY FailStep DEF Contract!End, Contract!Go, ContractState

LEMMA DrainStep == ASSUME IInv, NEW from \in {"drain", "push"}, NEW reason,
                          reason # "none", Fail(from, reason)
                   PROVE  Contract!Drain
  BY FailStep DEF Contract!Drain, Contract!Go, ContractState

\* Drain ends the stretch when the framer wants more, or after an exact frame.
LEMMA PushStep == IInv /\ Push => Contract!Drain \/ UNCHANGED Contract!contractVars
  BY DEF Push, Goto, Contract!Drain, Contract!Go, Contract!contractVars, ContractState

LEMMA NeedMoreStep == IInv /\ NeedMore => Contract!Drain
  BY DEF NeedMore, Goto, Contract!Drain, Contract!Go, ContractState

LEMMA QuietStep == Respawn \/ Pull \/ Prelude \/ Settle \/ UNCHANGED vars
                     => UNCHANGED Contract!contractVars
  BY DEF Respawn, Pull, Prelude, Settle, Goto, vars, Contract!contractVars, ContractState

LEMMA CancelStep == Cancel => Contract!Cancel
  BY DEF Cancel, Contract!Cancel

LEMMA StepRefines == IInv /\ [Next]_vars => [Contract!Next]_(Contract!contractVars)
  <1> SUFFICES ASSUME IInv, [Next]_vars
               PROVE  Contract!Next \/ UNCHANGED Contract!contractVars
    OBVIOUS
  <1> USE DEF Contract!Next
  <1>1. CASE Stop   BY <1>1, StopStep
  <1>2. CASE Reads
    <2>1. CASE Read         BY <2>1, ReadStep
    <2>2. CASE ReadFails    BY <2>2, EndStep DEF ReadFails
    <2>3. CASE Respawn      BY <2>3, QuietStep
    <2>4. CASE RespawnFails BY <2>4, EndStep DEF RespawnFails, Eof
    <2>5. CASE GiveUp       BY <2>5, EndStep DEF GiveUp, Eof
    <2> QED BY <1>2, <2>1, <2>2, <2>3, <2>4, <2>5 DEF Reads
  <1>3. CASE Drains
    <2>1. CASE Pull         BY <2>1, QuietStep
    <2>2. CASE Prelude      BY <2>2, QuietStep
    <2>3. CASE NeedMore     BY <2>3, NeedMoreStep
    <2>4. CASE ParseFails   BY <2>4, DrainStep DEF ParseFails
    <2>5. CASE Push         BY <2>5, PushStep
    <2>6. CASE PushFails    BY <2>6, DrainStep DEF PushFails
    <2> QED BY <1>3, <2>1, <2>2, <2>3, <2>4, <2>5, <2>6 DEF Drains
  <1>4. CASE Cancel BY <1>4, CancelStep
  <1>5. CASE Settle BY <1>5, QuietStep
  <1>6. CASE UNCHANGED vars BY <1>6, QuietStep
  <1> QED BY <1>1, <1>2, <1>3, <1>4, <1>5, <1>6 DEF Next, Returned

\* All eight pumps behave, step for step, as Session.tla takes a pump to behave
\* (the safety part of KeepsContract).
THEOREM PumpKeepsContract ==
  Spec => Contract!Init /\ [][Contract!Next]_(Contract!contractVars)
  <1>1. Init => Contract!Init
    BY DEF Init, Contract!Init, ContractState
  <1> QED BY <1>1, StepRefines, PumpInvariant, PTL DEF Spec
-----------------------------------------------------------------------------
(* The stream: what is in buf, and how much of the child was taken out of it *)

Head0 == IF This.header THEN 1 ELSE 0

LEMMA FramerIs ==
  ASSUME pump \in DOMAIN Pumps
  PROVE  /\ This.framing \in {"nextStart", "length", "pages", "exact"}
         /\ This.framing \in {"nextStart", "exact"} => ~This.header
         /\ This.framing = "pages" => This.header
         /\ Head0 \in {0, 1} /\ (This.header => Head0 = 1) /\ (~This.header => Head0 = 0)
  BY DEF This, Pumps, pump_h264, pump_hevc, pump_ivf, pump_aac, pump_opus, pump_g711,
         pump_yuv, pump_pcm, Framer, Head0

\* The child's units one by one: its header, then the halves of its frames.
LEMMA OutputIs ==
  ASSUME pump \in DOMAIN Pumps, child \in {0, 1}
  PROVE  /\ Output \in Seq(Unit)
         /\ Len(Output) = Head0 + 2 * Frames
         /\ \A k \in 0 .. Frames - 1 :
              /\ Output[Head0 + 2 * k + 1] = <<child, k + 1, 1>>
              /\ Output[Head0 + 2 * k + 2] = <<child, k + 1, 2>>
         /\ This.header => Output[1] = Header
         /\ ~This.header => \A i \in 1 .. Len(Output) : Output[i][3] = 2 - (i % 2)
  <1> DEFINE half(i) == <<child, (i + 1) \div 2, 2 - (i % 2)>>
             body == [i \in 1 .. 2 * Frames |-> half(i)]
             pre  == IF This.header THEN <<Header>> ELSE <<>>
  <1>1. Frames \in Nat
    BY PumpAssumption
  <1>2. \A i \in 1 .. 2 * Frames : half(i) \in Unit
    BY <1>1 DEF Unit
  <1> HIDE DEF half
  <1>3. body \in Seq(Unit) /\ Len(body) = 2 * Frames /\ \A i \in 1 .. 2 * Frames : body[i] = half(i)
    <2>1. body \in [1 .. 2 * Frames -> Unit] /\ 2 * Frames \in Nat
          /\ \A i \in 1 .. 2 * Frames : body[i] = half(i)
      BY <1>1, <1>2
    <2> HIDE DEF body
    <2>2. body \in Seq(Unit)
      BY <2>1, SeqDef
    <2>3. Len(body) = 2 * Frames
      <3>1. DOMAIN body = 1 .. Len(body) /\ Len(body) \in Nat
        BY <2>2, LenProperties
      <3> QED BY <2>1, <3>1
    <2> QED BY <2>1, <2>2, <2>3
  <1>4. pre \in Seq(Unit) /\ Len(pre) = Head0 /\ (This.header => pre[1] = Header)
    <2>1. Header \in Unit
      BY <1>1 DEF Header, Unit
    <2>2. CASE This.header
      <3>1. pre = <<Header>> /\ Head0 = 1
        BY <2>2 DEF Head0
      <3> QED BY <2>1, <3>1
    <2>3. CASE ~This.header
      <3>1. pre = <<>> /\ Head0 = 0
        BY <2>3 DEF Head0
      <3> QED BY <2>3, <3>1
    <2> QED BY <2>2, <2>3
  <1>5. Output = pre \o body
    BY DEF Output, half
  <1>6. Head0 \in {0, 1} /\ (This.header => Head0 = 1) /\ (~This.header => Head0 = 0)
    BY FramerIs
  <1> HIDE DEF body, pre
  <1>7. /\ Output \in Seq(Unit) /\ Len(Output) = Head0 + 2 * Frames
        /\ \A i \in 1 .. Head0 + 2 * Frames :
             Output[i] = IF i <= Head0 THEN pre[i] ELSE body[i - Head0]
    <2>1. /\ pre \o body \in Seq(Unit) /\ Len(pre \o body) = Len(pre) + Len(body)
          /\ \A i \in 1 .. Len(pre) + Len(body) :
               (pre \o body)[i] = IF i <= Len(pre) THEN pre[i] ELSE body[i - Len(pre)]
      BY <1>3, <1>4, ConcatProperties
    <2> QED BY <1>3, <1>4, <1>5, <2>1
  <1>8. \A k \in 0 .. Frames - 1 :
              /\ Output[Head0 + 2 * k + 1] = <<child, k + 1, 1>>
              /\ Output[Head0 + 2 * k + 2] = <<child, k + 1, 2>>
    <2> TAKE k \in 0 .. Frames - 1
    <2>1. /\ Output[Head0 + 2 * k + 1] = half(2 * k + 1)
          /\ Output[Head0 + 2 * k + 2] = half(2 * k + 2)
      <3> DEFINE i1 == Head0 + 2 * k + 1
                 i2 == Head0 + 2 * k + 2
      <3>1. /\ i1 \in 1 .. Head0 + 2 * Frames /\ ~(i1 <= Head0) /\ i1 - Head0 = 2 * k + 1
            /\ i2 \in 1 .. Head0 + 2 * Frames /\ ~(i2 <= Head0) /\ i2 - Head0 = 2 * k + 2
        BY <1>1, <1>6
      <3>2. 2 * k + 1 \in 1 .. 2 * Frames /\ 2 * k + 2 \in 1 .. 2 * Frames
        BY <1>1
      <3> HIDE DEF i1, i2
      <3>3. Output[i1] = body[2 * k + 1] /\ Output[i2] = body[2 * k + 2]
        BY <1>7, <3>1
      <3> QED BY <1>3, <3>2, <3>3 DEF i1, i2
    <2>2. half(2 * k + 1) = <<child, k + 1, 1>> /\ half(2 * k + 2) = <<child, k + 1, 2>>
      BY <1>1 DEF half
    <2> QED BY <2>1, <2>2
  <1>9. This.header => Output[1] = Header
    BY <1>1, <1>4, <1>6, <1>7
  <1>10. ASSUME ~This.header PROVE \A i \in 1 .. Len(Output) : Output[i][3] = 2 - (i % 2)
    <2> TAKE i \in 1 .. Len(Output)
    <2>0. Head0 = 0
      BY <1>6, <1>10, Zenon
    <2>1. i \in 1 .. 2 * Frames
      BY <1>1, <1>7, <2>0
    <2>2. Output[i] = body[i - 0] /\ i - 0 = i
      BY <1>1, <1>7, <2>0, <2>1
    <2> QED BY <1>3, <2>1, <2>2 DEF half
  <1> QED BY <1>7, <1>8, <1>9, <1>10

\* buf is what was read last of the child's output, without a gap.
Window == /\ at \in 0 .. Head0 + 2 * Frames /\ Len(buf) <= at
          /\ \A i \in 1 .. Len(buf) : buf[i] = Output[at - Len(buf) + i]

\* k frames have been taken out of buf, and nothing else but the header, which
\* IvfReader keeps and OpusDemux drops, and half a packet that OpusDemux carries.
Taken(k) ==
  \/ k = 0 /\ at = Len(buf) /\ reader = <<>>
  \/ /\ at - Len(buf) = Head0 + 2 * k
     /\ reader = IF This.framing = "length" /\ This.header THEN <<Header>> ELSE <<>>
  \/ /\ This.framing = "pages"
     /\ at - Len(buf) = 2 + 2 * k
     /\ reader = <<<<child, k + 1, 1>>>>

NextFrame == <<<<child, out + 1, 1>>, <<child, out + 1, 2>>>>

\* No framer could take another frame out of what is left.
Rest == /\ This.framing = "nextStart" => Len(buf) <= 2
        /\ This.framing \in {"length", "exact"} => Len(buf) <= 1
        /\ This.framing = "length" /\ This.header /\ reader = <<>> => buf = <<>>
        /\ This.framing = "pages" => buf = <<>>

PulledInv == /\ pc \in {"read", "drain"} => Taken(out)
             /\ pc = "push" => Taken(out + 1) /\ out < Frames /\ frame = NextFrame
RestInv   == /\ pc = "read" => Rest
             /\ pc = "returned" /\ sent = "none" /\ ~cancelled => Rest /\ Taken(out)
\* Frames read exactly go past the framer.
ExactInv  == This.framing = "exact" => pc # "drain" /\ (pc = "push" => buf = <<>>)
\* The start of an access unit is left behind by the one before.
StartInv  == This.framing = "nextStart" /\ at > 0 => buf # <<>>

StreamInv == Window /\ PulledInv /\ RestInv /\ ExactInv /\ StartInv

LEMMA InitStream == Init => TypeOK /\ StreamInv
  <1> SUFFICES ASSUME Init PROVE TypeOK /\ StreamInv
    OBVIOUS
  <1>1. pump \in DOMAIN Pumps /\ child = 0 /\ at = 0 /\ buf = <<>> /\ reader = <<>>
        /\ out = 0 /\ pc = "read" /\ frame = <<>>
    BY DEF Init
  <1>2. progress \in BOOLEAN /\ cancelled \in BOOLEAN
    BY Zenon DEF Init
  <1>3. TypeOK
    BY <1>1, <1>2, PumpAssumption DEF Init, TypeOK
  <1>4. Window
    BY <1>1, OutputIs, FramerIs, PumpAssumption DEF Window
  <1>5. PulledInv /\ RestInv /\ ExactInv /\ StartInv
    BY <1>1 DEF PulledInv, RestInv, ExactInv, StartInv, Taken, Rest
  <1> QED BY <1>3, <1>4, <1>5 DEF StreamInv
-----------------------------------------------------------------------------
(* The steps that move the stream *)

\* Past the header, the front of buf is the next frame, as far as it is there.
LEMMA Front ==
  ASSUME TypeOK, Window, NEW k \in Nat, at - Len(buf) = Head0 + 2 * k, Len(buf) >= 1
  PROVE  /\ k < Frames
         /\ buf[1] = <<child, k + 1, 1>>
         /\ Len(buf) >= 2 => buf[2] = <<child, k + 1, 2>>
  <1>1. pump \in DOMAIN Pumps /\ child \in {0, 1} /\ Len(buf) \in Nat /\ Frames \in Nat
    BY PumpAssumption DEF TypeOK
  <1>2. Head0 \in {0, 1}
    BY <1>1, FramerIs
  <1>3. /\ Len(Output) = Head0 + 2 * Frames
        /\ \A j \in 0 .. Frames - 1 :
              /\ Output[Head0 + 2 * j + 1] = <<child, j + 1, 1>>
              /\ Output[Head0 + 2 * j + 2] = <<child, j + 1, 2>>
    BY <1>1, OutputIs
  <1>4. k \in 0 .. Frames - 1
    BY <1>1, <1>2, <1>3 DEF Window
  <1>5. buf[1] = Output[at - Len(buf) + 1] /\ (Len(buf) >= 2 => buf[2] = Output[at - Len(buf) + 2])
    BY <1>1 DEF Window
  <1> QED BY <1>1, <1>3, <1>4, <1>5

\* The frames taken are frames of the child.
LEMMA TakenBound ==
  ASSUME TypeOK, Window, NEW k \in Nat, Taken(k)
  PROVE  k <= Frames
  <1>1. pump \in DOMAIN Pumps /\ child \in {0, 1} /\ Len(buf) \in Nat /\ Frames \in Nat
    BY PumpAssumption DEF TypeOK
  <1>2. Head0 \in {0, 1} /\ Len(Output) = Head0 + 2 * Frames
    BY <1>1, FramerIs, OutputIs
  <1> QED BY <1>1, <1>2 DEF Taken, Window

\* Two units that are the halves of a frame are that frame.
LEMMA FrameOfTwo ==
  ASSUME NEW s \in Seq(Unit), Len(s) = 2, child \in {0, 1}, out \in Nat, out < Frames,
         s[1] = <<child, out + 1, 1>>, s[2] = <<child, out + 1, 2>>
  PROVE  s = NextFrame
  <1>1. NextFrame \in Seq(Unit) /\ Len(NextFrame) = 2
        /\ NextFrame[1] = s[1] /\ NextFrame[2] = s[2]
    BY PumpAssumption DEF NextFrame, Unit
  <1>2. \A i \in 1 .. Len(s) : s[i] = NextFrame[i]
    <2>1. 1 .. Len(s) = {1, 2}
      OBVIOUS
    <2> QED BY <1>1, <2>1
  <1> QED BY <1>1, <1>2, SeqEqual

\* What a read appends continues the window.
LEMMA Extended ==
  ASSUME TypeOK, Window, NEW n \in Nat \ {0}, n <= Len(Output) - at,
         NEW got, got = buf \o SubSeq(Output, at + 1, at + n)
  PROVE  /\ got \in Seq(Unit) /\ Len(got) = Len(buf) + n
         /\ \A i \in 1 .. Len(got) : got[i] = Output[at - Len(buf) + i]
         /\ at + n \in 0 .. Len(Output)
  <1> DEFINE new == SubSeq(Output, at + 1, at + n)
  <1>1. Output \in Seq(Unit) /\ Len(Output) \in Nat /\ at \in Nat /\ buf \in Seq(Unit)
        /\ Len(buf) \in Nat
    BY OutputIs, LenProperties DEF TypeOK
  <1>2. \A i \in at + 1 .. at + n : Output[i] \in Unit
    BY <1>1, ElementOfSeq
  <1>3. at + 1 \in Int /\ at + n \in Int /\ at + 1 <= at + n /\ at + n - (at + 1) + 1 = n
    BY <1>1
  <1>4. /\ new \in Seq(Unit) /\ Len(new) = n
        /\ \A i \in 1 .. n : new[i] = Output[at + i]
    <2>1. /\ new \in Seq(Unit) /\ Len(new) = at + n - (at + 1) + 1
          /\ \A i \in 1 .. at + n - (at + 1) + 1 : new[i] = Output[at + 1 + i - 1]
      BY <1>1, <1>3
    <2> QED BY <1>1, <1>3, <2>1
  <1> HIDE DEF new
  <1>5. /\ buf \o new \in Seq(Unit) /\ Len(buf \o new) = Len(buf) + Len(new)
        /\ \A i \in 1 .. Len(buf) + Len(new) :
             (buf \o new)[i] = IF i <= Len(buf) THEN buf[i] ELSE new[i - Len(buf)]
    BY <1>1, <1>4, ConcatProperties
  <1>6. ASSUME NEW i \in 1 .. Len(buf) + n
        PROVE  (buf \o new)[i] = Output[at - Len(buf) + i]
    <2>1. CASE i <= Len(buf)
      <3>1. i \in 1 .. Len(buf) /\ i \in 1 .. Len(buf) + Len(new)
        BY <1>1, <1>4, <2>1
      <3>2. (buf \o new)[i] = buf[i]
        BY <1>5, <2>1, <3>1
      <3> QED BY <3>1, <3>2 DEF Window
    <2>2. CASE ~(i <= Len(buf))
      <3>1. i - Len(buf) \in 1 .. n /\ at + (i - Len(buf)) = at - Len(buf) + i
        BY <1>1, <2>2
      <3> QED BY <1>4, <1>5, <2>2, <3>1
    <2> QED BY <2>1, <2>2
  <1>7. got = buf \o new
    BY DEF new
  <1>8. at + n \in 0 .. Len(Output)
    BY <1>1
  <1> QED BY <1>4, <1>5, <1>6, <1>7, <1>8
LEMMA ReadStream == TypeOK /\ StreamInv /\ Read => TypeOK' /\ StreamInv'
  <1> SUFFICES ASSUME TypeOK, StreamInv, Read PROVE TypeOK' /\ StreamInv'
    OBVIOUS
  <1>1. PICK n \in 1 .. ReadMax :
          /\ Chunk(n) /\ at' = at + n
          /\ LET got == buf \o SubSeq(Output, at + 1, at + n) IN
             IF This.framing # "exact"
               THEN buf' = got /\ pc' = "drain" /\ UNCHANGED frame
               ELSE IF Len(got) = 2
                 THEN buf' = <<>> /\ frame' = got /\ pc' = "push"
                 ELSE buf' = got /\ UNCHANGED <<pc, frame>>
    BY DEF Read
  <1> DEFINE got == buf \o SubSeq(Output, at + 1, at + n)
  <1>2. /\ pc = "read"
        /\ UNCHANGED <<pump, kind, cancelled, child, reader, out, failures, respawned,
                       progress, barren, sent>>
    BY DEF Read, budgetVars
  <1>3. /\ pump \in DOMAIN Pumps /\ child \in {0, 1} /\ out \in Nat /\ Frames \in Nat
        /\ buf \in Seq(Unit) /\ Len(buf) \in Nat /\ at \in Nat /\ n \in Nat \ {0}
    BY PumpAssumption DEF TypeOK
  <1>4. Window /\ Taken(out) /\ Rest /\ ExactInv
    BY <1>2 DEF StreamInv, PulledInv, RestInv
  <1>14. Len(buf) <= at
    BY <1>4 DEF Window
  <1>5. /\ This.framing \in {"nextStart", "length", "pages", "exact"}
        /\ This.framing = "exact" => Head0 = 0
        /\ Head0 \in {0, 1} /\ Len(Output) = Head0 + 2 * Frames
    BY <1>3, FramerIs, OutputIs
  <1>13. \A i \in 1 .. Len(got) : got[i] = Output[at - Len(buf) + i]
    BY <1>1, <1>3, <1>4, Extended DEF Chunk
  <1>6. got \in Seq(Unit) /\ Len(got) = Len(buf) + n /\ at + n \in 0 .. Len(Output)
    BY <1>1, <1>3, <1>4, Extended DEF Chunk
  <1>18. at + n \in 0 .. Head0 + 2 * Frames
    BY <1>5, <1>6
  <1>12. IF This.framing # "exact"
           THEN buf' = got /\ pc' = "drain" /\ UNCHANGED frame
           ELSE IF Len(got) = 2
             THEN buf' = <<>> /\ frame' = got /\ pc' = "push"
             ELSE buf' = got /\ UNCHANGED <<pc, frame>>
    BY <1>1
  <1> HIDE DEF got
  <1>7. /\ This' = This /\ Head0' = Head0 /\ Output' = Output /\ Header' = Header
        /\ NextFrame' = NextFrame
    BY <1>2 DEF This, Head0, Output, Header, NextFrame
  <1>8. TypeOK'
    <2>1. buf' \in Seq(Unit) /\ frame' \in Seq(Unit) /\ pc' \in {"read", "drain", "push"}
      <3>1. buf \in Seq(Unit) /\ frame \in Seq(Unit) /\ pc = "read" /\ <<>> \in Seq(Unit)
        BY <1>2 DEF TypeOK
      <3>2. CASE This.framing # "exact"
        BY <1>6, <1>12, <3>1, <3>2
      <3>3. CASE This.framing = "exact" /\ Len(got) = 2
        BY <1>6, <1>12, <3>1, <3>3
      <3>4. CASE This.framing = "exact" /\ Len(got) # 2
        BY <1>6, <1>12, <3>1, <3>4
      <3> QED BY <3>2, <3>3, <3>4
    <2>2. at' \in 0 .. 2 * Frames + 1
      BY <1>1, <1>3, <1>5, <1>6
    <2> QED BY <1>2, <2>1, <2>2 DEF TypeOK
  <1>9. CASE This.framing # "exact"
    <2>1. buf' = got /\ pc' = "drain" /\ at' = at + n
      BY <1>1, <1>9, <1>12
    <2>2. at' - Len(buf') = at - Len(buf) /\ Len(buf') >= 1 /\ Len(buf') <= at'
      BY <1>3, <1>6, <1>14, <2>1
    <2>3. Window'
      BY <1>7, <1>13, <1>18, <2>1, <2>2 DEF Window
    <2>4. Taken(out)'
      BY <1>2, <1>3, <1>4, <1>7, <2>2, <1>6, <2>1 DEF Taken
    <2>5. buf' # <<>>
      BY <2>2
    <2> QED BY <1>7, <1>8, <1>9, <2>1, <2>3, <2>4, <2>5
            DEF StreamInv, PulledInv, RestInv, ExactInv, StartInv
  <1>10. CASE This.framing = "exact" /\ Len(got) = 2
    <2>1. buf' = <<>> /\ frame' = got /\ pc' = "push" /\ at' = at + n
      BY <1>1, <1>10, <1>12
    <2>2. at - Len(buf) = 2 * out /\ reader = <<>>
      BY <1>3, <1>4, <1>5, <1>10 DEF Taken
    <2>3. at' = 2 * out + 2 /\ out < Frames
      <3>1. Len(buf) + n = 2
        BY <1>6, <1>10
      <3>0. Len(Output) = 2 * Frames
        BY <1>3, <1>5, <1>10
      <3>2. at + n = 2 * out + 2 /\ at + n <= 2 * Frames
        BY <1>3, <1>6, <2>2, <3>0, <3>1
      <3> QED BY <1>3, <2>1, <3>2
    <2>4. frame' = NextFrame
      <3>1. got[1] = Output[2 * out + 1] /\ got[2] = Output[2 * out + 2]
        <4>1. \A i \in 1 .. 2 : got[i] = Output[at - Len(buf) + i]
          BY <1>10, <1>13
        <4> QED BY <1>3, <2>2, <4>1
      <3>2. got[1] = <<child, out + 1, 1>> /\ got[2] = <<child, out + 1, 2>>
        <4>1. out \in 0 .. Frames - 1
          BY <1>3, <2>3
        <4>2. /\ Output[Head0 + 2 * out + 1] = <<child, out + 1, 1>>
              /\ Output[Head0 + 2 * out + 2] = <<child, out + 1, 2>>
          BY <1>3, <4>1, OutputIs
        <4> QED BY <1>3, <1>5, <1>10, <3>1, <4>2
      <3> QED BY <1>3, <1>6, <1>10, <2>1, <2>3, <3>2, FrameOfTwo
    <2>5. Window'
      <3>1. Len(<<>>) = 0 /\ 0 <= at'
        BY <1>3, <2>1
      <3> QED BY <1>7, <1>18, <2>1, <3>1 DEF Window
    <2>6. Taken(out + 1)'
      BY <1>2, <1>3, <1>5, <1>7, <1>10, <2>1, <2>2, <2>3 DEF Taken
    <2> QED BY <1>2, <1>5, <1>7, <1>8, <1>10, <2>1, <2>3, <2>4, <2>5, <2>6
            DEF StreamInv, PulledInv, RestInv, ExactInv, StartInv
  <1>11. CASE This.framing = "exact" /\ Len(got) # 2
    <2>1. buf' = got /\ pc' = "read" /\ at' = at + n
      BY <1>1, <1>2, <1>11, <1>12
    <2>2. at' - Len(buf') = at - Len(buf) /\ Len(buf') <= at' /\ Len(buf') <= 1
      BY <1>1, <1>3, <1>6, <1>11, <1>14, <2>1 DEF Chunk
    <2>3. Window'
      BY <1>7, <1>13, <1>18, <2>1, <2>2 DEF Window
    <2>4. Taken(out)'
      BY <1>2, <1>3, <1>4, <1>7, <2>2, <1>6, <2>1 DEF Taken
    <2>5. Rest'
      BY <1>7, <1>11, <2>2 DEF Rest
    <2> QED BY <1>2, <1>7, <1>8, <1>11, <2>1, <2>3, <2>4, <2>5
            DEF StreamInv, PulledInv, RestInv, ExactInv, StartInv
  <1> QED BY <1>9, <1>10, <1>11
\* Cutting buf in two keeps the window.
LEMMA CutInTwo ==
  ASSUME TypeOK, Window, NEW n \in Nat, n <= Len(buf)
  PROVE  LET front == SubSeq(buf, 1, n)
             back  == SubSeq(buf, n + 1, Len(buf))
         IN  /\ front \in Seq(Unit) /\ Len(front) = n
             /\ \A i \in 1 .. n : front[i] = buf[i]
             /\ back \in Seq(Unit) /\ Len(back) = Len(buf) - n
             /\ \A i \in 1 .. Len(back) : back[i] = Output[at - Len(back) + i]
  <1> DEFINE front == SubSeq(buf, 1, n)
             back  == SubSeq(buf, n + 1, Len(buf))
  <1>1. buf \in Seq(Unit) /\ Len(buf) \in Nat /\ at \in Nat
    BY DEF TypeOK
  <1>2. \A i \in 1 .. Len(buf) : buf[i] \in Unit
    BY <1>1, ElementOfSeq
  <1>3. front \in Seq(Unit) /\ Len(front) = n /\ \A i \in 1 .. n : front[i] = buf[i]
    BY <1>1, <1>2
  <1>4. back \in Seq(Unit) /\ Len(back) = Len(buf) - n
        /\ \A i \in 1 .. Len(buf) - n : back[i] = buf[n + i]
    BY <1>1, <1>2
  <1> HIDE DEF front, back
  <1>5. ASSUME NEW i \in 1 .. Len(back) PROVE back[i] = Output[at - Len(back) + i]
    <2>1. n + i \in 1 .. Len(buf) /\ at - Len(buf) + (n + i) = at - Len(back) + i
          /\ i \in 1 .. Len(buf) - n
      <3>1. Len(back) = Len(buf) - n
        BY <1>4
      <3> QED BY <1>1, <3>1
    <2>2. buf[n + i] = Output[at - Len(buf) + (n + i)]
      BY <2>1 DEF Window
    <2> QED BY <1>4, <2>1, <2>2
  <1> QED BY <1>3, <1>4, <1>5 DEF front, back

\* Access units: the first half of a frame has its start code.
LEMMA StartsAre ==
  ASSUME TypeOK, Window, This.framing = "nextStart", Taken(out)
  PROVE  Starts = {i \in 1 .. Len(buf) : i % 2 = 1}
  <1>1. pump \in DOMAIN Pumps /\ child \in {0, 1} /\ Len(buf) \in Nat /\ out \in Nat
        /\ at \in Nat /\ Len(buf) <= at /\ at <= Len(Output) /\ Len(Output) \in Nat
    BY OutputIs, LenProperties DEF TypeOK, Window
  <1>2. ~This.header /\ Head0 = 0
    BY <1>1, FramerIs
  <1>3. at - Len(buf) = 2 * out
    BY <1>1, <1>2 DEF Taken
  <1>4. ASSUME NEW i \in 1 .. Len(buf) PROVE buf[i][3] = 1 <=> i % 2 = 1
    <2>1. 2 * out + i \in 1 .. Len(Output)
      BY <1>1, <1>3
    <2>4. (2 * out + i) % 2 = i % 2
      BY <1>1, SMT
    <2>2. buf[i] = Output[2 * out + i]
      BY <1>3 DEF Window
    <2>3. Output[2 * out + i][3] = 2 - ((2 * out + i) % 2)
      BY <1>1, <1>2, <2>1, OutputIs
    <2>5. i % 2 \in {0, 1}
      BY SMT
    <2> QED BY <2>2, <2>3, <2>4, <2>5
  <1> QED BY <1>4 DEF Starts

\* Two odd places are two elements; one is one.
LEMMA Pair ==
  ASSUME NEW S, IsFiniteSet(S), 1 \in S, 3 \in S
  PROVE  Cardinality(S) \in Nat /\ Cardinality(S) >= 2
  <1>1. {1} \subseteq S /\ {1} # S
    OBVIOUS
  <1>2. Cardinality({1}) = 1
    BY FS_Singleton
  <1>3. Cardinality({1}) < Cardinality(S)
    BY <1>1, FS_Subset, FS_CardinalityType, FS_Singleton
  <1> QED BY <1>2, <1>3, FS_CardinalityType

LEMMA TwoStarts ==
  ASSUME NEW n \in Nat, NEW S, S = {i \in 1 .. n : i % 2 = 1}
  PROVE  /\ IsFiniteSet(S)
         /\ Cardinality(S) \in Nat
         /\ Cardinality(S) >= 2 <=> n >= 3
  <1>1. IsFiniteSet(S) /\ Cardinality(S) \in Nat
    <2>1. IsFiniteSet(1 .. n) /\ S \in SUBSET (1 .. n)
      BY FS_Interval
    <2> QED BY <2>1, FS_Subset, FS_CardinalityType
  <1>2. ASSUME n >= 3 PROVE Cardinality(S) >= 2
    BY <1>1, <1>2, Pair
  <1>3. ASSUME ~(n >= 3) PROVE ~(Cardinality(S) >= 2)
    <2>1. S \subseteq {1}
      BY <1>3
    <2>2. IsFiniteSet({1}) /\ Cardinality({1}) = 1
      BY FS_Singleton
    <2> QED BY <1>1, <2>1, <2>2, FS_Subset
  <1> QED BY <1>1, <1>2, <1>3

LEMMA EndsAtTwo ==
  ASSUME This.framing = "nextStart", NEW len \in Nat, Len(buf) = len, len >= 3,
         Starts = {i \in 1 .. len : i % 2 = 1}
  PROVE  FrameEnd = 2
  <1> DEFINE upTo(n) == {i \in Starts : i <= n}
             P(n) == n + 1 \in Starts /\ Cardinality(upTo(n)) = 1
  <1>1. 2 \in 1 .. len /\ P(2)
    <2>1. 1 \in Starts /\ 3 \in Starts /\ 2 \notin Starts
      OBVIOUS
    <2>2. \A i \in Starts : i <= 2 => i = 1
      BY <2>1
    <2>3. upTo(2) = {1}
      <3>1. upTo(2) \subseteq {1}
        BY <2>2
      <3>2. 1 \in upTo(2)
        BY <2>1
      <3> HIDE DEF upTo
      <3> QED BY <3>1, <3>2
    <2>4. 2 + 1 \in Starts /\ 2 \in 1 .. len
      BY <2>1
    <2>5. Cardinality(upTo(2)) = 1
      BY <2>3, FS_Singleton
    <2> QED BY <2>4, <2>5
  <1>2. ASSUME NEW n \in 1 .. len, P(n) PROVE n = 2
    <2>1. n \in Nat /\ (n = 2 \/ n >= 3)
      BY <1>2
    <2>2. ASSUME n >= 3 PROVE FALSE
      <3>1. IsFiniteSet(Starts)
        BY TwoStarts
      <3>2. IsFiniteSet(upTo(n))
        BY <3>1, FS_Subset
      <3>3. 1 \in upTo(n) /\ 3 \in upTo(n)
        BY <2>2
      <3>4. Cardinality(upTo(n)) >= 2 /\ Cardinality(upTo(n)) \in Nat
        BY <3>2, <3>3, Pair
      <3> QED BY <1>2, <3>4
    <2> QED BY <2>1, <2>2
  <1>3. (CHOOSE n \in 1 .. len : P(n)) = 2
    <2> HIDE DEF P
    <2> QED BY <1>1, <1>2
  <1> QED BY <1>3 DEF FrameEnd
\* What each framer takes for a frame.
LEMMA HasFrameIs ==
  /\ This.framing = "nextStart" => (HasFrame <=> Cardinality(Starts) >= 2)
  /\ This.framing = "length" => (HasFrame <=> Len(buf) >= 2 /\ (This.header => reader # <<>>))
  /\ This.framing = "pages" => (HasFrame <=> reader # <<>> /\ buf # <<>>)
  BY DEF HasFrame

\* Between two frames buf begins with the next one, or OpusDemux has its first half.
LEMMA Between ==
  ASSUME TypeOK, Window, Taken(out), pump \in DOMAIN Pumps
  PROVE  /\ ~This.header => at - Len(buf) = Head0 + 2 * out /\ reader = <<>>
         /\ This.framing = "length" /\ reader # <<>> =>
              at - Len(buf) = Head0 + 2 * out /\ reader = <<Header>>
         /\ This.framing = "pages" /\ reader # <<>> =>
              at - Len(buf) = 2 + 2 * out /\ reader = <<<<child, out + 1, 1>>>>
         /\ reader = <<>> /\ This.header =>
              \/ out = 0 /\ at = Len(buf)
              \/ This.framing = "pages" /\ at - Len(buf) = 1 + 2 * out
  <1>1. /\ This.framing \in {"nextStart", "length", "pages", "exact"}
        /\ This.framing = "pages" => This.header
        /\ Head0 \in {0, 1} /\ (This.header => Head0 = 1) /\ (~This.header => Head0 = 0)
    BY FramerIs
  <1>2. at \in Nat /\ Len(buf) \in Nat /\ out \in Nat
    BY DEF TypeOK
  <1>5. <<Header>> # <<>> /\ <<<<child, out + 1, 1>>>> # <<>>
    OBVIOUS
  <1>3. CASE This.header
    <2>1. CASE This.framing = "pages"
      BY <1>1, <1>2, <1>3, <1>5, <2>1 DEF Taken
    <2>2. CASE This.framing = "length"
      BY <1>1, <1>2, <1>3, <1>5, <2>2 DEF Taken
    <2>3. This.framing \in {"pages", "length"}
      BY <1>1, <1>3, FramerIs
    <2> QED BY <2>1, <2>2, <2>3
  <1>4. CASE ~This.header
    BY <1>1, <1>2, <1>4 DEF Taken
  <1> QED BY <1>3, <1>4

\* The framer's answer to a buffer that has a frame: the whole of it and no more.
LEMMA PullIs ==
  ASSUME TypeOK, StreamInv, pc = "drain", HasFrame
  PROVE  /\ This.framing = "pages" =>
              /\ FrameEnd = 1 /\ Len(buf) >= 1
              /\ at - Len(buf) = 2 + 2 * out /\ reader = <<<<child, out + 1, 1>>>>
         /\ This.framing # "pages" =>
              /\ FrameEnd = 2 /\ Len(buf) >= 2
              /\ at - Len(buf) = Head0 + 2 * out
              /\ reader = IF This.framing = "length" /\ This.header THEN <<Header>> ELSE <<>>
         /\ This.framing = "nextStart" => Len(buf) >= 3
         /\ This.framing # "exact"
  <1>1. /\ This.framing \in {"nextStart", "length", "pages", "exact"}
        /\ This.framing = "nextStart" => ~This.header
        /\ Window /\ Taken(out) /\ Len(buf) \in Nat /\ pump \in DOMAIN Pumps
        /\ This.framing # "exact"
    BY FramerIs DEF StreamInv, PulledInv, ExactInv, TypeOK
  <1>2. CASE This.framing = "nextStart"
    <2>1. Starts = {i \in 1 .. Len(buf) : i % 2 = 1}
      BY <1>1, <1>2, StartsAre
    <2>2. Len(buf) >= 3
      BY <1>1, <1>2, <2>1, HasFrameIs, TwoStarts
    <2>3. FrameEnd = 2
      BY <1>1, <1>2, <2>1, <2>2, EndsAtTwo
    <2>4. at - Len(buf) = Head0 + 2 * out /\ reader = <<>>
      BY <1>1, <1>2, Between
    <2> QED BY <1>1, <1>2, <2>2, <2>3, <2>4
  <1>3. CASE This.framing = "length"
    <2>1. Len(buf) >= 2 /\ FrameEnd = 2 /\ (This.header => reader # <<>>)
      BY <1>3, HasFrameIs DEF FrameEnd
    <2>2. at - Len(buf) = Head0 + 2 * out
          /\ reader = IF This.header THEN <<Header>> ELSE <<>>
      BY <1>1, <1>3, <2>1, Between
    <2> QED BY <1>3, <2>1, <2>2
  <1>4. CASE This.framing = "pages"
    <2>1. reader # <<>> /\ buf # <<>> /\ FrameEnd = 1
      BY <1>4, HasFrameIs DEF FrameEnd
    <2>2. Len(buf) >= 1
      BY <2>1, EmptySeq DEF TypeOK
    <2> QED BY <1>1, <1>4, <2>1, <2>2, Between
  <1> QED BY <1>1, <1>2, <1>3, <1>4
LEMMA PullStream == TypeOK /\ StreamInv /\ Pull => TypeOK' /\ StreamInv'
  <1> SUFFICES ASSUME TypeOK, StreamInv, Pull PROVE TypeOK' /\ StreamInv'
    OBVIOUS
  <1> DEFINE taken == SubSeq(buf, 1, FrameEnd)
             left  == SubSeq(buf, FrameEnd + 1, Len(buf))
  <1>1. /\ pc = "drain" /\ pc' = "push" /\ HasFrame
        /\ buf' = left
        /\ This.framing = "pages" => frame' = reader \o taken /\ reader' = <<>>
        /\ This.framing # "pages" => frame' = taken /\ reader' = reader
        /\ UNCHANGED <<pump, kind, cancelled, child, at, out, failures, respawned,
                       progress, barren, sent>>
    BY DEF Pull, Goto, childVars, budgetVars
  <1>2. /\ pump \in DOMAIN Pumps /\ child \in {0, 1} /\ out \in Nat /\ Frames \in Nat
        /\ buf \in Seq(Unit) /\ Len(buf) \in Nat /\ at \in Nat
        /\ Window /\ StartInv
    BY PumpAssumption DEF TypeOK, StreamInv
  <1>3. /\ Head0 \in {0, 1} /\ Len(Output) = Head0 + 2 * Frames
        /\ This.framing = "pages" => Head0 = 1
    BY <1>2, FramerIs, OutputIs
  <1>4. /\ This.framing = "pages" =>
              /\ FrameEnd = 1 /\ Len(buf) >= 1
              /\ at - Len(buf) = 2 + 2 * out /\ reader = <<<<child, out + 1, 1>>>>
        /\ This.framing # "pages" =>
              /\ FrameEnd = 2 /\ Len(buf) >= 2
              /\ at - Len(buf) = Head0 + 2 * out
              /\ reader = IF This.framing = "length" /\ This.header THEN <<Header>> ELSE <<>>
        /\ This.framing = "nextStart" => Len(buf) >= 3
        /\ This.framing # "exact"
    BY <1>1, PullIs
  <1>5. FrameEnd \in {1, 2} /\ FrameEnd <= Len(buf)
    BY <1>2, <1>4
  <1>16. FrameEnd \in Nat
    BY <1>5
  <1>17. /\ taken \in Seq(Unit) /\ Len(taken) = FrameEnd
         /\ \A i \in 1 .. FrameEnd : taken[i] = buf[i]
         /\ left \in Seq(Unit) /\ Len(left) = Len(buf) - FrameEnd
         /\ \A i \in 1 .. Len(left) : left[i] = Output[at - Len(left) + i]
    BY <1>2, <1>5, <1>16, CutInTwo, Zenon
  <1> HIDE DEF taken, left
  <1>6. taken \in Seq(Unit) /\ Len(taken) = FrameEnd /\ \A i \in 1 .. FrameEnd : taken[i] = buf[i]
    BY <1>17
  <1>7. left \in Seq(Unit) /\ Len(left) = Len(buf) - FrameEnd
    BY <1>17
  <1>8. \A i \in 1 .. Len(left) : left[i] = Output[at - Len(left) + i]
    BY <1>17
  <1>9. /\ This' = This /\ Head0' = Head0 /\ Output' = Output /\ Header' = Header
        /\ NextFrame' = NextFrame
    BY <1>1 DEF This, Head0, Output, Header, NextFrame
  <1>10. Window'
    <2>1. at \in 0 .. Head0 + 2 * Frames /\ Len(left) <= at
      <3>1. at \in 0 .. Head0 + 2 * Frames /\ Len(buf) <= at
        BY <1>2 DEF Window
      <3> QED BY <1>2, <1>5, <1>7, <3>1
    <2> QED BY <1>1, <1>8, <1>9, <2>1 DEF Window
  <1>11. out < Frames /\ frame' = NextFrame /\ frame' \in Seq(Unit)
    <2>1. CASE This.framing # "pages"
      <3>1. out < Frames /\ buf[1] = <<child, out + 1, 1>> /\ buf[2] = <<child, out + 1, 2>>
        BY <1>2, <1>4, <2>1, Front
      <3>2. taken[1] = buf[1] /\ taken[2] = buf[2] /\ Len(taken) = 2
        BY <1>4, <1>6, <2>1
      <3> QED BY <1>1, <1>2, <1>6, <2>1, <3>1, <3>2, FrameOfTwo
    <2>2. CASE This.framing = "pages"
      <3>1. at - Len(buf) = Head0 + 2 * out + 1
        BY <1>2, <1>3, <1>4, <2>2
      <3>2. out \in 0 .. Frames - 1
        <4>1. Len(buf) >= 1 /\ at <= Head0 + 2 * Frames
          <5>1. at \in 0 .. Head0 + 2 * Frames
            BY <1>2 DEF Window
          <5> QED BY <1>2, <1>3, <1>4, <2>2, <5>1
        <4> QED BY <1>2, <1>3, <3>1, <4>1
      <3>3. buf[1] = <<child, out + 1, 2>>
        <4>1. buf[1] = Output[at - Len(buf) + 1]
          BY <1>2, <1>4, <2>2 DEF Window
        <4>2. at - Len(buf) + 1 = Head0 + 2 * out + 2
          BY <1>2, <1>3, <3>1
        <4>3. Output[Head0 + 2 * out + 2] = <<child, out + 1, 2>>
          BY <1>2, <3>2, OutputIs
        <4> QED BY <4>1, <4>2, <4>3
      <3>4. Len(taken) = 1 /\ taken[1] = buf[1]
        BY <1>4, <1>6, <2>2
      <3>5. reader \in Seq(Unit) /\ Len(reader) = 1 /\ reader[1] = <<child, out + 1, 1>>
        BY <1>4, <2>2 DEF TypeOK
      <3>6. reader \o taken \in Seq(Unit) /\ Len(reader \o taken) = 2
            /\ (reader \o taken)[1] = reader[1] /\ (reader \o taken)[2] = taken[1]
        <4>1. /\ reader \o taken \in Seq(Unit) /\ Len(reader \o taken) = Len(reader) + Len(taken)
              /\ \A i \in 1 .. Len(reader) + Len(taken) : (reader \o taken)[i] =
                    IF i <= Len(reader) THEN reader[i] ELSE taken[i - Len(reader)]
          BY <1>6, <3>5, ConcatProperties
        <4> QED BY <3>4, <3>5, <4>1
      <3>7. out < Frames
        BY <1>2, <3>2
      <3> QED BY <1>1, <1>2, <2>2, <3>3, <3>4, <3>5, <3>6, <3>7, FrameOfTwo
    <2> QED BY <2>1, <2>2
  <1>12. TypeOK'
    <2>1. reader' \in Seq(Unit)
      <3>1. <<>> \in Seq(Unit) /\ reader \in Seq(Unit)
        BY DEF TypeOK
      <3> QED BY <1>1, <3>1
    <2> QED BY <1>1, <1>7, <1>11, <2>1 DEF TypeOK
  <1>13. at' - Len(buf') = Head0 + 2 * (out + 1)
         /\ reader' = IF This.framing = "length" /\ This.header THEN <<Header>> ELSE <<>>
    <2>1. Len(buf') = Len(buf) - FrameEnd /\ at' = at
      BY <1>1, <1>7
    <2>2. CASE This.framing = "pages"
      BY <1>1, <1>2, <1>3, <1>4, <2>1, <2>2
    <2>3. CASE This.framing # "pages"
      BY <1>1, <1>2, <1>3, <1>4, <2>1, <2>3
    <2> QED BY <2>2, <2>3
  <1>14. Taken(out + 1)'
    BY <1>1, <1>9, <1>13 DEF Taken
  <1>15. This.framing = "nextStart" => buf' # <<>>
    <2>1. This.framing = "nextStart" => Len(left) >= 1
      BY <1>2, <1>4, <1>7
    <2> QED BY <1>1, <2>1
  <1> QED BY <1>1, <1>4, <1>9, <1>10, <1>11, <1>12, <1>14, <1>15
          DEF StreamInv, PulledInv, RestInv, ExactInv, StartInv
LEMMA PreludeStream == TypeOK /\ StreamInv /\ Prelude => TypeOK' /\ StreamInv'
  <1> SUFFICES ASSUME TypeOK, StreamInv, Prelude PROVE TypeOK' /\ StreamInv'
    OBVIOUS
  <1> DEFINE left == SubSeq(buf, 2, Len(buf))
  <1>1. /\ pc = "drain" /\ ~HasFrame /\ buf # <<>>
        /\ \/ This.header /\ This.framing = "length" /\ reader = <<>>
           \/ This.framing = "pages"
        /\ Head(buf) = Header \/ This.framing = "pages"
        /\ buf' = Tail(buf)
        /\ reader' = IF This.framing = "pages" /\ Head(buf) = Header
                       THEN reader ELSE <<Head(buf)>>
        /\ UNCHANGED <<pump, kind, cancelled, pc, child, at, frame, out, failures,
                       respawned, progress, barren, sent>>
    BY DEF Prelude, HasPrelude, childVars, budgetVars
  <1>2. /\ pump \in DOMAIN Pumps /\ child \in {0, 1} /\ out \in Nat /\ Frames \in Nat
        /\ buf \in Seq(Unit) /\ Len(buf) \in Nat /\ at \in Nat /\ Len(buf) >= 1
        /\ Window /\ Taken(out)
    BY <1>1, PumpAssumption, EmptySeq DEF TypeOK, StreamInv, PulledInv
  <1>3. This.header /\ Head0 = 1 /\ This.framing \in {"length", "pages"}
    BY <1>1, <1>2, FramerIs
  <1>4. reader = <<>>
    BY <1>1, HasFrameIs
  <1>5. \/ out = 0 /\ at = Len(buf)
        \/ This.framing = "pages" /\ at - Len(buf) = 1 + 2 * out
    BY <1>2, <1>3, <1>4, Between
  <1>6. Head(buf) = buf[1] /\ Head(buf) \in Unit
    BY <1>1, <1>2, HeadTailProperties
  <1>7. buf' = left
    BY <1>1, <1>2, TailIsSubSeq
  <1>8. left \in Seq(Unit) /\ Len(left) = Len(buf) - 1
        /\ \A i \in 1 .. Len(left) : left[i] = Output[at - Len(left) + i]
    <2>1. 1 \in Nat /\ 1 <= Len(buf) /\ 1 + 1 = 2
      BY <1>2
    <2> QED BY <1>2, <2>1, CutInTwo, Zenon
  <1> HIDE DEF left
  <1>9. /\ This' = This /\ Head0' = Head0 /\ Output' = Output /\ Header' = Header
    BY <1>1 DEF This, Head0, Output, Header
  <1>10. left \in Seq(Unit) /\ Len(left) = Len(buf) - 1
    BY <1>8
  <1>11. Window'
    <2>1. at \in 0 .. Head0 + 2 * Frames /\ Len(left) <= at
      <3>1. at \in 0 .. Head0 + 2 * Frames /\ Len(buf) <= at
        BY <1>2 DEF Window
      <3> QED BY <1>2, <1>10, <3>1
    <2> QED BY <1>1, <1>7, <1>8, <1>9, <2>1 DEF Window
  <1>12. TypeOK'
    <2>1. reader' \in Seq(Unit)
      BY <1>1, <1>4, <1>6
    <2> QED BY <1>1, <1>7, <1>10, <2>1 DEF TypeOK
  <1>13. at' - Len(buf') = at - Len(buf) + 1
    BY <1>1, <1>2, <1>7, <1>10
  <1>14. Taken(out)'
    <2>1. CASE out = 0 /\ at = Len(buf)
      <3>1. Head(buf) = Header
        <4>1. buf[1] = Output[1]
          BY <1>2, <2>1 DEF Window
        <4> QED BY <1>2, <1>3, <1>6, <4>1, OutputIs
      <3>2. reader' = IF This.framing = "length" /\ This.header THEN <<Header>> ELSE <<>>
        BY <1>1, <1>3, <1>4, <3>1
      <3>3. at' - Len(buf') = Head0 + 2 * out
        BY <1>2, <1>3, <1>13, <2>1
      <3> QED BY <1>1, <1>9, <3>2, <3>3 DEF Taken
    <2>2. CASE This.framing = "pages" /\ at - Len(buf) = 1 + 2 * out
      <3>1. Head(buf) = <<child, out + 1, 1>>
        BY <1>2, <1>3, <1>6, <2>2, Front
      <3>2. Head(buf) # Header
        BY <1>2, <3>1 DEF Header
      <3>3. reader' = <<<<child', out' + 1, 1>>>> /\ at' - Len(buf') = 2 + 2 * out'
        <4>1. reader' = <<<<child, out + 1, 1>>>>
          BY <1>1, <3>1, <3>2
        <4>2. at' - Len(buf') = 2 + 2 * out
          BY <1>2, <1>13, <2>2
        <4> QED BY <1>1, <4>1, <4>2
      <3> QED BY <1>9, <2>2, <3>3 DEF Taken
    <2> QED BY <1>5, <2>1, <2>2
  <1> QED BY <1>1, <1>3, <1>9, <1>11, <1>12, <1>14
          DEF StreamInv, PulledInv, RestInv, ExactInv, StartInv

LEMMA NeedMoreStream == TypeOK /\ StreamInv /\ NeedMore => TypeOK' /\ StreamInv'
  <1> SUFFICES ASSUME TypeOK, StreamInv, NeedMore PROVE TypeOK' /\ StreamInv'
    OBVIOUS
  <1>1. /\ pc = "drain" /\ pc' = "read" /\ ~HasFrame /\ ~HasPrelude
        /\ UNCHANGED <<pump, kind, cancelled, child, at, buf, reader, frame, out,
                       failures, respawned, progress, barren, sent>>
    BY DEF NeedMore, Goto, childVars, frameVars, budgetVars
  <1>2. /\ Window /\ Taken(out) /\ StartInv /\ out \in Nat
        /\ Len(buf) \in Nat /\ buf \in Seq(Unit)
    BY <1>1 DEF StreamInv, PulledInv, TypeOK
  <1>3. /\ Window' = Window /\ Rest' = Rest /\ Taken(out)' = Taken(out) /\ This' = This
    BY <1>1 DEF This, Head0, Output, Header, Window, Rest, Taken
  <1>4. Rest
    <2>1. This.framing = "nextStart" => Len(buf) <= 2
      <3>1. ASSUME This.framing = "nextStart" PROVE ~(Len(buf) >= 3)
        <4>1. Starts = {i \in 1 .. Len(buf) : i % 2 = 1}
          BY <1>2, <3>1, StartsAre
        <4> QED BY <1>1, <1>2, <3>1, <4>1, HasFrameIs, TwoStarts
      <3> QED BY <1>2, <3>1
    <2>2. This.framing = "length" => Len(buf) <= 1
          /\ (This.header /\ reader = <<>> => buf = <<>>)
      BY <1>1, <1>2, HasFrameIs DEF HasPrelude
    <2>3. This.framing # "exact"
      BY <1>1 DEF StreamInv, ExactInv
    <2>4. This.framing = "pages" => buf = <<>>
      BY <1>1 DEF HasPrelude
    <2> QED BY <2>1, <2>2, <2>3, <2>4 DEF Rest
  <1>5. TypeOK'
    BY <1>1 DEF TypeOK
  <1> QED BY <1>1, <1>2, <1>3, <1>4, <1>5
          DEF StreamInv, PulledInv, RestInv, ExactInv, StartInv

LEMMA PushStream == TypeOK /\ StreamInv /\ Push => TypeOK' /\ StreamInv'
  <1> SUFFICES ASSUME TypeOK, StreamInv, Push PROVE TypeOK' /\ StreamInv'
    OBVIOUS
  <1>1. /\ pc = "push" /\ pc' = IF This.framing = "exact" THEN "read" ELSE "drain"
        /\ out' = out + 1 /\ progress' = TRUE /\ barren' = 0 /\ frame' = <<>>
        /\ failures' \in {0, failures} /\ respawned' \in {"never", respawned}
        /\ UNCHANGED <<pump, kind, cancelled, child, at, buf, reader, sent>>
    BY DEF Push, Goto, childVars
  <1>2. /\ Window /\ Taken(out + 1) /\ out < Frames /\ out \in Nat /\ Frames \in Nat
        /\ ExactInv /\ StartInv /\ Attempts \in Nat
    BY <1>1, PumpAssumption DEF StreamInv, PulledInv, TypeOK
  <1>3. /\ Window' = Window /\ Rest' = Rest /\ This' = This
        /\ Taken(out)' = Taken(out + 1)
    BY <1>1 DEF This, Head0, Output, Header, Window, Rest, Taken
  <1>4. This.framing = "exact" => Rest
    <2>1. Len(<<>>) = 0
      OBVIOUS
    <2> QED BY <1>1, <1>2, <2>1 DEF ExactInv, Rest
  <1>5. TypeOK'
    <2>1. progress' \in BOOLEAN
      BY <1>1, Zenon
    <2>2. out' \in 0 .. Frames /\ failures' \in 0 .. Attempts /\ barren' \in 0 .. Attempts + 1
      BY <1>1, <1>2 DEF TypeOK
    <2> QED BY <1>1, <2>1, <2>2 DEF TypeOK
  <1> QED BY <1>1, <1>2, <1>3, <1>4, <1>5
          DEF StreamInv, PulledInv, RestInv, ExactInv, StartInv

LEMMA RespawnStream == TypeOK /\ StreamInv /\ Respawn => TypeOK' /\ StreamInv'
  <1> SUFFICES ASSUME TypeOK, StreamInv, Respawn PROVE TypeOK' /\ StreamInv'
    OBVIOUS
  <1>1. /\ pc = "read" /\ child' = 1 - child /\ at' = 0 /\ buf' = <<>> /\ reader' = <<>>
        /\ out' = 0 /\ progress' = FALSE /\ barren' = OneMore(barren)
        /\ failures' = (IF progress THEN 0 ELSE failures) + 1 /\ respawned' = "recently"
        /\ UNCHANGED <<pump, kind, cancelled, pc, frame, sent>>
    BY DEF Respawn, Eof
  <1>2. failures < Attempts /\ Attempts \in Nat /\ Frames \in Nat /\ pump \in DOMAIN Pumps
    BY PumpAssumption DEF Respawn, MayRespawn, TypeOK
  <1>3. This' = This /\ Head0' = Head0
    BY <1>1 DEF This, Head0
  <1>4. Head0 \in {0, 1}
    BY <1>2, FramerIs
  <1>5. Window'
    <2>1. 0 \in 0 .. Head0 + 2 * Frames /\ Len(<<>>) = 0
      BY <1>2, <1>4
    <2> QED BY <1>1, <1>3, <2>1 DEF Window
  <1>6. Taken(out)' /\ Rest'
    BY <1>1 DEF Taken, Rest
  <1>7. TypeOK'
    <2>1. failures' \in 0 .. Attempts /\ barren' \in 0 .. Attempts + 1 /\ child' \in {0, 1}
      BY <1>1, <1>2 DEF TypeOK, OneMore
    <2>2. progress' \in BOOLEAN
      BY <1>1, Zenon
    <2> QED BY <1>1, <1>2, <2>1, <2>2 DEF TypeOK
  <1> QED BY <1>1, <1>5, <1>6, <1>7 DEF StreamInv, PulledInv, RestInv, ExactInv, StartInv

\* On the way out nothing moves; a silent return that no one asked for is one
\* from the select!, where nothing whole is left.
LEMMA FailStream ==
  ASSUME TypeOK, StreamInv, NEW from, Fail(from, sent'),
         sent' \in {"none", "unreachable", "respawn", "pipe", "parse", "push"},
         sent' = "none" => cancelled \/ from = "read"
  PROVE  TypeOK' /\ StreamInv'
  <1>1. /\ pc = from /\ pc' = "returned"
        /\ UNCHANGED <<pump, kind, cancelled, child, at, buf, reader, frame, out,
                       failures, respawned, progress, barren>>
    BY DEF Fail, Goto, childVars, frameVars, budgetVars
  <1>2. Window /\ ExactInv /\ StartInv
    BY DEF StreamInv
  <1>3. /\ Window' = Window /\ Rest' = Rest /\ Taken(out)' = Taken(out) /\ This' = This
    BY <1>1 DEF This, Head0, Output, Header, Window, Rest, Taken
  <1>4. sent' = "none" /\ ~cancelled => Rest /\ Taken(out)
    BY <1>1 DEF StreamInv, PulledInv, RestInv
  <1>5. TypeOK'
    BY <1>1 DEF TypeOK
  <1> QED BY <1>1, <1>2, <1>3, <1>4, <1>5
          DEF StreamInv, PulledInv, RestInv, ExactInv, StartInv

LEMMA OtherStream ==
  TypeOK /\ StreamInv /\ (Cancel \/ Settle \/ UNCHANGED vars) => TypeOK' /\ StreamInv'
  <1> SUFFICES ASSUME TypeOK, StreamInv, Cancel \/ Settle \/ UNCHANGED vars
               PROVE  TypeOK' /\ StreamInv'
    OBVIOUS
  <1>1. /\ UNCHANGED <<pump, kind, pc, child, at, buf, reader, frame, out, failures,
                       progress, barren, sent>>
        /\ respawned' \in {"settled", respawned}
    BY DEF Cancel, Settle, vars, childVars, frameVars, budgetVars
  <1>2. cancelled' \in BOOLEAN /\ (~cancelled' => ~cancelled)
    <2>1. CASE Cancel
      BY <2>1, Zenon DEF Cancel
    <2>2. CASE ~Cancel
      BY <2>2 DEF Settle, vars, TypeOK
    <2> QED BY <2>1, <2>2
  <1>3. /\ Window' = Window /\ Rest' = Rest /\ This' = This /\ NextFrame' = NextFrame
        /\ Taken(out)' = Taken(out) /\ Taken(out + 1)' = Taken(out + 1)
    BY <1>1 DEF This, Head0, Output, Header, Window, Rest, Taken, NextFrame
  <1>4. TypeOK'
    BY <1>1, <1>2 DEF TypeOK
  <1> QED BY <1>1, <1>2, <1>3, <1>4
          DEF StreamInv, PulledInv, RestInv, ExactInv, StartInv
-----------------------------------------------------------------------------
(* What reaches the publisher *)

\* The ways out of the loop, each with its reason; only a read that ends the
\* input, or a cancelled pump, has none.
LEMMA ReturnStream ==
  TypeOK /\ StreamInv
    /\ (Stop \/ ReadFails \/ RespawnFails \/ GiveUp \/ ParseFails \/ PushFails)
    => TypeOK' /\ StreamInv'
  <1> DEFINE Reasons == {"none", "unreachable", "respawn", "pipe", "parse", "push"}
  <1> SUFFICES ASSUME TypeOK, StreamInv,
                      Stop \/ ReadFails \/ RespawnFails \/ GiveUp \/ ParseFails \/ PushFails
               PROVE  TypeOK' /\ StreamInv'
    OBVIOUS
  <1>1. ASSUME NEW from, NEW reason \in Reasons, Fail(from, reason),
               reason = "none" => cancelled \/ from = "read"
        PROVE  TypeOK' /\ StreamInv'
    <2>1. sent' = reason
      BY <1>1 DEF Fail
    <2>2. Fail(from, sent')
      BY <1>1, <2>1
    <2> QED BY <1>1, <2>1, <2>2, FailStream
  <1>2. CASE Stop
    BY <1>1, <1>2 DEF Stop
  <1>3. CASE ReadFails
    BY <1>1, <1>3 DEF ReadFails
  <1>4. CASE RespawnFails
    BY <1>1, <1>4 DEF RespawnFails
  <1>5. CASE GiveUp
    <2> DEFINE reason == IF is_remote THEN "unreachable" ELSE "none"
    <2>1. Fail("read", reason) /\ reason \in Reasons
      BY <1>5 DEF GiveUp
    <2> QED BY <1>1, <2>1
  <1>6. CASE ParseFails
    BY <1>1, <1>6 DEF ParseFails
  <1>7. CASE PushFails
    BY <1>1, <1>7 DEF PushFails
  <1> QED BY <1>2, <1>3, <1>4, <1>5, <1>6, <1>7

LEMMA StepStream == TypeOK /\ StreamInv /\ [Next]_vars => TypeOK' /\ StreamInv'
  <1> SUFFICES ASSUME TypeOK, StreamInv, [Next]_vars PROVE TypeOK' /\ StreamInv'
    OBVIOUS
  <1>1. CASE Stop \/ ReadFails \/ RespawnFails \/ GiveUp \/ ParseFails \/ PushFails
    BY <1>1, ReturnStream
  <1>2. CASE Read
    BY <1>2, ReadStream
  <1>3. CASE Respawn
    BY <1>3, RespawnStream
  <1>4. CASE Pull
    BY <1>4, PullStream
  <1>5. CASE Prelude
    BY <1>5, PreludeStream
  <1>6. CASE NeedMore
    BY <1>6, NeedMoreStream
  <1>7. CASE Push
    BY <1>7, PushStream
  <1>8. CASE Cancel \/ Settle \/ Returned \/ UNCHANGED vars
    BY <1>8, OtherStream DEF Returned
  <1> QED BY <1>1, <1>2, <1>3, <1>4, <1>5, <1>6, <1>7, <1>8 DEF Next, Reads, Drains

\* The variables of all eight pumps keep their types: failures stays within
\* --reconnect-attempts, at within what a child writes, and no buffer holds
\* anything but units of a child's output.
THEOREM TypeCorrect == Spec => []TypeOK
  <1>1. Init => TypeOK /\ StreamInv
    BY InitStream
  <1>2. TypeOK /\ StreamInv /\ [Next]_vars => TypeOK' /\ StreamInv'
    BY StepStream
  <1> QED BY <1>1, <1>2, PTL DEF Spec

\* However reads cut a child's output, and however often the child is replaced,
\* all eight pumps push whole frames of the child being read, the next one each
\* time: none is torn, skipped, repeated or joined across a respawn
\* (main.rs:530, 779, 999).
THEOREM WholeFramesInOrder == Spec => []PushesNextFrame
  <1>1. Init => TypeOK /\ StreamInv
    BY InitStream
  <1>2. TypeOK /\ StreamInv /\ [Next]_vars => TypeOK' /\ StreamInv'
    BY StepStream
  <1>3. StreamInv => PushesNextFrame
    BY DEF StreamInv, PulledInv, NextFrame, PushesNextFrame
  <1> QED BY <1>1, <1>2, <1>3, PTL DEF Spec

\* When the output has been read to its end, what Rest leaves in buf is less than
\* a frame, or the access unit that next_au holds back.
LEMMA AllTaken == TypeOK /\ StreamInv => PlayedToTheEnd
  <1> SUFFICES ASSUME TypeOK, StreamInv, pc = "returned", sent = "none", ~cancelled,
                      at = Len(Output)
               PROVE  out = IF This.framing = "nextStart" THEN Frames - 1 ELSE Frames
    BY DEF PlayedToTheEnd
  <1>1. Window /\ Rest /\ Taken(out) /\ StartInv
    BY DEF StreamInv, RestInv
  <1>2. /\ pump \in DOMAIN Pumps /\ child \in {0, 1} /\ out \in Nat
        /\ Frames \in Nat \ {0} /\ buf \in Seq(Unit) /\ Len(buf) \in Nat
    BY PumpAssumption DEF TypeOK
  <1>3. /\ This.framing \in {"nextStart", "length", "pages", "exact"}
        /\ This.framing \in {"nextStart", "exact"} => ~This.header
        /\ Head0 \in {0, 1} /\ at = Head0 + 2 * Frames
        /\ (This.header => Head0 = 1) /\ (~This.header => Head0 = 0)
    BY <1>2, FramerIs, OutputIs
  <1>4. buf = <<>> => Len(buf) = 0
    OBVIOUS
  <1>5. CASE This.framing = "nextStart"
    <2>1. Len(buf) <= 2 /\ Len(buf) >= 1
      BY <1>1, <1>2, <1>3, <1>5, EmptySeq DEF Rest, StartInv
    <2>2. at - Len(buf) = 2 * out /\ at = 2 * Frames
      BY <1>1, <1>2, <1>3, <1>5, Between
    <2>3. out = Frames - 1
      BY <1>2, <2>1, <2>2
    <2> QED BY <1>5, <2>3
  <1>6. CASE This.framing = "exact"
    <2>1. Len(buf) <= 1
      BY <1>1, <1>6 DEF Rest
    <2>2. at - Len(buf) = 2 * out /\ at = 2 * Frames
      BY <1>1, <1>2, <1>3, <1>6, Between
    <2>3. out = Frames
      BY <1>2, <2>1, <2>2
    <2> QED BY <1>6, <2>3
  <1>7. CASE This.framing = "length"
    <2>1. Len(buf) <= 1 /\ (This.header /\ reader = <<>> => buf = <<>>)
      BY <1>1, <1>7 DEF Rest
    <2>2. at - Len(buf) = Head0 + 2 * out
      <3>1. CASE ~This.header
        BY <1>1, <1>2, <1>3, <3>1, Between
      <3>2. CASE This.header /\ reader # <<>>
        BY <1>1, <1>2, <1>7, <3>2, Between
      <3>3. CASE This.header /\ reader = <<>>
        <4>1. at = Len(buf)
          BY <1>1, <1>2, <1>7, <3>3, Between
        <4>2. at = 0
          BY <1>4, <2>1, <3>3, <4>1
        <4> QED BY <1>2, <1>3, <4>2
      <3> QED BY <3>1, <3>2, <3>3
    <2>3. out = Frames
      BY <1>2, <1>3, <2>1, <2>2
    <2> QED BY <1>7, <2>3
  <1>8. CASE This.framing = "pages"
    <2>1. Len(buf) = 0
      BY <1>1, <1>4, <1>8 DEF Rest
    <2>2. This.header
      BY <1>2, <1>8, FramerIs
    <2>3. \/ at - Len(buf) = 2 + 2 * out
          \/ at - Len(buf) = 1 + 2 * out
          \/ at = Len(buf)
      BY <1>1, <1>2, <1>8, <2>2, Between
    <2>4. at - Len(buf) = 1 + 2 * Frames
      BY <1>2, <1>3, <2>1, <2>2
    <2>5. out = Frames
      BY <1>2, <1>3, <2>1, <2>2, <2>3, <2>4
    <2> QED BY <1>8, <2>5
  <1> QED BY <1>3, <1>5, <1>6, <1>7, <1>8

\* A pump that returns without a Failed event and was not cancelled, its child's
\* output read to the end, has pushed every frame of it; a video pump of the
\* next_au kind all but the last access unit, which it never asks for with eof
\* set (main.rs:559, 682).
THEOREM EverythingPlayed == Spec => []PlayedToTheEnd
  <1>1. Init => TypeOK /\ StreamInv
    BY InitStream
  <1>2. TypeOK /\ StreamInv /\ [Next]_vars => TypeOK' /\ StreamInv'
    BY StepStream
  <1>3. TypeOK /\ StreamInv => PlayedToTheEnd
    BY AllTaken
  <1> QED BY <1>1, <1>2, <1>3, PTL DEF Spec
=============================================================================
