--------------------------- MODULE DriverProofs -----------------------------
(***************************************************************************)
(* Theorems about two drivers, each for every value of its constants.      *)
(*                                                                         *)
(* CoinPath: the types, that coins are lost, and pulses made twice, in one *)
(* window each and nowhere else.                                           *)
(* SerialPort: the types, and that nothing is reordered.                   *)
(***************************************************************************)
EXTENDS CoinPath, SerialPort, TLAPS

-----------------------------------------------------------------------------
(* The coin path.                                                            *)

Coins == coin_tally.credited + coin_drops
Metered == coin_tally.pulses + coin_counter_control.count

(* The runs that coin_tally counts are the driver's.                         *)
SameRuns == coin_tally.run = coin_switch.on_count

(* Between its copy and its reset get_inputs holds what is accounted for but *)
(* for the coins that are missed.                                            *)
CopyKept ==
  coin_caller.at = "copied" =>
    /\ coin_caller.on_transitions <= coin_switch.on_trans_accum
    /\ Coins + coin_caller.on_transitions >= coin_tally.closings - coin_tally.missed

(* A handler is called for a drop; and between its load and its store the    *)
(* driver holds a count that is behind by the pulses that are undone.        *)
AddKept ==
  /\ coin_caller.at \in {"deliver", "add"} => coin_drops > 0
  /\ coin_caller.at = "add" =>
       /\ coin_caller.register >= coin_counter_control.count
       /\ coin_tally.pulses + coin_caller.register <= coin_tally.added + coin_tally.undone

(* A pulse under way has ticks left.                                         *)
PulseTimed == coin_counter_control.running => coin_counter_control.ticks \in 0 .. 1

CoinInv ==
  /\ CoinTypeOK /\ CoinsKept /\ CoinsMetered
  /\ SameRuns /\ CopyKept /\ AddKept /\ PulseTimed

SwitchType == [on_count : 0 .. OnDebounce + 1, off_count : 0 .. OffDebounce + 1,
               state : {"on", "off"}, on_trans_accum : Nat]
MeterType == [count : Nat, ticks : -1 .. 2, running : BOOLEAN, coil : BOOLEAN]
CallerType == [at : CoinCallers, on_transitions : Nat, register : Nat]
TallyType == [run : 0 .. OnDebounce + 1, closings : Nat, missed : Nat,
              credited : Nat, added : Nat, pulses : Nat, undone : Nat]

-----------------------------------------------------------------------------
(* The two handlers of the interrupt.                                        *)

(* A count of readings stays in its range.                                   *)
LEMMA CountReadingType ==
  ASSUME NEW debounce \in Nat \ {0}, NEW n \in 0 .. debounce + 1
  PROVE  CountReading(n, debounce) \in 0 .. debounce + 1
BY DEF CountReading

(* scan_inputs counts a transition when the run reaches the debounce time.   *)
LEMMA ScanInputs ==
  ASSUME NEW s \in SwitchType, NEW closed \in BOOLEAN
  PROVE  LET run == IF closed THEN CountReading(s.on_count, OnDebounce) ELSE 0
             next == scan_inputs(s, closed)
         IN  /\ next \in SwitchType
             /\ next.on_count = run
             /\ next.on_trans_accum = IF run = OnDebounce THEN s.on_trans_accum + 1
                                      ELSE s.on_trans_accum
<1> USE CoinAssumption
<1>1. /\ s.on_count \in 0 .. OnDebounce + 1 /\ s.off_count \in 0 .. OffDebounce + 1
      /\ s.state \in {"on", "off"} /\ s.on_trans_accum \in Nat
      /\ OnDebounce \in Nat \ {0} /\ OffDebounce \in Nat \ {0}
  BY DEF SwitchType
<1>2. CASE closed
  <2> DEFINE n == CountReading(s.on_count, OnDebounce)
             fires == n = OnDebounce
             st == IF fires THEN "on" ELSE s.state
             ac == IF fires THEN s.on_trans_accum + 1 ELSE s.on_trans_accum
  <2>1. n \in 0 .. OnDebounce + 1
    BY <1>1, CountReadingType
  <2>2. st \in {"on", "off"} /\ ac \in Nat /\ 0 \in 0 .. OffDebounce + 1
    BY <1>1
  <2>3. scan_inputs(s, closed) = [s EXCEPT !.on_count = n, !.off_count = 0,
                                           !.state = st, !.on_trans_accum = ac]
    BY <1>2 DEF scan_inputs
  <2> HIDE DEF n, st, ac
  <2>4. scan_inputs(s, closed) \in SwitchType /\ scan_inputs(s, closed).on_count = n
        /\ scan_inputs(s, closed).on_trans_accum = ac
    BY <2>1, <2>2, <2>3 DEF SwitchType
  <2> QED
    BY <1>2, <2>4 DEF n, ac
<1>3. CASE ~closed
  <2> DEFINE n == CountReading(s.off_count, OffDebounce)
             st == IF n = OffDebounce THEN "off" ELSE s.state
  <2>1. n \in 0 .. OffDebounce + 1
    BY <1>1, CountReadingType
  <2>2. st \in {"on", "off"} /\ 0 \in 0 .. OnDebounce + 1 /\ 0 # OnDebounce
    BY <1>1
  <2>3. scan_inputs(s, closed) = [s EXCEPT !.off_count = n, !.on_count = 0, !.state = st]
    BY <1>3 DEF scan_inputs
  <2> HIDE DEF n, st
  <2>4. scan_inputs(s, closed) \in SwitchType /\ scan_inputs(s, closed).on_count = 0
        /\ scan_inputs(s, closed).on_trans_accum = s.on_trans_accum
    BY <2>1, <2>2, <2>3 DEF SwitchType
  <2> QED
    BY <1>3, <2>2, <2>4
<1> QED
  BY <1>2, <1>3

(* coinintr takes at most one off the count, and none off a count of zero.   *)
LEMMA CoinIntr ==
  ASSUME NEW m \in MeterType, m.running => m.ticks \in 0 .. 1
  PROVE  /\ coinintr(m) \in MeterType
         /\ coinintr(m).running => coinintr(m).ticks \in 0 .. 1
         /\ coinintr(m).count \in {m.count, m.count - 1}
<1>1. CASE m.count = 0
  BY <1>1 DEF coinintr
<1>2. CASE m.count # 0
  <2> DEFINE started == IF m.running THEN m ELSE [m EXCEPT !.running = TRUE, !.ticks = 2]
             ended == IF started.ticks # 0 THEN started
                      ELSE [started EXCEPT !.running = FALSE, !.count = @ - 1]
             coil == CASE ended.ticks = 2 -> TRUE
                       [] ended.ticks = 1 -> FALSE
                       [] OTHER -> ended.coil
  <2>1. started \in MeterType /\ started.running /\ started.ticks \in 0 .. 2
        /\ started.count = m.count
    <3>1. CASE m.running
      <4>1. started = m
        BY <3>1
      <4> QED
        BY <3>1, <4>1
    <3>2. CASE ~m.running
      <4> DEFINE on == [m EXCEPT !.running = TRUE, !.ticks = 2]
      <4>1. on \in MeterType /\ on.running = TRUE /\ on.ticks = 2 /\ on.count = m.count
        BY 2 \in -1 .. 2, TRUE \in BOOLEAN DEF MeterType
      <4> HIDE DEF on
      <4>2. started = on
        BY <3>2 DEF on
      <4> QED
        BY <4>1, <4>2
    <3> QED
      BY <3>1, <3>2
  <2>2. ended = IF started.ticks # 0 THEN started
                ELSE [started EXCEPT !.running = FALSE, !.count = started.count - 1]
    OBVIOUS
  <2> HIDE DEF started
  <2>3. started.count - 1 \in Nat
    BY <1>2, <2>1 DEF MeterType
  <2>4. /\ ended \in MeterType /\ ended.ticks = started.ticks
        /\ ended.count \in {m.count, m.count - 1}
        /\ ended.running => ended.ticks # 0
    BY <2>1, <2>2, <2>3 DEF MeterType
  <2>5. coinintr(m) = [ended EXCEPT !.ticks = ended.ticks - 1, !.coil = coil]
    BY <1>2 DEF coinintr, started
  <2>6. ended.coil \in BOOLEAN
    BY <2>4 DEF MeterType
  <2> HIDE DEF ended
  <2>7. coil \in BOOLEAN
    BY <2>6
  <2>8. PICK c \in BOOLEAN : coinintr(m) = [ended EXCEPT !.ticks = ended.ticks - 1, !.coil = c]
    <3> HIDE DEF coil
    <3> QED
      BY <2>5, <2>7, Zenon
  <2>9. ended.ticks - 1 \in -1 .. 2 /\ (ended.ticks # 0 => ended.ticks - 1 \in 0 .. 1)
    BY <2>1, <2>4
  <2>10. /\ coinintr(m) \in MeterType /\ coinintr(m).ticks = ended.ticks - 1
         /\ coinintr(m).running = ended.running /\ coinintr(m).count = ended.count
    BY <2>4, <2>8, <2>9 DEF MeterType
  <2> QED
    BY <2>4, <2>9, <2>10
<1> QED
  BY <1>1, <1>2

-----------------------------------------------------------------------------
(* The invariant holds at the start, and every step keeps it.                *)

(* The parts of the types, and of the sums the properties speak of.          *)
LEMMA CoinParts ==
  ASSUME CoinInv
  PROVE  /\ coin_switch \in SwitchType /\ coin_drops \in Nat
         /\ coin_counter_control \in MeterType /\ coin_drv_open \in BOOLEAN
         /\ coin_caller \in CallerType /\ coin_tally \in TallyType
         /\ coin_switch.on_count \in 0 .. OnDebounce + 1
         /\ coin_switch.on_trans_accum \in Nat
         /\ coin_counter_control.count \in Nat
         /\ coin_caller.on_transitions \in Nat /\ coin_caller.register \in Nat
         /\ coin_tally.closings \in Nat /\ coin_tally.missed \in Nat
         /\ coin_tally.credited \in Nat /\ coin_tally.added \in Nat
         /\ coin_tally.pulses \in Nat /\ coin_tally.undone \in Nat
<1>1. /\ coin_switch \in SwitchType /\ coin_drops \in Nat
      /\ coin_counter_control \in MeterType /\ coin_drv_open \in BOOLEAN
      /\ coin_caller \in CallerType /\ coin_tally \in TallyType
  BY DEF CoinInv, CoinTypeOK, SwitchType, MeterType, CallerType, TallyType
<1>2. coin_switch.on_count \in 0 .. OnDebounce + 1 /\ coin_switch.on_trans_accum \in Nat
  BY <1>1 DEF SwitchType
<1>3. coin_counter_control.count \in Nat
  BY <1>1 DEF MeterType
<1>4. coin_caller.on_transitions \in Nat /\ coin_caller.register \in Nat
  BY <1>1 DEF CallerType
<1>5. /\ coin_tally.closings \in Nat /\ coin_tally.missed \in Nat
      /\ coin_tally.credited \in Nat /\ coin_tally.added \in Nat
      /\ coin_tally.pulses \in Nat /\ coin_tally.undone \in Nat
  BY <1>1 DEF TallyType
<1> QED
  BY <1>1, <1>2, <1>3, <1>4, <1>5

(* At the start nothing is owed and nothing is under way.                    *)
LEMMA CoinInvInit == CoinInit => CoinInv
<1> SUFFICES ASSUME CoinInit PROVE CoinInv
  OBVIOUS
<1>1. /\ 0 \in 0 .. MeterPeriod - 1 /\ 0 \in 0 .. OnDebounce + 1 /\ 0 \in 0 .. OffDebounce + 1
      /\ 0 \in -1 .. 2
  BY CoinAssumption
<1>2. coin_switch \in SwitchType /\ coin_switch.on_count = 0 /\ coin_switch.on_trans_accum = 0
  BY <1>1 DEF CoinInit, SwitchType
<1>3. /\ coin_counter_control \in MeterType /\ coin_counter_control.running = FALSE
      /\ coin_counter_control.count = 0
  BY <1>1 DEF CoinInit, Cleared, MeterType
<1>4. coin_caller \in CallerType /\ coin_caller.at = "rest"
  BY DEF CoinInit, CallerType, CoinCallers
<1>5. /\ coin_tally \in TallyType /\ coin_tally.run = 0
      /\ coin_tally.closings = 0 /\ coin_tally.missed = 0 /\ coin_tally.credited = 0
      /\ coin_tally.added = 0 /\ coin_tally.pulses = 0 /\ coin_tally.undone = 0
  BY <1>1 DEF CoinInit, TallyType
<1>6. CoinTypeOK
  BY <1>1, <1>2, <1>3, <1>4, <1>5
  DEF CoinInit, CoinTypeOK, SwitchType, MeterType, CallerType, TallyType
<1>7. CoinsKept /\ CoinsMetered /\ SameRuns
  BY <1>2, <1>3, <1>5 DEF CoinInit, CoinsKept, CoinsMetered, SameRuns
<1>8. CopyKept /\ AddKept /\ PulseTimed
  BY <1>3, <1>4 DEF CopyKept, AddKept, PulseTimed
<1> QED
  BY <1>6, <1>7, <1>8 DEF CoinInv

(* The interrupt: a run that reaches the debounce time is a transition and a *)
(* closing, and missed only if get_inputs has its copy; a pulse is one less  *)
(* to come, and undone only if the driver has loaded the count.              *)
LEMMA InterruptSteps ==
  ASSUME CoinInv, NEW closed \in BOOLEAN, nile4_watchdog_handler(closed)
  PROVE  CoinInv'
<1> DEFINE strobe == watchdog_count = MeterPeriod - 1
           run == IF closed THEN CountReading(coin_tally.run, OnDebounce) ELSE 0
           pulse == coin_counter_control'.count # coin_counter_control.count
           closings == IF run = OnDebounce THEN coin_tally.closings + 1
                       ELSE coin_tally.closings
           missed == IF run = OnDebounce /\ coin_caller.at = "copied"
                     THEN coin_tally.missed + 1 ELSE coin_tally.missed
           pulses == IF pulse THEN coin_tally.pulses + 1 ELSE coin_tally.pulses
           undone == IF pulse /\ coin_caller.at = "add"
                     THEN coin_tally.undone + 1 ELSE coin_tally.undone
<1>1. UNCHANGED <<coin_drops, coin_drv_open, coin_caller>>
  BY DEF nile4_watchdog_handler
<1>2. watchdog_count' \in 0 .. MeterPeriod - 1
  BY CoinAssumption DEF nile4_watchdog_handler, CoinInv, CoinTypeOK
<1>3. /\ coin_switch' \in SwitchType
      /\ coin_switch'.on_count = run
      /\ coin_switch'.on_trans_accum = IF run = OnDebounce
                                       THEN coin_switch.on_trans_accum + 1
                                       ELSE coin_switch.on_trans_accum
  <2>1. run = IF closed THEN CountReading(coin_switch.on_count, OnDebounce) ELSE 0
    BY DEF CoinInv, SameRuns
  <2>2. coin_switch' = scan_inputs(coin_switch, closed)
    BY DEF nile4_watchdog_handler
  <2> QED
    BY <2>1, <2>2, CoinParts, ScanInputs
<1>4. /\ coin_counter_control' \in MeterType
      /\ coin_counter_control'.running => coin_counter_control'.ticks \in 0 .. 1
      /\ coin_counter_control'.count \in {coin_counter_control.count,
                                           coin_counter_control.count - 1}
      /\ coin_counter_control'.count \in Nat
  <2>1. coin_counter_control' = IF strobe THEN coinintr(coin_counter_control)
                                ELSE coin_counter_control
    BY DEF nile4_watchdog_handler
  <2>2. coin_counter_control.running => coin_counter_control.ticks \in 0 .. 1
    BY DEF CoinInv, PulseTimed
  <2>3. CASE strobe
    BY <2>1, <2>2, <2>3, CoinParts, CoinIntr DEF MeterType
  <2>4. CASE ~strobe
    BY <2>1, <2>2, <2>4, CoinParts
  <2> QED
    BY <2>3, <2>4
<1>5. run \in 0 .. OnDebounce + 1 /\ closings \in Nat /\ missed \in Nat
      /\ pulses \in Nat /\ undone \in Nat
  <2>1. run \in 0 .. OnDebounce + 1
    BY <1>3 DEF SwitchType
  <2> QED
    BY <2>1, CoinParts
<1>6. coin_tally' = [coin_tally EXCEPT !.run = run, !.closings = closings, !.missed = missed,
                                       !.pulses = pulses, !.undone = undone]
  <2> DEFINE B2N(b) == IF b THEN 1 ELSE 0
  <2>1. coin_counter_control' = IF strobe THEN coinintr(coin_counter_control)
                                ELSE coin_counter_control
    BY DEF nile4_watchdog_handler
  <2>2. coin_tally' = [coin_tally EXCEPT
                         !.run = run,
                         !.closings = coin_tally.closings + B2N(run = OnDebounce),
                         !.missed = coin_tally.missed
                                      + B2N(run = OnDebounce /\ coin_caller.at = "copied"),
                         !.pulses = coin_tally.pulses + B2N(pulse),
                         !.undone = coin_tally.undone + B2N(pulse /\ coin_caller.at = "add")]
    BY <2>1 DEF nile4_watchdog_handler
  <2>3. /\ coin_tally.closings + B2N(run = OnDebounce) = closings
        /\ coin_tally.missed + B2N(run = OnDebounce /\ coin_caller.at = "copied") = missed
    BY CoinParts
  <2>4. /\ coin_tally.pulses + B2N(pulse) = pulses
        /\ coin_tally.undone + B2N(pulse /\ coin_caller.at = "add") = undone
    BY CoinParts
  <2> HIDE DEF B2N, run, closings, missed, pulses, undone, pulse
  <2> QED
    BY <2>2, <2>3, <2>4
<1> HIDE DEF run, closings, missed, pulses, undone
<1>7. /\ coin_tally' \in TallyType
      /\ coin_tally'.run = run /\ coin_tally'.closings = closings
      /\ coin_tally'.missed = missed /\ coin_tally'.pulses = pulses
      /\ coin_tally'.undone = undone
      /\ coin_tally'.credited = coin_tally.credited /\ coin_tally'.added = coin_tally.added
  BY <1>5, <1>6, CoinParts DEF TallyType
<1>8. CoinTypeOK'
  BY <1>1, <1>2, <1>3, <1>4, <1>7
  DEF CoinInv, CoinTypeOK, SwitchType, MeterType, CallerType, TallyType
<1>9. CoinsKept' /\ CopyKept'
  BY <1>1, <1>3, <1>7, CoinParts DEF CoinInv, CoinsKept, CopyKept, Coins, closings, missed
<1>10. CoinsMetered' /\ AddKept'
  BY <1>1, <1>4, <1>7, CoinParts DEF CoinInv, CoinsMetered, AddKept, pulses, undone
<1>11. SameRuns' /\ PulseTimed'
  BY <1>3, <1>4, <1>7 DEF SameRuns, PulseTimed
<1> QED
  BY <1>8, <1>9, <1>10, <1>11 DEF CoinInv

(* The program's copy and reset: what came since the copy is lost.           *)
LEMMA CopyStep ==
  ASSUME CoinInv, get_inputs_copies
  PROVE  CoinInv'
<1> USE DEF get_inputs_copies
<1>1. /\ coin_caller' \in CallerType /\ coin_caller'.at = "copied"
      /\ coin_caller'.on_transitions = coin_switch.on_trans_accum
  BY CoinParts DEF CallerType, CoinCallers
<1>2. CoinTypeOK'
  BY <1>1 DEF CoinInv, CoinTypeOK, CallerType
<1>3. CoinsKept' /\ CoinsMetered' /\ SameRuns' /\ PulseTimed'
  BY DEF CoinInv, CoinsKept, CoinsMetered, SameRuns, PulseTimed
<1>4. CopyKept'
  BY <1>1, CoinParts DEF CoinInv, CoinsKept, CopyKept, Coins
<1>5. AddKept'
  BY <1>1 DEF AddKept
<1> QED
  BY <1>2, <1>3, <1>4, <1>5 DEF CoinInv

(* The reset: the copy is in the drops, and what came since is missed.       *)
LEMMA ResetStep ==
  ASSUME CoinInv, get_inputs_resets
  PROVE  CoinInv'
<1> USE DEF get_inputs_resets
<1> DEFINE drops == coin_drops + coin_caller.on_transitions
<1>1. coin_drops' = drops /\ drops \in Nat
  BY CoinParts
<1>2. /\ coin_switch' \in SwitchType /\ coin_switch'.on_trans_accum = 0
      /\ coin_switch'.on_count = coin_switch.on_count
  BY CoinParts DEF SwitchType
<1>3. /\ coin_caller' \in CallerType
      /\ coin_caller'.at = IF drops > 0 THEN "deliver" ELSE "rest"
  <2>1. ASSUME NEW at \in {"deliver", "rest"}
        PROVE  LET c == [coin_caller EXCEPT !.at = at, !.on_transitions = 0]
               IN  c \in CallerType /\ c.at = at
    BY CoinParts DEF CallerType, CoinCallers
  <2> QED
    BY <2>1
<1>4. CoinTypeOK'
  BY <1>1, <1>2, <1>3 DEF CoinInv, CoinTypeOK, SwitchType, CallerType
<1>5. CoinsKept'
  BY <1>1, <1>2, CoinParts DEF CoinInv, CoinsKept, CopyKept, Coins
<1>6. CoinsMetered' /\ SameRuns' /\ PulseTimed'
  BY <1>2 DEF CoinInv, CoinsMetered, SameRuns, PulseTimed
<1>7. CopyKept' /\ AddKept'
  BY <1>1, <1>3 DEF CopyKept, AddKept
<1> QED
  BY <1>4, <1>5, <1>6, <1>7 DEF CoinInv

(* A drop is taken off when its handler returns.                             *)
LEMMA DropStep ==
  ASSUME CoinInv, DropTaken, coin_drops > 0
  PROVE  /\ coin_drops' = coin_drops - 1 /\ coin_drops' \in Nat
         /\ coin_caller' \in CallerType
         /\ coin_caller'.at = IF coin_drops > 1 THEN "deliver" ELSE "rest"
<1>1. ASSUME NEW at \in {"deliver", "rest"}
      PROVE  LET c == [coin_caller EXCEPT !.at = at, !.register = 0]
             IN  c \in CallerType /\ c.at = at
  BY CoinParts DEF CallerType, CoinCallers
<1>2. coin_drops' = coin_drops - 1 /\ coin_drops' \in Nat
  BY CoinParts DEF DropTaken
<1>3. CASE coin_drops > 1
  <2>1. coin_caller' = [coin_caller EXCEPT !.at = "deliver", !.register = 0]
    BY <1>3 DEF DropTaken
  <2>2. coin_caller' \in CallerType /\ coin_caller'.at = "deliver"
    BY <1>1, <2>1
  <2> QED
    BY <1>2, <1>3, <2>2
<1>4. CASE ~(coin_drops > 1)
  <2>1. coin_caller' = [coin_caller EXCEPT !.at = "rest", !.register = 0]
    BY <1>4 DEF DropTaken
  <2>2. coin_caller' \in CallerType /\ coin_caller'.at = "rest"
    BY <1>1, <2>1
  <2> QED
    BY <1>2, <1>4, <2>2
<1> QED
  BY <1>3, <1>4

(* A closed driver: the credit is given and the meter owes nothing more.     *)
LEMMA RefuseStep ==
  ASSUME CoinInv, coinioctl_refuses
  PROVE  CoinInv'
<1> USE DEF coinioctl_refuses
<1>1. coin_drops > 0
  BY DEF CoinInv, AddKept
<1>2. /\ coin_drops' = coin_drops - 1 /\ coin_drops' \in Nat
      /\ coin_caller' \in CallerType
      /\ coin_caller'.at = IF coin_drops > 1 THEN "deliver" ELSE "rest"
  BY <1>1, DropStep
<1>3. /\ coin_tally' \in TallyType
      /\ coin_tally'.credited = coin_tally.credited + 1
      /\ coin_tally'.run = coin_tally.run /\ coin_tally'.closings = coin_tally.closings
      /\ coin_tally'.missed = coin_tally.missed /\ coin_tally'.pulses = coin_tally.pulses
      /\ coin_tally'.undone = coin_tally.undone /\ coin_tally'.added = coin_tally.added
  BY CoinParts DEF TallyType
<1>4. CoinTypeOK'
  BY <1>2, <1>3 DEF CoinInv, CoinTypeOK, CallerType, TallyType
<1>5. CoinsKept' /\ CoinsMetered' /\ SameRuns'
  BY <1>2, <1>3, CoinParts DEF CoinInv, CoinsKept, CoinsMetered, SameRuns
<1>6. CopyKept' /\ AddKept' /\ PulseTimed'
  BY <1>2, CoinParts DEF CoinInv, CopyKept, AddKept, PulseTimed
<1> QED
  BY <1>4, <1>5, <1>6 DEF CoinInv

(* The driver's load and store: what ends in between is undone.              *)
LEMMA LoadStep ==
  ASSUME CoinInv, coinioctl_loads
  PROVE  CoinInv'
<1> USE DEF coinioctl_loads
<1>1. /\ coin_caller' \in CallerType /\ coin_caller'.at = "add"
      /\ coin_caller'.register = coin_counter_control.count
  BY CoinParts DEF CallerType, CoinCallers
<1>2. CoinTypeOK'
  BY <1>1 DEF CoinInv, CoinTypeOK, CallerType
<1>3. CoinsKept' /\ CoinsMetered' /\ SameRuns' /\ PulseTimed'
  BY DEF CoinInv, CoinsKept, CoinsMetered, SameRuns, PulseTimed
<1>4. CopyKept'
  BY <1>1 DEF CopyKept
<1>5. AddKept'
  BY <1>1, CoinParts DEF CoinInv, CoinsMetered, AddKept
<1> QED
  BY <1>2, <1>3, <1>4, <1>5 DEF CoinInv

(* The store: the count is the one loaded and one more, whatever ended since.*)
LEMMA StoreStep ==
  ASSUME CoinInv, coinioctl_stores
  PROVE  CoinInv'
<1> USE DEF coinioctl_stores
<1>1. /\ coin_drops > 0 /\ coin_caller.register >= coin_counter_control.count
      /\ coin_tally.pulses + coin_caller.register <= coin_tally.added + coin_tally.undone
  BY DEF CoinInv, AddKept
<1>2. /\ coin_drops' = coin_drops - 1 /\ coin_drops' \in Nat
      /\ coin_caller' \in CallerType
      /\ coin_caller'.at = IF coin_drops > 1 THEN "deliver" ELSE "rest"
  BY <1>1, DropStep
<1>3. /\ coin_tally' \in TallyType
      /\ coin_tally'.credited = coin_tally.credited + 1
      /\ coin_tally'.added = coin_tally.added + 1
      /\ coin_tally'.run = coin_tally.run /\ coin_tally'.closings = coin_tally.closings
      /\ coin_tally'.missed = coin_tally.missed /\ coin_tally'.pulses = coin_tally.pulses
      /\ coin_tally'.undone = coin_tally.undone
  <2>1. ASSUME NEW credited \in Nat, NEW added \in Nat
        PROVE  LET t == [coin_tally EXCEPT !.credited = credited, !.added = added]
               IN  /\ t \in TallyType /\ t.credited = credited /\ t.added = added
                   /\ t.run = coin_tally.run /\ t.closings = coin_tally.closings
                   /\ t.missed = coin_tally.missed /\ t.pulses = coin_tally.pulses
                   /\ t.undone = coin_tally.undone
    BY CoinParts DEF TallyType
  <2>2. coin_tally.credited + 1 \in Nat /\ coin_tally.added + 1 \in Nat
    BY CoinParts
  <2>3. coin_tally' = [coin_tally EXCEPT !.credited = coin_tally.credited + 1,
                                         !.added = coin_tally.added + 1]
    OBVIOUS
  <2> DEFINE given == coin_tally.credited + 1
             asked == coin_tally.added + 1
  <2>4. given \in Nat /\ asked \in Nat
    BY <2>2
  <2>5. coin_tally' = [coin_tally EXCEPT !.credited = given, !.added = asked]
    BY <2>3
  <2> HIDE DEF coinioctl_stores, given, asked
  <2>6. /\ coin_tally' \in TallyType
        /\ coin_tally'.credited = given /\ coin_tally'.added = asked
        /\ coin_tally'.run = coin_tally.run /\ coin_tally'.closings = coin_tally.closings
        /\ coin_tally'.missed = coin_tally.missed /\ coin_tally'.pulses = coin_tally.pulses
        /\ coin_tally'.undone = coin_tally.undone
    BY <2>1, <2>4, <2>5
  <2> QED
    BY <2>6 DEF given, asked
<1>4. /\ coin_counter_control' \in MeterType
      /\ coin_counter_control'.count = coin_caller.register + 1
      /\ coin_counter_control'.running = coin_counter_control.running
      /\ coin_counter_control'.ticks = coin_counter_control.ticks
  BY CoinParts DEF MeterType
<1>5. CoinTypeOK'
  BY <1>2, <1>3, <1>4 DEF CoinInv, CoinTypeOK, MeterType, CallerType, TallyType
<1>6. CoinsKept' /\ SameRuns'
  BY <1>2, <1>3, CoinParts DEF CoinInv, CoinsKept, SameRuns
<1>7. CoinsMetered'
  BY <1>1, <1>3, <1>4, CoinParts DEF CoinInv, CoinsMetered
<1>8. CopyKept' /\ AddKept'
  BY <1>2, CoinParts DEF CopyKept, AddKept
<1>9. PulseTimed'
  BY <1>4 DEF CoinInv, PulseTimed
<1> QED
  BY <1>5, <1>6, <1>7, <1>8, <1>9 DEF CoinInv

(* Opening, clearing and closing come when no coin is being handled.         *)
LEMMA ClearStep ==
  ASSUME CoinInv, NEW opened \in BOOLEAN, ClearCounts(opened)
  PROVE  CoinInv'
<1> USE DEF ClearCounts
<1>1. /\ coin_tally' \in TallyType
      /\ coin_tally'.added = 0 /\ coin_tally'.pulses = 0 /\ coin_tally'.undone = 0
      /\ coin_tally'.credited = coin_tally.credited /\ coin_tally'.run = coin_tally.run
      /\ coin_tally'.closings = coin_tally.closings /\ coin_tally'.missed = coin_tally.missed
  BY CoinParts DEF TallyType
<1>2. /\ coin_counter_control' \in MeterType /\ coin_counter_control'.count = 0
      /\ coin_counter_control'.running = FALSE
  BY 0 \in -1 .. 2 DEF Cleared, MeterType
<1>3. CoinTypeOK'
  BY <1>1, <1>2 DEF CoinInv, CoinTypeOK, MeterType, TallyType
<1>4. CoinsKept' /\ CoinsMetered' /\ SameRuns'
  BY <1>1, <1>2 DEF CoinInv, CoinsKept, CoinsMetered, SameRuns
<1>5. CopyKept' /\ AddKept' /\ PulseTimed'
  BY <1>2 DEF CopyKept, AddKept, PulseTimed
<1> QED
  BY <1>3, <1>4, <1>5 DEF CoinInv

(* Closing leaves the meter to the interrupt.                                *)
LEMMA CloseStep ==
  ASSUME CoinInv, coinclose
  PROVE  CoinInv'
<1> USE DEF coinclose
<1>1. CoinTypeOK'
  BY DEF CoinInv, CoinTypeOK
<1>2. CoinsKept' /\ CoinsMetered' /\ SameRuns' /\ CopyKept' /\ AddKept' /\ PulseTimed'
  BY DEF CoinInv, CoinsKept, CoinsMetered, SameRuns, CopyKept, AddKept, PulseTimed, Coins
<1> QED
  BY <1>1, <1>2 DEF CoinInv

-----------------------------------------------------------------------------
(* The theorems.                                                             *)

(* The invariant: what holds between the copy and the reset of get_inputs,   *)
(* between the load and the store of coinioctl, and within a pulse.          *)
THEOREM CoinInvariant == CoinSpec => []CoinInv
<1>1. CoinInit => CoinInv
  BY CoinInvInit
<1>2. CoinInv /\ [CoinNext]_coin_vars => CoinInv'
  <2> SUFFICES ASSUME CoinInv, [CoinNext]_coin_vars PROVE CoinInv'
    OBVIOUS
  <2>1. CASE CoinNext
    BY <2>1, InterruptSteps, CopyStep, ResetStep, RefuseStep, LoadStep, StoreStep,
       ClearStep, CloseStep DEF CoinNext, scan_switches
  <2>2. CASE UNCHANGED coin_vars
    <3>1. CoinTypeOK'
      BY <2>2 DEF coin_vars, CoinInv, CoinTypeOK
    <3>2. CoinsKept' /\ CoinsMetered' /\ SameRuns' /\ CopyKept' /\ AddKept' /\ PulseTimed'
      BY <2>2 DEF coin_vars, CoinInv, CoinsKept, CoinsMetered, SameRuns, CopyKept, AddKept,
                  PulseTimed, Coins
    <3> QED
      BY <3>1, <3>2 DEF CoinInv
  <2> QED
    BY <2>1, <2>2
<1> QED
  BY <1>1, <1>2, PTL DEF CoinSpec

(* No coin is invented, and none is lost but those whose debounce time ended *)
(* between the copy and the reset of get_inputs (SWITCH.C:476, 481).         *)
THEOREM CoinsAreKept == CoinSpec => []CoinsKept
<1>1. CoinInv => CoinsKept
  BY DEF CoinInv
<1> QED
  BY <1>1, CoinInvariant, PTL

(* The meter makes a pulse for every count added, and more only for those    *)
(* that ended between the load and the store of coinioctl (COINDRV.C:113).   *)
THEOREM CoinsAreMetered == CoinSpec => []CoinsMetered
<1>1. CoinInv => CoinsMetered
  BY DEF CoinInv
<1> QED
  BY <1>1, CoinInvariant, PTL

-----------------------------------------------------------------------------
(* The serial port.                                                          *)

(* How far slot b is behind slot a, going round.                             *)
Dist(a, b) == IF b >= a THEN b - a ELSE CBUFSIZE - a + b

(* The slot the next character is taken from, the step past the end undone.  *)
OutSlot(cb) == IF cb.cb_out >= CBUFSIZE THEN 0 ELSE cb.cb_out

(* From the slot "out" on the buffer holds the characters first + 1 .. last. *)
Holds(cb, out, first, last) ==
  /\ last - first = Dist(out, cb.cb_in)
  /\ \A i \in Slots : Dist(out, i) < Dist(out, cb.cb_in)
                        => cb.cb_buf[i] = first + 1 + Dist(out, i)

(* What makes the types and the order inductive: both buffers hold what was  *)
(* accepted and not yet passed on; the writer that has found room still has  *)
(* it; a call under way has characters left; and a reader between the step   *)
(* past the end and the wrap has left room for the one character that can    *)
(* come in between.                                                          *)
OutExact == Holds(NILE4OQueue, NILE4OQueue.cb_out, line, put)

InExact == Holds(NILE4Queue, OutSlot(NILE4Queue), taken, heard)

CallerReady ==
  /\ tty_caller.at = "put" => ~circ_full(NILE4OQueue)
  /\ tty_caller.at \in {"full", "put", "read", "wrap"} => tty_caller.left > 0
  /\ tty_caller.at = "wrap" /\ ~tty_caller.heard =>
       SlotAfter(NILE4Queue.cb_in) # OutSlot(NILE4Queue)

TtyInv == TtyTypeOK /\ OutExact /\ InExact /\ CallerReady

Buffers == [cb_in : Slots, cb_out : 0 .. CBUFSIZE, cb_buf : [Slots -> Nat]]

-----------------------------------------------------------------------------
(* Going round.                                                              *)

(* The slot behind a slot is a slot, and no two slots have the same one.     *)
LEMMA SlotAfterType ==
  ASSUME NEW i \in Slots
  PROVE  SlotAfter(i) \in Slots
BY SerialAssumption DEF Slots, SlotAfter

LEMMA SlotAfterInjective ==
  ASSUME NEW i \in Slots, NEW j \in Slots, SlotAfter(i) = SlotAfter(j)
  PROVE  i = j
BY SerialAssumption DEF Slots, SlotAfter

(* One character less: every other slot is one nearer.                       *)
LEMMA GetDist ==
  ASSUME NEW out \in Slots, NEW in \in Slots, out # in, NEW i \in Slots
  PROVE  /\ Dist(SlotAfter(out), in) = Dist(out, in) - 1
         /\ Dist(SlotAfter(out), i) < Dist(SlotAfter(out), in) =>
              Dist(out, i) = Dist(SlotAfter(out), i) + 1
BY SerialAssumption DEF Slots, SlotAfter, Dist

(* One character more, where there is room: only its slot is added.          *)
LEMMA PutDist ==
  ASSUME NEW out \in Slots, NEW in \in Slots, SlotAfter(in) # out, NEW i \in Slots
  PROVE  /\ Dist(out, SlotAfter(in)) = Dist(out, in) + 1
         /\ Dist(out, i) < Dist(out, SlotAfter(in)) =>
              i = in \/ Dist(out, i) < Dist(out, in)
BY SerialAssumption DEF Slots, SlotAfter, Dist

(* Distances are numbers, and only a slot is at no distance from itself.     *)
LEMMA DistType ==
  ASSUME NEW out \in Slots, NEW in \in Slots
  PROVE  /\ Dist(out, in) \in Nat
         /\ Dist(out, out) = 0
         /\ out # in => Dist(out, in) > 0
BY SerialAssumption DEF Slots, Dist

(* A buffer whose two slots are slots is a buffer at rest, and the other way *)
(* round.                                                                    *)
LEMMA BufferKinds ==
  ASSUME NEW cb
  PROVE  cb \in TtyBuffers <=> cb \in Buffers /\ cb.cb_out \in Slots
<1>1. Slots \subseteq 0 .. CBUFSIZE
  BY SerialAssumption DEF Slots
<1> QED
  BY <1>1 DEF TtyBuffers, Buffers

-----------------------------------------------------------------------------
(* What the two operations of a buffer do to its contents.                   *)

(* Taking a character out of a buffer that is not empty gives the oldest.    *)
LEMMA GetHolds ==
  ASSUME NEW cb \in Buffers, NEW out \in Slots, NEW first \in Nat, NEW last \in Nat,
         Holds(cb, out, first, last), out # cb.cb_in
  PROVE  /\ cb.cb_buf[out] = first + 1
         /\ Holds(cb, SlotAfter(out), first + 1, last)
<1> DEFINE in == cb.cb_in
<1>1. in \in Slots
  BY DEF Buffers
<1>2. cb.cb_buf[out] = first + 1
  BY <1>1, DistType DEF Holds
<1>3. last - (first + 1) = Dist(SlotAfter(out), in)
  BY <1>1, GetDist, DistType DEF Holds
<1>4. ASSUME NEW i \in Slots, Dist(SlotAfter(out), i) < Dist(SlotAfter(out), in)
      PROVE  cb.cb_buf[i] = first + 1 + 1 + Dist(SlotAfter(out), i)
  <2>1. Dist(out, i) = Dist(SlotAfter(out), i) + 1
    BY <1>1, <1>4, GetDist
  <2>2. Dist(out, i) < Dist(out, in)
    BY <2>1, <1>1, <1>4, GetDist, DistType, SlotAfterType
  <2>3. cb.cb_buf[i] = first + 1 + Dist(out, i)
    BY <2>2 DEF Holds
  <2> QED
    BY <2>1, <2>3, DistType, SlotAfterType
<1> QED
  BY <1>2, <1>3, <1>4 DEF Holds

(* Putting one in where there is room makes it the youngest.                 *)
LEMMA PutHolds ==
  ASSUME NEW cb \in Buffers, NEW out \in Slots, NEW first \in Nat, NEW last \in Nat,
         Holds(cb, out, first, last), SlotAfter(cb.cb_in) # out
  PROVE  LET filled == [cb EXCEPT !.cb_buf[cb.cb_in] = last + 1,
                                  !.cb_in = SlotAfter(@)]
         IN  /\ filled \in Buffers
             /\ filled.cb_out = cb.cb_out
             /\ Holds(filled, out, first, last + 1)
<1> DEFINE in == cb.cb_in
           filled == [cb EXCEPT !.cb_buf[cb.cb_in] = last + 1,
                                !.cb_in = SlotAfter(@)]
<1>1. in \in Slots /\ SlotAfter(in) \in Slots
  BY SlotAfterType DEF Buffers
<1> DEFINE b == [cb.cb_buf EXCEPT ![in] = last + 1]
<1>2. b \in [Slots -> Nat] /\ \A i \in Slots : b[i] = IF i = in THEN last + 1 ELSE cb.cb_buf[i]
  BY <1>1 DEF Buffers
<1>3. filled = [cb EXCEPT !.cb_buf = b, !.cb_in = SlotAfter(in)]
  OBVIOUS
<1>4. ASSUME NEW x \in Slots, NEW y \in [Slots -> Nat]
      PROVE  LET f == [cb EXCEPT !.cb_buf = y, !.cb_in = x]
             IN  f \in Buffers /\ f.cb_out = cb.cb_out /\ f.cb_in = x /\ f.cb_buf = y
  BY DEF Buffers
<1> HIDE DEF b, filled
<1>5. /\ filled \in Buffers /\ filled.cb_out = cb.cb_out
      /\ filled.cb_in = SlotAfter(in) /\ filled.cb_buf = b
  BY <1>1, <1>2, <1>3, <1>4
<1>6. /\ filled \in Buffers
      /\ filled.cb_out = cb.cb_out
      /\ filled.cb_in = SlotAfter(in)
      /\ \A i \in Slots : filled.cb_buf[i] = IF i = in THEN last + 1 ELSE cb.cb_buf[i]
  BY <1>2, <1>5
<1>7. last + 1 - first = Dist(out, SlotAfter(in))
  BY <1>1, PutDist, DistType DEF Holds
<1>8. ASSUME NEW i \in Slots, Dist(out, i) < Dist(out, SlotAfter(in))
      PROVE  filled.cb_buf[i] = first + 1 + Dist(out, i)
  <2>1. CASE i = in
    BY <2>1, <1>1, <1>6, DistType DEF Holds
  <2>2. CASE i # in
    <3>1. Dist(out, i) < Dist(out, in)
      BY <2>2, <1>1, <1>8, PutDist
    <3> QED
      BY <3>1, <2>2, <1>6 DEF Holds
  <2> QED
    BY <2>1, <2>2
<1>9. Holds(filled, out, first, last + 1)
  BY <1>6, <1>7, <1>8 DEF Holds
<1> QED
  BY <1>6, <1>9 DEF filled
(* What a buffer holds is a matter of its characters and its input slot.     *)
LEMMA HoldsSame ==
  ASSUME NEW cb, NEW d, NEW out, NEW first, NEW last, Holds(cb, out, first, last),
         d.cb_in = cb.cb_in, d.cb_buf = cb.cb_buf
  PROVE  Holds(d, out, first, last)
BY DEF Holds

(* circ_putc on a buffer: nothing if it is full, otherwise the character is  *)
(* the youngest, provided that there is room behind the slot "out" as well.  *)
LEMMA PutcHolds ==
  ASSUME NEW cb \in Buffers, NEW out \in Slots, NEW first \in Nat, NEW last \in Nat,
         Holds(cb, out, first, last), ~circ_full(cb) => SlotAfter(cb.cb_in) # out
  PROVE  /\ circ_putc(last + 1, cb) \in Buffers
         /\ circ_putc(last + 1, cb).cb_out = cb.cb_out
         /\ Holds(circ_putc(last + 1, cb), out, first,
                  IF circ_full(cb) THEN last ELSE last + 1)
<1>1. CASE circ_full(cb)
  BY <1>1 DEF circ_full, circ_putc
<1>2. CASE ~circ_full(cb)
  <2> DEFINE filled == [cb EXCEPT !.cb_buf[cb.cb_in] = last + 1, !.cb_in = SlotAfter(@)]
  <2>1. circ_putc(last + 1, cb) = filled
    BY <1>2 DEF circ_full, circ_putc
  <2>2. /\ filled \in Buffers
        /\ filled.cb_out = cb.cb_out
        /\ Holds(filled, out, first, last + 1)
    BY <1>2, PutHolds
  <2> HIDE DEF filled
  <2> QED
    BY <1>2, <2>1, <2>2
<1> QED
  BY <1>1, <1>2

(* circ_getc without an interruption, as in ttyintr.                         *)
LEMMA GetcHolds ==
  ASSUME NEW cb \in TtyBuffers, NEW first \in Nat, NEW last \in Nat,
         Holds(cb, cb.cb_out, first, last), ~CIRC_EMPTY(cb)
  PROVE  LET rest == Wrapped(SteppedOver(cb))
         IN  /\ Fetched(cb) = first + 1
             /\ rest \in TtyBuffers
             /\ rest.cb_in = cb.cb_in
             /\ rest.cb_out = SlotAfter(cb.cb_out)
             /\ Holds(rest, rest.cb_out, first + 1, last)
<1> DEFINE rest == Wrapped(SteppedOver(cb))
<1>1. cb \in Buffers /\ cb.cb_out \in Slots /\ cb.cb_in \in Slots /\ cb.cb_out # cb.cb_in
  BY SerialAssumption DEF TtyBuffers, Buffers, Slots, CIRC_EMPTY
<1>2. Fetched(cb) = first + 1 /\ Holds(cb, SlotAfter(cb.cb_out), first + 1, last)
  BY <1>1, GetHolds DEF Fetched
<1>3. ASSUME NEW x
      PROVE  /\ [cb EXCEPT !.cb_out = x].cb_in = cb.cb_in
             /\ [cb EXCEPT !.cb_out = x].cb_out = x
             /\ [cb EXCEPT !.cb_out = x].cb_buf = cb.cb_buf
             /\ x \in Slots => [cb EXCEPT !.cb_out = x] \in TtyBuffers
  BY DEF TtyBuffers
<1>4. rest = [cb EXCEPT !.cb_out = SlotAfter(cb.cb_out)]
  BY <1>1, <1>3 DEF Wrapped, SteppedOver, SlotAfter, TtyBuffers
<1> HIDE DEF rest
<1>5. /\ rest \in TtyBuffers
      /\ rest.cb_in = cb.cb_in
      /\ rest.cb_out = SlotAfter(cb.cb_out)
      /\ rest.cb_buf = cb.cb_buf
  BY <1>1, <1>3, <1>4, SlotAfterType
<1> QED
  BY <1>2, <1>5, HoldsSame DEF rest

-----------------------------------------------------------------------------
(* The invariant holds at the start, and every step keeps it and the order.  *)

(* After ttyinit both buffers are empty and nobody is in a call.             *)
LEMMA TtyInvInit == TtyInit => TtyInv
<1> SUFFICES ASSUME TtyInit PROVE TtyInv
  OBVIOUS
<1> USE SerialAssumption DEF TtyInit
<1>1. TtyTypeOK
  <2>1. 0 \in Slots /\ 0 \in 0 .. CBUFSIZE /\ [i \in Slots |-> 0] \in [Slots -> Nat]
    BY DEF Slots
  <2>2. EmptyBuffer \in TtyBuffers /\ EmptyBuffer \in Buffers /\ EmptyBuffer.cb_out \in Slots
    BY <2>1 DEF EmptyBuffer, TtyBuffers, Buffers
  <2>3. Resting \in TtyCallers
    BY DEF Resting, TtyCallers
  <2> QED
    BY <2>2, <2>3 DEF TtyTypeOK, Buffers
<1>2. OutExact /\ InExact
  BY DEF OutExact, InExact, Holds, OutSlot, Dist, EmptyBuffer, Slots
<1>3. CallerReady
  BY DEF CallerReady, Resting
<1> QED
  BY <1>1, <1>2, <1>3 DEF TtyInv

(* The steps of the program that touch neither a buffer nor a counter.       *)
LEMMA CallerMoves ==
  ASSUME TtyInv,
         UNCHANGED <<NILE4Queue, NILE4OQueue, put, line, heard, taken>>,
         NILE4_UART_IER' \in BOOLEAN, tty_caller' \in TtyCallers,
         tty_caller.at # "wrap", CallerReady'
  PROVE  TtyInv' /\ InOrder
<1>1. TtyTypeOK'
  BY DEF TtyInv, TtyTypeOK
<1>2. OutExact' /\ InExact'
  BY DEF TtyInv, OutExact, InExact, Holds, OutSlot
<1>3. InOrder
  BY DEF InOrder
<1> QED
  BY <1>1, <1>2, <1>3 DEF TtyInv

(* Calls that begin, wait, look at the output buffer, or return.             *)
LEMMA CallerSteps ==
  ASSUME TtyInv,
         \/ \E count \in 1 .. MaxCount, nblock \in BOOLEAN :
              ttywrite(count, nblock) \/ ttyread(count, nblock)
         \/ WaitForRoom \/ RoomFound \/ LookForUnsent \/ EnableTransmit
         \/ NothingToRead
  PROVE  TtyInv' /\ InOrder
<1>1. TtyTypeOK /\ CallerReady
  BY DEF TtyInv
<1>2. tty_caller \in TtyCallers /\ NILE4_UART_IER \in BOOLEAN
  BY <1>1 DEF TtyTypeOK
<1>3. Resting \in TtyCallers /\ Resting.at = "rest"
  BY DEF Resting, TtyCallers
<1>4. ASSUME NEW count \in 1 .. MaxCount, NEW nblock \in BOOLEAN,
             ttywrite(count, nblock) \/ ttyread(count, nblock)
      PROVE  TtyInv' /\ InOrder
  <2>1. count \in Nat /\ count > 0
    BY SerialAssumption
  <2>2. PICK at \in {"full", "read"} :
          tty_caller' = [at |-> at, left |-> count, nblock |-> nblock, heard |-> FALSE]
    BY <1>4 DEF ttywrite, ttyread
  <2>3. tty_caller' \in TtyCallers
    BY <2>1, <2>2 DEF TtyCallers, Sending
  <2>4. CallerReady'
    BY <2>1, <2>2 DEF CallerReady
  <2> QED
    BY <2>3, <2>4, <1>2, <1>4, CallerMoves DEF ttywrite, ttyread
<1>5. CASE WaitForRoom
  <2>1. tty_caller' \in TtyCallers /\ CallerReady'
    BY <1>1, <1>2, <1>3, <1>5 DEF WaitForRoom, CallerReady
  <2> QED
    BY <2>1, <1>5, CallerMoves DEF WaitForRoom
<1>6. CASE RoomFound
  <2>1. tty_caller' \in TtyCallers /\ tty_caller'.at = "put" /\ tty_caller'.left = tty_caller.left
    BY <1>2, <1>6 DEF RoomFound, TtyCallers, Sending
  <2>2. CallerReady'
    BY <1>1, <1>6, <2>1 DEF RoomFound, CallerReady, circ_full
  <2> QED
    BY <1>2, <1>6, <2>1, <2>2, CallerMoves DEF RoomFound
<1>7. CASE LookForUnsent
  <2>1. [tty_caller EXCEPT !.at = "kick"] \in TtyCallers
        /\ [tty_caller EXCEPT !.at = "kick"].at = "kick"
    BY <1>2 DEF TtyCallers, Sending
  <2>2. tty_caller' \in TtyCallers /\ CallerReady'
    BY <1>3, <1>7, <2>1 DEF LookForUnsent, CallerReady
  <2> QED
    BY <1>2, <1>7, <2>2, CallerMoves DEF LookForUnsent
<1>8. CASE EnableTransmit
  <2>1. tty_caller' \in TtyCallers /\ CallerReady'
    BY <1>3, <1>8 DEF EnableTransmit, CallerReady
  <2> QED
    BY <2>1, <1>8, CallerMoves DEF EnableTransmit
<1>9. CASE NothingToRead
  <2>1. tty_caller' \in TtyCallers /\ CallerReady'
    BY <1>3, <1>9 DEF NothingToRead, CallerReady
  <2> QED
    BY <2>1, <1>2, <1>9, CallerMoves DEF NothingToRead
<1> QED
  BY <1>4, <1>5, <1>6, <1>7, <1>8, <1>9

(* The writer's character joins the buffer, in which it has found room.      *)
LEMMA PutSteps ==
  ASSUME TtyInv, PutCharacter
  PROVE  TtyInv' /\ InOrder
<1> USE DEF PutCharacter
<1>1. /\ NILE4OQueue \in TtyBuffers /\ NILE4OQueue \in Buffers
      /\ NILE4OQueue.cb_out \in Slots
      /\ line \in Nat /\ put \in Nat
      /\ tty_caller \in TtyCallers /\ tty_caller.left \in Nat
  <2>1. NILE4OQueue \in TtyBuffers /\ line \in Nat /\ put \in Nat
    BY DEF TtyInv, TtyTypeOK
  <2>2. tty_caller \in TtyCallers
    BY DEF TtyInv, TtyTypeOK
  <2> QED
    BY <2>1, <2>2, BufferKinds DEF TtyCallers
<1>2. ~circ_full(NILE4OQueue) /\ tty_caller.left > 0 /\ OutExact
  BY DEF TtyInv, CallerReady
<1>3. /\ NILE4OQueue' \in Buffers
      /\ NILE4OQueue'.cb_out = NILE4OQueue.cb_out
      /\ Holds(NILE4OQueue', NILE4OQueue.cb_out, line, put + 1)
  BY <1>1, <1>2, PutcHolds DEF OutExact, circ_full
<1>4. NILE4OQueue' \in TtyBuffers
  BY <1>1, <1>3 DEF Buffers, TtyBuffers
<1>5. /\ tty_caller' \in TtyCallers
      /\ tty_caller'.left = tty_caller.left - 1
      /\ tty_caller'.at = IF tty_caller.left = 1 THEN "end" ELSE "full"
  <2>1. ASSUME NEW l \in Nat, NEW at \in {"end", "full"}
        PROVE  LET c == [tty_caller EXCEPT !.left = l, !.at = at]
               IN  c \in TtyCallers /\ c.left = l /\ c.at = at
    BY <1>1 DEF TtyCallers, Sending
  <2>2. tty_caller.left - 1 \in Nat
    BY <1>1, <1>2
  <2>3. (IF tty_caller.left = 1 THEN "end" ELSE "full") \in {"end", "full"}
    OBVIOUS
  <2> QED
    BY <2>1, <2>2, <2>3
<1>6. TtyTypeOK'
  BY <1>1, <1>4, <1>5 DEF TtyInv, TtyTypeOK
<1>7. OutExact'
  BY <1>3 DEF OutExact
<1>8. InExact'
  BY DEF TtyInv, InExact, Holds, OutSlot
<1>9. CallerReady'
  BY <1>1, <1>2, <1>5 DEF CallerReady
<1>10. InOrder
  BY DEF InOrder
<1> QED
  BY <1>6, <1>7, <1>8, <1>9, <1>10 DEF TtyInv

(* The reader takes the oldest character and steps over it.                  *)
LEMMA GetSteps ==
  ASSUME TtyInv, GetCharacter
  PROVE  TtyInv' /\ InOrder
<1> USE DEF GetCharacter
<1> DEFINE out == NILE4Queue.cb_out
           in == NILE4Queue.cb_in
<1>1. NILE4Queue \in Buffers /\ NILE4Queue \in TtyBuffers /\ out \in Slots /\ in \in Slots
  <2>1. NILE4Queue \in Buffers /\ out \in Slots
    BY DEF TtyInv, TtyTypeOK, Buffers
  <2> QED
    BY <2>1, BufferKinds DEF Buffers
<1>2. taken \in Nat /\ heard \in Nat /\ tty_caller \in TtyCallers /\ tty_caller.left > 0
  BY DEF TtyInv, TtyTypeOK, CallerReady
<1>3. OutSlot(NILE4Queue) = out
  BY <1>1, SerialAssumption DEF OutSlot, Slots
<1>4. taken' = taken + 1 /\ Holds(NILE4Queue, SlotAfter(out), taken + 1, heard)
  <2>1. Holds(NILE4Queue, out, taken, heard)
    BY <1>3 DEF TtyInv, InExact
  <2> QED
    BY <1>1, <1>2, <2>1, GetHolds DEF Fetched, CIRC_EMPTY
<1>5. /\ NILE4Queue' \in Buffers
      /\ NILE4Queue'.cb_in = in
      /\ NILE4Queue'.cb_out = out + 1
      /\ NILE4Queue'.cb_buf = NILE4Queue.cb_buf
  <2>1. ASSUME NEW x \in 0 .. CBUFSIZE
        PROVE  LET cb == [NILE4Queue EXCEPT !.cb_out = x]
               IN  /\ cb \in Buffers /\ cb.cb_in = in
                   /\ cb.cb_out = x /\ cb.cb_buf = NILE4Queue.cb_buf
    BY <1>1 DEF Buffers
  <2>2. out + 1 \in 0 .. CBUFSIZE
    BY <1>1, SerialAssumption DEF Slots
  <2> QED
    BY <2>1, <2>2 DEF SteppedOver
<1>6. OutSlot(NILE4Queue') = SlotAfter(out)
  BY <1>5 DEF OutSlot, SlotAfter
<1>7. /\ tty_caller' \in TtyCallers /\ tty_caller'.at = "wrap"
      /\ tty_caller'.left = tty_caller.left
  BY <1>2 DEF TtyCallers
<1>8. TtyTypeOK'
  BY <1>2, <1>4, <1>5, <1>7 DEF TtyInv, TtyTypeOK, Buffers
<1>9. OutExact'
  BY DEF TtyInv, OutExact
<1>10. InExact'
  BY <1>4, <1>5, <1>6, HoldsSame DEF InExact
<1>11. CallerReady'
  <2>1. SlotAfter(in) # SlotAfter(out)
    BY <1>1, SlotAfterInjective DEF CIRC_EMPTY
  <2> QED
    BY <1>2, <1>5, <1>6, <1>7, <2>1 DEF CallerReady
<1>12. InOrder
  BY <1>4 DEF InOrder
<1> QED
  BY <1>8, <1>9, <1>10, <1>11, <1>12 DEF TtyInv

(* The wrap changes the pointer, not the slot it stands for.                 *)
LEMMA WrapSteps ==
  ASSUME TtyInv, WrapRead
  PROVE  TtyInv' /\ InOrder
<1> USE DEF WrapRead
<1>1. /\ NILE4Queue \in Buffers
      /\ tty_caller \in TtyCallers /\ tty_caller.left \in Nat /\ tty_caller.left > 0
  <2>1. NILE4Queue \in Buffers /\ tty_caller \in TtyCallers
    BY DEF TtyInv, TtyTypeOK, Buffers
  <2> QED
    BY <2>1 DEF TtyInv, CallerReady, TtyCallers
<1>2. /\ NILE4Queue' \in Buffers
      /\ NILE4Queue'.cb_in = NILE4Queue.cb_in
      /\ NILE4Queue'.cb_out = OutSlot(NILE4Queue)
      /\ NILE4Queue'.cb_buf = NILE4Queue.cb_buf
  <2>1. 0 \in 0 .. CBUFSIZE
    BY SerialAssumption
  <2>2. LET cb == [NILE4Queue EXCEPT !.cb_out = 0]
        IN  /\ cb \in Buffers /\ cb.cb_in = NILE4Queue.cb_in
            /\ cb.cb_out = 0 /\ cb.cb_buf = NILE4Queue.cb_buf
    BY <1>1, <2>1 DEF Buffers
  <2> QED
    BY <1>1, <2>2 DEF Wrapped, OutSlot
<1>3. NILE4Queue'.cb_out \in Slots /\ OutSlot(NILE4Queue') = OutSlot(NILE4Queue)
  <2>1. NILE4Queue.cb_out \in 0 .. CBUFSIZE
    BY <1>1 DEF Buffers
  <2> QED
    BY <1>2, <2>1, SerialAssumption DEF OutSlot, Slots
<1>4. tty_caller' \in TtyCallers /\ tty_caller'.at # "wrap" /\ tty_caller'.at # "put"
      /\ (tty_caller'.at \in {"full", "put", "read", "wrap"} => tty_caller'.left > 0)
  <2>1. CASE tty_caller.left = 1
    BY <2>1 DEF Resting, TtyCallers
  <2>2. CASE tty_caller.left # 1
    <3>1. ASSUME NEW l \in Nat
          PROVE  LET c == [tty_caller EXCEPT !.at = "read", !.left = l]
                 IN  c \in TtyCallers /\ c.at = "read" /\ c.left = l
      BY <1>1 DEF TtyCallers
    <3>2. tty_caller.left - 1 \in Nat /\ tty_caller.left - 1 > 0
      BY <1>1, <2>2
    <3> QED
      BY <2>2, <3>1, <3>2
  <2> QED
    BY <2>1, <2>2
<1>5. TtyTypeOK'
  BY <1>2, <1>3, <1>4 DEF TtyInv, TtyTypeOK, Buffers
<1>6. OutExact'
  BY DEF TtyInv, OutExact
<1>7. InExact'
  BY <1>2, <1>3, HoldsSame DEF TtyInv, InExact
<1>8. CallerReady'
  BY <1>4 DEF CallerReady
<1>9. InOrder
  BY DEF InOrder
<1> QED
  BY <1>5, <1>6, <1>7, <1>8, <1>9 DEF TtyInv

(* Opening throws away what is in the buffers.                               *)
LEMMA OpenSteps ==
  ASSUME TtyInv, ttyopen
  PROVE  TtyInv' /\ InOrder
<1>1. InOrder
  BY DEF InOrder, ttyopen
<1> USE DEF ttyopen
<1>2. NILE4Queue \in Buffers /\ NILE4OQueue \in Buffers /\ put \in Nat /\ heard \in Nat
      /\ NILE4OQueue \in TtyBuffers
  BY BufferKinds DEF TtyInv, TtyTypeOK, Buffers
<1>3. ASSUME NEW cb \in Buffers
      PROVE  /\ CIRC_FLUSH(cb) \in TtyBuffers
             /\ CIRC_FLUSH(cb).cb_in = 0 /\ CIRC_FLUSH(cb).cb_out = 0
  <2>1. 0 \in Slots
    BY SerialAssumption DEF Slots
  <2> QED
    BY <2>1 DEF CIRC_FLUSH, Buffers, TtyBuffers
<1>4. ASSUME NEW cb, cb.cb_in = 0, NEW n \in Nat
      PROVE  Holds(cb, 0, n, n)
  <2>1. 0 \in Slots
    BY SerialAssumption DEF Slots
  <2>2. n - n = 0 /\ Dist(0, 0) = 0 /\ \A i \in Slots : ~(Dist(0, i) < 0)
    BY <2>1, DistType
  <2> QED
    BY <1>4, <2>2 DEF Holds
<1>5. TtyTypeOK'
  <2>1. NILE4Queue' \in TtyBuffers /\ NILE4OQueue' \in TtyBuffers
    BY <1>2, <1>3
  <2>2. NILE4Queue' \in Buffers /\ NILE4Queue'.cb_out \in Slots
    BY <2>1, BufferKinds
  <2> QED
    BY <1>2, <2>1, <2>2 DEF TtyInv, TtyTypeOK, Buffers
<1>6. OutExact'
  BY <1>2, <1>3, <1>4 DEF OutExact
<1>7. InExact'
  <2>1. NILE4Queue'.cb_in = 0 /\ OutSlot(NILE4Queue') = 0
    BY <1>2, <1>3, SerialAssumption DEF OutSlot
  <2> QED
    BY <1>2, <1>4, <2>1 DEF InExact
<1>8. CallerReady'
  BY DEF CallerReady
<1> QED
  BY <1>1, <1>5, <1>6, <1>7, <1>8 DEF TtyInv

(* The transmit interrupt takes the oldest character, if there is one.       *)
LEMMA TransmitSteps ==
  ASSUME TtyInv, TransmitInterrupt
  PROVE  TtyInv' /\ InOrder
<1> DEFINE out == NILE4OQueue.cb_out
           in == NILE4OQueue.cb_in
<1>1. /\ NILE4OQueue \in TtyBuffers /\ out \in Slots /\ in \in Slots
      /\ line \in Nat /\ put \in Nat
  <2>1. NILE4OQueue \in TtyBuffers /\ line \in Nat /\ put \in Nat
    BY DEF TtyInv, TtyTypeOK
  <2> QED
    BY <2>1 DEF TtyBuffers
<1>2. InExact'
  BY DEF TtyInv, InExact, Holds, OutSlot, TransmitInterrupt
<1>3. CASE CIRC_EMPTY(NILE4OQueue)
  <2>1. TtyTypeOK'
    BY <1>3 DEF TtyInv, TtyTypeOK, TransmitInterrupt
  <2>2. OutExact' /\ CallerReady' /\ InOrder
    BY <1>3 DEF TtyInv, OutExact, CallerReady, InOrder, TransmitInterrupt
  <2> QED
    BY <1>2, <2>1, <2>2 DEF TtyInv
<1>4. CASE ~CIRC_EMPTY(NILE4OQueue)
  <2>1. NILE4OQueue' = Wrapped(SteppedOver(NILE4OQueue)) /\ line' = Fetched(NILE4OQueue)
    BY <1>4 DEF TransmitInterrupt
  <2>2. /\ line' = line + 1
        /\ NILE4OQueue' \in TtyBuffers
        /\ NILE4OQueue'.cb_in = in
        /\ NILE4OQueue'.cb_out = SlotAfter(out)
        /\ Holds(NILE4OQueue', NILE4OQueue'.cb_out, line + 1, put)
    BY <1>1, <1>4, <2>1, GetcHolds DEF TtyInv, OutExact
  <2>3. TtyTypeOK'
    <3>1. UNCHANGED <<NILE4Queue, tty_caller, put, heard, taken, NILE4_UART_IER>>
      BY <1>4 DEF TransmitInterrupt
    <3> QED
      BY <1>1, <2>2, <3>1 DEF TtyInv, TtyTypeOK
  <2>4. OutExact'
    BY <2>2 DEF OutExact, TransmitInterrupt
  <2>5. ~circ_full(NILE4OQueue')
    BY <1>1, <1>4, <2>2, SlotAfterInjective DEF circ_full, CIRC_EMPTY
  <2>6. CallerReady'
    BY <2>5 DEF TtyInv, CallerReady, TransmitInterrupt
  <2>7. InOrder
    BY <2>2 DEF InOrder, TransmitInterrupt
  <2> QED
    BY <1>2, <2>3, <2>4, <2>6, <2>7 DEF TtyInv
<1> QED
  BY <1>3, <1>4

(* The receive interrupt puts the character in or drops it.  Between the     *)
(* reader's step past the end and its wrap circ_full compares with a pointer *)
(* that no slot has; then it is the room the reader has left that counts.    *)
LEMMA ReceiveSteps ==
  ASSUME TtyInv, ReceiveInterrupt
  PROVE  TtyInv' /\ InOrder
<1> USE DEF ReceiveInterrupt
<1> DEFINE out == OutSlot(NILE4Queue)
<1>1. /\ NILE4Queue \in Buffers /\ heard \in Nat /\ taken \in Nat
      /\ tty_caller \in TtyCallers
      /\ tty_caller.at # "wrap" => NILE4Queue.cb_out \in Slots
  BY DEF TtyInv, TtyTypeOK, Buffers
<1>2. out \in Slots
  <2>1. NILE4Queue.cb_out \in 0 .. CBUFSIZE
    BY <1>1 DEF Buffers
  <2> QED
    BY <2>1, SerialAssumption DEF OutSlot, Slots
<1>3. ~circ_full(NILE4Queue) => SlotAfter(NILE4Queue.cb_in) # out
  <2>1. CASE tty_caller.at = "wrap"
    BY <2>1 DEF TtyInv, CallerReady
  <2>2. CASE tty_caller.at # "wrap"
    <3>1. out = NILE4Queue.cb_out
      BY <1>1, <2>2, SerialAssumption DEF OutSlot, Slots
    <3> QED
      BY <3>1 DEF circ_full
  <2> QED
    BY <2>1, <2>2
<1>4. /\ NILE4Queue' \in Buffers
      /\ NILE4Queue'.cb_out = NILE4Queue.cb_out
      /\ Holds(NILE4Queue', out, taken, heard')
  <2>1. Holds(NILE4Queue, out, taken, heard)
    BY DEF TtyInv, InExact
  <2> QED
    BY <1>1, <1>2, <1>3, <2>1, PutcHolds
<1>5. /\ tty_caller' \in TtyCallers
      /\ tty_caller'.at = tty_caller.at
      /\ tty_caller'.left = tty_caller.left
      /\ tty_caller.at = "wrap" => tty_caller'.heard
  <2>1. LET c == [tty_caller EXCEPT !.heard = TRUE]
        IN  c \in TtyCallers /\ c.at = tty_caller.at /\ c.left = tty_caller.left /\ c.heard
    BY <1>1 DEF TtyCallers
  <2> QED
    BY <1>1, <2>1
<1>6. heard' \in Nat
  BY <1>1
<1>7. TtyTypeOK'
  BY <1>1, <1>4, <1>5, <1>6 DEF TtyInv, TtyTypeOK, Buffers
<1>8. OutExact'
  BY DEF TtyInv, OutExact
<1>9. InExact'
  BY <1>4 DEF InExact, OutSlot
<1>10. CallerReady'
  BY <1>5 DEF TtyInv, CallerReady
<1>11. InOrder
  BY DEF InOrder
<1> QED
  BY <1>7, <1>8, <1>9, <1>10, <1>11 DEF TtyInv

(* Every step of the program and of ttyintr.                                 *)
LEMMA TtyInvStep ==
  ASSUME TtyInv, [TtyNext]_tty_vars
  PROVE  TtyInv' /\ [InOrder]_tty_vars
<1>1. CASE TtyNext
  BY <1>1, CallerSteps, PutSteps, GetSteps, WrapSteps, OpenSteps, TransmitSteps,
     ReceiveSteps DEF TtyNext, TtyProgram
<1>2. CASE UNCHANGED tty_vars
  <2>1. TtyTypeOK' /\ OutExact' /\ InExact' /\ CallerReady'
    BY <1>2 DEF tty_vars, TtyInv, TtyTypeOK, OutExact, InExact, CallerReady
  <2> QED
    BY <1>2, <2>1 DEF TtyInv
<1> QED
  BY <1>1, <1>2

-----------------------------------------------------------------------------
(* The theorems.                                                             *)

(* For every size of the buffers, each buffer holds at any moment exactly    *)
(* the characters that were accepted and not yet passed on, in their order   *)
(* (IO.C, circ_putc and circ_getc under niletty.c).                          *)
THEOREM SerialInvariant == TtySpec => []TtyInv
<1>1. TtyInit => TtyInv
  BY TtyInvInit
<1>2. TtyInv /\ [TtyNext]_tty_vars => TtyInv'
  BY TtyInvStep
<1> QED
  BY <1>1, <1>2, PTL DEF TtySpec

(* The pointers of the buffers stay in their range (one past the end only    *)
(* inside circ_getc), and no call runs on with nothing left to do.           *)
THEOREM SerialTypeCorrect == TtySpec => []TtyTypeOK
<1>1. TtyInv => TtyTypeOK
  BY DEF TtyInv
<1> QED
  BY <1>1, SerialInvariant, PTL

(* What goes out on the wire and what a reader gets is what was accepted, in *)
(* that order, without a gap or a repetition (IO.C:228-260).                 *)
THEOREM SerialInOrder == TtySpec => NothingReordered
<1>1. TtyInv /\ [TtyNext]_tty_vars => [InOrder]_tty_vars
  BY TtyInvStep
<1> QED
  BY <1>1, SerialInvariant, PTL DEF TtySpec, NothingReordered

=============================================================================
