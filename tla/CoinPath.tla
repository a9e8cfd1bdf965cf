------------------------------ MODULE CoinPath ------------------------------
(* A coin from the closing of its switch to the click of its meter:          *)
(* biosrom/bios/SWITCH.C (the debouncing of the millisecond interrupt and    *)
(* get_inputs), lib/goose/switch.c (the drops handed to the game) and        *)
(* biosrom/bios/COINDRV.C (the pulses of the electromechanical meter).  One  *)
(* coin slot and its meter; the four meters and the switches are independent *)
(* of each other.  A reading of the switch may be anything.                  *)
EXTENDS Integers

CONSTANTS
  OnDebounce,  \* readings before a switch is on (DEFAULT_ON_DEBOUNCE, 4)
  OffDebounce, \* readings before it is off (DEFAULT_OFF_DEBOUNCE, 32)
  MeterPeriod, \* milliseconds between two calls of coinintr (50)
  MaxCoins     \* bound: closings of the switch in a behaviour

ASSUME CoinAssumption ==
  /\ {OnDebounce, OffDebounce, MeterPeriod} \subseteq Nat \ {0}
  /\ MaxCoins \in Nat

VARIABLES
  watchdog_count,       \* modulo MeterPeriod
  coin_switch,          \* the switch_info_t of the slot
  coin_drops,           \* lib/goose: coins not yet handed to the game
  coin_counter_control, \* the meter, with the coil it drives
  coin_drv_open,
  coin_caller,          \* where the main loop is in scan_switches
  coin_tally            \* history: what the slot and the game have seen

coin_vars == <<watchdog_count, coin_switch, coin_drops, coin_counter_control,
               coin_drv_open, coin_caller, coin_tally>>

CoinCallers == {"rest", "copied", "deliver", "add"}

(* Counts of readings stop one past their debounce time: the code tests them *)
(* for equality alone, and 32 bits take 49 days to come round.               *)
CountReading(n, debounce) == IF n > debounce THEN n ELSE n + 1

-----------------------------------------------------------------------------
(* The millisecond interrupt.                                                *)

(* Mutant: a reading past the debounce time counts too.                      *)
scan_inputsRepeats(s, closed) ==
  IF ~closed THEN [s EXCEPT !.on_count = 0]
  ELSE LET n == CountReading(s.on_count, OnDebounce)
       IN  [s EXCEPT !.on_count = n,
                     !.on_trans_accum = IF n >= OnDebounce THEN @ + 1 ELSE @]

(* scan_inputs for one switch.  An on transition is counted whenever the run *)
(* of on readings reaches the debounce time, whatever the state was.  The    *)
(* auto repeat is never enabled: DEFAULT_REPEAT_DELAY is 0.                  *)
scan_inputs(s, closed) ==
  IF closed
  THEN LET n == CountReading(s.on_count, OnDebounce)
           fires == n = OnDebounce
       IN  [s EXCEPT !.on_count = n,
                     !.off_count = 0,
                     !.state = IF fires THEN "on" ELSE @,
                     !.on_trans_accum = IF fires THEN @ + 1 ELSE @]
  ELSE LET n == CountReading(s.off_count, OffDebounce)
       IN  [s EXCEPT !.off_count = n,
                     !.on_count = 0,
                     !.state = IF n = OffDebounce THEN "off" ELSE @]

(* Mutant: the coil is not let go.                                           *)
coinintrHolds(m) ==
  IF m.count = 0 THEN m
  ELSE IF m.ticks = 0 /\ m.running
  THEN [m EXCEPT !.running = FALSE, !.count = @ - 1, !.ticks = -1]
  ELSE [m EXCEPT !.running = TRUE, !.ticks = IF m.running THEN @ - 1 ELSE 1,
                 !.coil = @ \/ ~m.running]

(* coinintr for one meter: three calls to a pulse, on, off and done.         *)
coinintr(m) ==
  IF m.count = 0
  THEN m
  ELSE LET started == IF m.running THEN m
                      ELSE [m EXCEPT !.running = TRUE, !.ticks = 2]
           ended == IF started.ticks # 0 THEN started
                    ELSE [started EXCEPT !.running = FALSE, !.count = @ - 1]
       IN  [ended EXCEPT !.ticks = @ - 1,
                         !.coil = CASE ended.ticks = 2 -> TRUE
                                    [] ended.ticks = 1 -> FALSE
                                    [] OTHER -> @]

(* nile4_watchdog_handler, as far as the coin slot goes: every MeterPeriod   *)
(* milliseconds the meters, every millisecond the switches.  It may come     *)
(* between any two steps of the main loop.                                   *)
nile4_watchdog_handler(closed) ==
  LET strobe == watchdog_count = MeterPeriod - 1
      meter == IF strobe THEN coinintr(coin_counter_control)
               ELSE coin_counter_control
      run == IF closed THEN CountReading(coin_tally.run, OnDebounce) ELSE 0
      closing == run = OnDebounce
      pulse == meter.count # coin_counter_control.count
      B2N(b) == IF b THEN 1 ELSE 0
  IN  /\ closed => coin_tally.closings < MaxCoins \/ coin_tally.run >= OnDebounce
      /\ watchdog_count' = IF strobe THEN 0 ELSE watchdog_count + 1
      /\ coin_counter_control' = meter
      /\ coin_switch' = scan_inputs(coin_switch, closed)
      /\ coin_tally' =
           [coin_tally EXCEPT
              !.run = run,
              !.closings = @ + B2N(closing),
              !.missed = @ + B2N(closing /\ coin_caller.at = "copied"),
              !.pulses = @ + B2N(pulse),
              !.undone = @ + B2N(pulse /\ coin_caller.at = "add")]
      /\ UNCHANGED <<coin_drops, coin_drv_open, coin_caller>>

-----------------------------------------------------------------------------
(* The main loop.                                                            *)

(* get_inputs copies the transitions of a switch ...                         *)
get_inputs_copies ==
  /\ coin_caller.at = "rest"
  /\ coin_caller' = [coin_caller EXCEPT
                       !.at = "copied",
                       !.on_transitions = coin_switch.on_trans_accum]
  /\ UNCHANGED <<watchdog_count, coin_switch, coin_drops,
                 coin_counter_control, coin_drv_open, coin_tally>>

(* ... and then resets them, with the interrupt free to come in between;     *)
(* scan_switches adds the copy to the drops.                                 *)
get_inputs_resets ==
  LET drops == coin_drops + coin_caller.on_transitions
  IN  /\ coin_caller.at = "copied"
      /\ coin_switch' = [coin_switch EXCEPT !.on_trans_accum = 0]
      /\ coin_drops' = drops
      /\ coin_caller' = [coin_caller EXCEPT
                           !.at = IF drops > 0 THEN "deliver" ELSE "rest",
                           !.on_transitions = 0]
      /\ UNCHANGED <<watchdog_count, coin_counter_control, coin_drv_open,
                     coin_tally>>

(* do_dip_coin_signals calls the handler of the slot once per drop and takes *)
(* the drop off when it returns.                                             *)
DropTaken ==
  /\ coin_drops' = coin_drops - 1
  /\ coin_caller' = [coin_caller EXCEPT
                       !.at = IF coin_drops > 1 THEN "deliver" ELSE "rest",
                       !.register = 0]

(* The game's handler gives a credit and asks the driver for one pulse.  The *)
(* driver refuses while it is not open ...                                   *)
coinioctl_refuses ==
  /\ coin_caller.at = "deliver"
  /\ ~coin_drv_open
  /\ DropTaken
  /\ coin_tally' = [coin_tally EXCEPT !.credited = @ + 1]
  /\ UNCHANGED <<watchdog_count, coin_switch, coin_counter_control,
                 coin_drv_open>>

(* ... and otherwise loads the count ...                                     *)
coinioctl_loads ==
  /\ coin_caller.at = "deliver"
  /\ coin_drv_open
  /\ coin_caller' = [coin_caller EXCEPT !.at = "add",
                                        !.register = coin_counter_control.count]
  /\ UNCHANGED <<watchdog_count, coin_switch, coin_drops,
                 coin_counter_control, coin_drv_open, coin_tally>>

(* Mutant: the driver asks for one pulse whatever it still owes.             *)
coinioctl_storesOne ==
  /\ coin_caller.at = "add"
  /\ coin_counter_control' = [coin_counter_control EXCEPT !.count = 1]
  /\ DropTaken
  /\ coin_tally' = [coin_tally EXCEPT !.credited = @ + 1, !.added = @ + 1]
  /\ UNCHANGED <<watchdog_count, coin_switch, coin_drv_open>>

(* ... and stores it incremented: a pulse that ended in between is undone.   *)
coinioctl_stores ==
  /\ coin_caller.at = "add"
  /\ coin_counter_control' = [coin_counter_control EXCEPT
                                !.count = coin_caller.register + 1]
  /\ DropTaken
  /\ coin_tally' = [coin_tally EXCEPT !.credited = @ + 1, !.added = @ + 1]
  /\ UNCHANGED <<watchdog_count, coin_switch, coin_drv_open>>

(* coininit clears the counters and releases the coils; the initialized flag *)
(* is down meanwhile, so the interrupt sees all of it or nothing.            *)
Cleared == [count |-> 0, ticks |-> 0, running |-> FALSE, coil |-> FALSE]

(* CIOCCLEARCOUNTS and coinopen clear the counters ...                       *)
ClearCounts(opened) ==
  /\ coin_caller.at = "rest"
  /\ coin_drv_open \/ opened
  /\ coin_counter_control' = Cleared
  /\ coin_drv_open' = TRUE
  /\ coin_tally' = [coin_tally EXCEPT !.added = 0, !.pulses = 0, !.undone = 0]
  /\ UNCHANGED <<watchdog_count, coin_switch, coin_drops, coin_caller>>

(* ... while coinclose leaves the pulses owed to the interrupt.              *)
coinclose ==
  /\ coin_caller.at = "rest"
  /\ coin_drv_open
  /\ coin_drv_open' = FALSE
  /\ UNCHANGED <<watchdog_count, coin_switch, coin_drops,
                 coin_counter_control, coin_caller, coin_tally>>

-----------------------------------------------------------------------------

CoinInit ==
  /\ watchdog_count = 0
  /\ coin_switch = [on_count |-> 0, off_count |-> 0, state |-> "off",
                    on_trans_accum |-> 0]
  /\ coin_drops = 0
  /\ coin_counter_control = Cleared
  /\ coin_drv_open = TRUE
  /\ coin_caller = [at |-> "rest", on_transitions |-> 0, register |-> 0]
  /\ coin_tally = [run |-> 0, closings |-> 0, missed |-> 0, credited |-> 0,
                   added |-> 0, pulses |-> 0, undone |-> 0]

scan_switches ==
  \/ get_inputs_copies
  \/ get_inputs_resets
  \/ coinioctl_refuses
  \/ coinioctl_loads
  \/ coinioctl_stores

CoinNext ==
  \/ \E closed \in BOOLEAN : nile4_watchdog_handler(closed)
  \/ scan_switches
  \/ \E opened \in BOOLEAN : ClearCounts(opened)
  \/ coinclose

CoinSpec == CoinInit /\ [][CoinNext]_coin_vars

-----------------------------------------------------------------------------
(* Properties.                                                               *)

CoinTypeOK ==
  /\ watchdog_count \in 0 .. MeterPeriod - 1
  /\ coin_switch \in [on_count : 0 .. OnDebounce + 1,
                      off_count : 0 .. OffDebounce + 1,
                      state : {"on", "off"}, on_trans_accum : Nat]
  /\ coin_drops \in Nat
  /\ coin_counter_control \in [count : Nat, ticks : -1 .. 2,
                               running : BOOLEAN, coil : BOOLEAN]
  /\ coin_drv_open \in BOOLEAN
  /\ coin_caller \in [at : CoinCallers, on_transitions : Nat, register : Nat]
  /\ coin_tally \in [run : 0 .. OnDebounce + 1, closings : Nat, missed : Nat,
                     credited : Nat, added : Nat, pulses : Nat, undone : Nat]

(* No coin is invented and none is lost: the credits given, the drops and    *)
(* the transitions still to be read are the runs of on readings that lasted  *)
(* the debounce time, short at most of those that ended while get_inputs was *)
(* between its copy and its reset (SWITCH.C:476, 481).                       *)
CoinsKept ==
  LET accounted == coin_tally.credited + coin_drops + coin_switch.on_trans_accum
  IN  /\ accounted <= coin_tally.closings
      /\ accounted >= coin_tally.closings - coin_tally.missed

(* The meter never owes less than the game has added: the pulses made and    *)
(* the pulses to come are the counts added, more at most by the pulses that  *)
(* ended between the load and the store of an add (COINDRV.C:113).           *)
CoinsMetered ==
  LET metered == coin_tally.pulses + coin_counter_control.count
  IN  /\ metered >= coin_tally.added
      /\ metered <= coin_tally.added + coin_tally.undone

(* Every count added is pulsed out in the end and the coil is let go: with a *)
(* bounded number of coins the meter is over and over (and so for good) at   *)
(* rest, its coil released, with no drop left undelivered.                   *)
EveryCoinPulsed ==
  []<>( /\ coin_counter_control.count = 0
        /\ ~coin_counter_control.coil
        /\ coin_drops = 0 )
=============================================================================
