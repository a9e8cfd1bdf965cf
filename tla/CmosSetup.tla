------------------------------ MODULE CmosSetup ------------------------------
(* A game over the CMOS driver: the start of the driver (cmosinit), the      *)
(* checks and restores of setup_cmos2 (lib/goose/SETCMOS.C, adjust.c), the   *)
(* calls of the running game, the interrupt that copies, and power failures. *)
EXTENDS CmosDriver

CONSTANTS
  MaxSets, \* bound: stores of the running game
  MaxCuts  \* bound: power failures

ASSUME CmosBoundsAssumption == MaxSets \in Nat /\ MaxCuts \in Nat

VARIABLES
  cmos_caller, \* stage of the start, its loop's item and status, and stores of a
               \* call still to do
  given,       \* history: what the first audit and the record may be
  intact,      \* history: the words that survived the last power failure whole
  resized,     \* history: the last start changed the number of audits
  cmos_bounds  \* stores and power failures so far

cmos_vars == <<cmos_ram, cmos_shadow, cmos_update, cmos_status, max_audits,
               cmos_caller, given, intact, resized, cmos_bounds>>

(* cmosinit is save, test and restore.  Then come the stages of setup_cmos2, *)
(* each a loop over items (one, if it is no loop; none, if it is only a      *)
(* test), in the order of the code: the checks, the restore when the number  *)
(* of audits changed ("marker" and the six that follow), and what the        *)
(* adjustments ask for.                                                      *)
Following ==
  [audits           |-> "adjustments",     adjustments      |-> "defaults",
   defaults         |-> "records",         records          |-> "marker",
   marker           |-> "clear",           clear            |-> "mark",
   mark             |-> "all_defaults",    all_defaults     |-> "all_factory",
   all_factory      |-> "all_records",     all_records      |-> "all_reset",
   all_reset        |-> "factory",         factory          |-> "factory_defaults",
   factory_defaults |-> "factory_taken",   factory_taken    |-> "reset",
   reset            |-> "reset_records",   reset_records    |-> "reset_taken",
   reset_taken      |-> "ready"]

SetupStages == DOMAIN Following

At(stage) == [at |-> stage, item |-> 1, status |-> 0, stores |-> <<>>]

Damaged == [w \in Words |-> Torn]

-----------------------------------------------------------------------------
(* The stages of setup_cmos2.  A look reads the shadow, and each item of a   *)
(* loop is at most one call, whose stores follow it.  The shadow is RAM, so  *)
(* a value that was just stored reads back, and the second looks at          *)
(* everything (SETCMOS.C:602-647, 735-756) find nothing.                     *)

(* _restore_factory_adjustments, one step of its loop.                       *)
Defaults == {"defaults", "all_defaults", "factory_defaults"}
SetDefault(j) == set_adjustment(cmos_shadow, j, Ranges[j].default_val)

(* Calls with which a reset an adjustment has asked for takes it back.       *)
TakeBack(j) == set_adjustment(cmos_shadow, j, 0)

InRange(mem, j) == get_adjustment(mem, j) \in Ranges[j].min .. Ranges[j].max

(* What _check_system_adjustments resets: an adjustment read with wrong      *)
(* check data (which the store then makes right), or out of its range.       *)
Bogus(j) == ~check_adjustments(cmos_shadow) \/ ~InRange(cmos_shadow, j)

(* The restore when the number of audits changed.  Its test is the code's:   *)
(* get_audit returns 0 for a valid audit.                                    *)
MarkerWrong ==
  LET last == max_audits - 1
  IN  /\ ~_check_audit(cmos_shadow, last)
      /\ AsNumber(cmos_shadow[AuditAt(last)]) # max_audits

(* Mutant: the result of get_adjustment, 0 for a valid one, is taken for yes. *)
AskedForInverted(j) ==
  check_adjustments(cmos_shadow) \/ get_adjustment(cmos_shadow, j) # 0

AskedFor(j) ==
  ~check_adjustments(cmos_shadow) \/ get_adjustment(cmos_shadow, j) # 0

Items(stage) ==
  CASE stage \in {"audits", "clear"} -> max_audits
    [] stage \in {"adjustments"} \cup Defaults -> Len(Ranges)
    [] stage \in {"marker", "factory", "reset"} -> 0
    [] OTHER -> 1

(* The stores of an item.                                                    *)
StoresOf(stage, k) ==
  CASE stage = "audits" ->
         IF _check_audit(cmos_shadow, k - 1) THEN <<>> ELSE set_audit(k - 1, 0)
    [] stage = "adjustments" -> IF Bogus(k) THEN SetDefault(k) ELSE <<>>
    [] stage \in Defaults -> SetDefault(k)
    [] stage = "records" ->
         IF check_generic_record(cmos_shadow) THEN <<>> ELSE set_generic_record(0)
    [] stage = "clear" -> set_audit(k - 1, 0)
    [] stage = "mark" -> set_audit(max_audits - 1, max_audits)
    [] stage \in {"all_factory", "factory_taken"} -> TakeBack(FACTORY_RESTORE_ADJ)
    [] stage \in {"all_records", "reset_records"} -> set_generic_record(0)
    [] stage \in {"all_reset", "reset_taken"} -> TakeBack(HIGH_SCORE_RESET_ADJ)

StageAfter(stage) ==
  CASE stage = "adjustments" /\ cmos_caller.status = 0 -> "records"
    [] stage = "marker" /\ ~MarkerWrong -> "factory"
    [] stage = "factory" /\ ~AskedFor(FACTORY_RESTORE_ADJ) -> "reset"
    [] stage = "reset" /\ ~AskedFor(HIGH_SCORE_RESET_ADJ) -> "ready"
    [] OTHER -> Following[stage]

-----------------------------------------------------------------------------
(* The program.                                                              *)

(* The words a sequence of stores puts at one place.                         *)
PutAt(stores, at) ==
  {stores[k].word : k \in {k \in DOMAIN stores : stores[k].at = at}}

Giving(stores) ==
  [audit |-> given.audit \cup PutAt(stores, AuditAt(0)),
   record |-> given.record \cup PutAt(stores, RecordAt)]

(* Power on, with this or another version of the game; save_cmos.            *)
save_cmos ==
  /\ cmos_caller.at = "off"
  /\ cmos_shadow' = cmos_ram
  /\ cmos_update' = FALSE
  /\ cmos_status' = "alive"
  /\ max_audits' \in AuditCounts
  /\ resized' = (max_audits' # max_audits)
  /\ intact' = IF resized' THEN Damaged ELSE intact
  /\ cmos_caller' = At("test")
  /\ UNCHANGED <<cmos_ram, given, cmos_bounds>>

(* test_cmos, and the update that restores what it overwrote.                *)
test_cmos ==
  /\ cmos_caller.at = "test"
  /\ cmos_ram' = Pattern
  /\ cmos_update' = TRUE
  /\ cmos_caller' = At("restore")
  /\ UNCHANGED <<cmos_shadow, cmos_status, max_audits, given, intact,
                 resized, cmos_bounds>>

test_cmos_fails ==
  /\ cmos_caller.at = "test"
  /\ cmos_ram' = Pattern
  /\ cmos_status' = "dead"
  /\ cmos_caller' = At("audits")
  /\ UNCHANGED <<cmos_shadow, cmos_update, max_audits, given, intact, resized,
                 cmos_bounds>>

Restored ==
  /\ cmos_caller.at = "restore"
  /\ update_cmos
  /\ cmos_caller' = At("audits")
  /\ UNCHANGED <<cmos_shadow, cmos_status, max_audits, given, intact, resized,
                 cmos_bounds>>

(* The next write of the stage or of the call the game is in.                *)
WriteShadow ==
  /\ cmos_caller.stores # <<>>
  /\ LET w == Head(cmos_caller.stores)
     IN  /\ cmos_shadow' = Written(cmos_shadow, w)
         /\ cmos_update' = (cmos_update \/ w = Mark)
  /\ cmos_caller' = [cmos_caller EXCEPT !.stores = Tail(@)]
  /\ UNCHANGED <<cmos_ram, cmos_status, max_audits, given, intact, resized,
                 cmos_bounds>>

(* The next item of the stage's loop.                                        *)
NextItem ==
  /\ cmos_caller.stores = <<>>
  /\ cmos_caller.at \in SetupStages
  /\ cmos_caller.item <= Items(cmos_caller.at)
  /\ LET stores == StoresOf(cmos_caller.at, cmos_caller.item)
     IN  /\ cmos_caller' = [cmos_caller EXCEPT !.item = @ + 1,
                              !.status = IF stores = <<>> THEN @ ELSE 1,
                              !.stores = stores]
         /\ given' = Giving(stores)
  /\ UNCHANGED <<cmos_ram, cmos_shadow, cmos_update, cmos_status, max_audits,
                 intact, resized, cmos_bounds>>

(* The next stage of setup_cmos2.                                            *)
NextStage ==
  /\ cmos_caller.stores = <<>>
  /\ cmos_caller.at \in SetupStages
  /\ cmos_caller.item > Items(cmos_caller.at)
  /\ cmos_caller' = At(StageAfter(cmos_caller.at))
  /\ UNCHANGED <<cmos_ram, cmos_shadow, cmos_update, cmos_status, max_audits,
                 given, intact, resized, cmos_bounds>>

(* A call of the running game.                                               *)
GameStores(stores) ==
  /\ cmos_caller = At("ready")
  /\ cmos_bounds.sets < MaxSets
  /\ cmos_caller' = [cmos_caller EXCEPT !.stores = stores]
  /\ given' = Giving(stores)
  /\ intact' = Damaged
  /\ resized' = FALSE
  /\ cmos_bounds' = [cmos_bounds EXCEPT !.sets = @ + 1]
  /\ UNCHANGED <<cmos_ram, cmos_shadow, cmos_update, cmos_status, max_audits>>

(* increment_audit refuses an audit that does not check.                     *)
increment_audit(i) ==
  /\ _check_audit(cmos_shadow, i)
  /\ GameStores(set_audit(i, AsNumber(cmos_shadow[AuditAt(i)]) + 1))

Game ==
  \/ \E i \in Audits \ {max_audits - 1} : increment_audit(i)
  \/ \E j \in Adjustments : \E n \in Ranges[j].min .. Ranges[j].max :
       GameStores(set_adjustment(cmos_shadow, j, n))
  \/ \E n \in 1 .. 2 : GameStores(set_generic_record(n))

-----------------------------------------------------------------------------
(* The interrupt and the power.                                              *)

(* What the words hold now, and what is being written over them.             *)
CopyTaken ==
  [audit |-> {cmos_shadow[AuditAt(0)]} \cup
               PutAt(cmos_caller.stores, AuditAt(0)),
   record |-> {cmos_shadow[RecordAt]} \cup
                PutAt(cmos_caller.stores, RecordAt)]

UpdateInterrupt ==
  /\ cmos_caller.at \notin {"off", "test", "restore"}
  /\ update_cmos
  /\ given' = CopyTaken
  /\ UNCHANGED <<cmos_shadow, cmos_status, max_audits, cmos_caller, intact,
                 resized, cmos_bounds>>

(* What the CMOS can hold when the power fails: the copy may be under way,   *)
(* in the interrupt, in the test (whose pattern is then half written) or in  *)
(* the restore.                                                              *)
LeftInCmos ==
  CASE cmos_caller.at = "test" -> PartCopies(Pattern, cmos_ram)
    [] cmos_status = "alive" /\ cmos_update -> PartCopies(cmos_shadow, cmos_ram)
    [] OTHER -> {cmos_ram}

AllCheck(mem) ==
  /\ \A i \in Audits : _check_audit(mem, i)
  /\ check_adjustments(mem)
  /\ check_generic_record(mem)

PowerFails ==
  /\ cmos_caller.at # "off"
  /\ cmos_bounds.cuts < MaxCuts
  /\ cmos_ram' \in LeftInCmos
  /\ intact' = IF AllCheck(cmos_ram') /\ \A j \in Adjustments : InRange(cmos_ram', j)
               THEN cmos_ram' ELSE Damaged
  /\ cmos_shadow' = Damaged
  /\ cmos_update' = FALSE
  /\ cmos_caller' = At("off")
  /\ cmos_bounds' = [cmos_bounds EXCEPT !.cuts = @ + 1]
  /\ UNCHANGED <<cmos_status, max_audits, given, resized>>

-----------------------------------------------------------------------------

(* A CMOS as a game leaves it that has stored its defaults.                  *)
Settled ==
  LET adjustments == [j \in Adjustments |->
                        Number(IF j < FACTORY_RESTORE_ADJ
                               THEN Ranges[j].default_val ELSE 0)]
  IN  [w \in Words |->
         CASE w < AdjustmentAt(1) ->
                IF w % 2 = 1 THEN Number(0) ELSE crc(<<Number(0)>>)
           [] w \in {AdjustmentAt(j) : j \in Adjustments} ->
                adjustments[w - AdjustmentAt(0)]
           [] w = AdjustmentsEnd -> crc(adjustments)
           [] w \in {RecordAt, RecordAt + 1} -> Number(0)
           [] w = RecordAt + 2 -> crc(<<Number(0), Number(0)>>)
           [] OTHER -> Torn]

CmosInit ==
  /\ max_audits \in AuditCounts
  /\ cmos_ram \in {Damaged, Settled}
  /\ cmos_shadow = Damaged
  /\ cmos_update = FALSE
  /\ cmos_status = "alive"
  /\ cmos_caller = At("off")
  /\ given = [audit |-> {cmos_ram[AuditAt(0)]}, record |-> {cmos_ram[RecordAt]}]
  /\ intact = Damaged
  /\ resized = FALSE
  /\ cmos_bounds = [sets |-> 0, cuts |-> 0]

CmosProgram ==
  \/ save_cmos
  \/ test_cmos
  \/ test_cmos_fails
  \/ Restored
  \/ WriteShadow
  \/ NextItem
  \/ NextStage

CmosNext == CmosProgram \/ Game \/ UpdateInterrupt \/ PowerFails

CmosSpec == CmosInit /\ [][CmosNext]_cmos_vars

-----------------------------------------------------------------------------
(* Properties.                                                               *)

Ready == cmos_caller = At("ready")

CmosTypeOK ==
  /\ DOMAIN cmos_ram = Words /\ DOMAIN cmos_shadow = Words
  /\ cmos_update \in BOOLEAN
  /\ cmos_status \in {"alive", "dead"}
  /\ max_audits \in AuditCounts
  /\ cmos_bounds \in [sets : 0 .. MaxSets, cuts : 0 .. MaxCuts]

(* Once the game runs, whatever the power did before, everything checks,     *)
(* every adjustment is in its range, and an audit and a record hold what the *)
(* program stored there since the last whole copy or what that copy holds,   *)
(* never a mixture of two stores or a leftover of the test.                  *)
StoredTrusted ==
  Ready =>
    /\ AllCheck(cmos_shadow)
    /\ \A j \in Adjustments : InRange(cmos_shadow, j)
    /\ cmos_shadow[AuditAt(0)] \in given.audit
    /\ cmos_shadow[RecordAt] \in given.record
    /\ cmos_shadow[RecordAt] = cmos_shadow[RecordAt + 1]

(* A power failure that leaves a CMOS in which everything checks and no      *)
(* adjustment is out of its range loses nothing: the next start gives the    *)
(* game every audit, and every adjustment and record too unless a restore or *)
(* a reset had been asked for.  (Check data alone do not say so: the reset   *)
(* of one adjustment makes them right over others that are still torn.)      *)
KeptAcrossPower ==
  Ready /\ intact # Damaged =>
    /\ \A i \in Audits : cmos_shadow[AuditAt(i)] = intact[AuditAt(i)]
    /\ \A j \in Adjustments \ {FACTORY_RESTORE_ADJ, HIGH_SCORE_RESET_ADJ} :
         get_adjustment(intact, FACTORY_RESTORE_ADJ) = 0 =>
           cmos_shadow[AdjustmentAt(j)] = intact[AdjustmentAt(j)]
    /\ (/\ get_adjustment(intact, FACTORY_RESTORE_ADJ) = 0
        /\ get_adjustment(intact, HIGH_SCORE_RESET_ADJ) = 0) =>
         cmos_shadow[RecordAt] = intact[RecordAt]

(* The CMOS catches up: a machine that is on gets, unless its CMOS test      *)
(* fails, to where the game runs and everything it stored is behind the      *)
(* battery, although a store may come into the middle of every copy.         *)
RamCatchesUp ==
  cmos_caller.at # "off" ~>
    (cmos_status = "dead" \/ (Ready /\ cmos_ram = cmos_shadow))

(* "If the maximum number of audits changes, EVERYTHING must be restored     *)
(* because EVERYTHING shifts in CMOS" (SETCMOS.C:649-651): when the game     *)
(* runs after such a change no audit has kept its count.                     *)
SizeChangeRestores ==
  Ready /\ resized /\ cmos_status = "alive" =>
    \A i \in Audits \ {max_audits - 1} : cmos_shadow[AuditAt(i)] = Number(0)
=============================================================================
