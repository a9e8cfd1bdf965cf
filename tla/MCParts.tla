------------------------------ MODULE MCParts -------------------------------
(***************************************************************************)
(* The parts of the system that share no state, each in a small instance   *)
(* of its own.  A behaviour is one of the part it begins with; the others  *)
(* stay where they start.                                                  *)
(***************************************************************************)
EXTENDS CoinPath, SerialPort, CmosSetup, ObjectList, TextureLists

CONSTANT Parts \* the parts that are checked

VARIABLE part

\* Three adjustments: a plain one and the two that ask for a restore and a reset.
Switch(default) == [min |-> 0, max |-> 1, default_val |-> default]
ThreeAdjustments == <<Switch(0), Switch(1), Switch(1)>>

\* Textures of one piece, and of two halves that rather go to two units.
Whole == [both |-> 2, even |-> 1, odd |-> 1, one_level |-> FALSE, trilinear |-> FALSE]
Split == [Whole EXCEPT !.trilinear = TRUE]
WholeAndSplit == <<Whole, Split>>

coin == coin_vars
serial == tty_vars
cmos == cmos_vars
objects == object_vars
textures == texture_vars

PartsInit ==
  /\ part \in Parts
  /\ CoinInit /\ TtyInit /\ CmosInit /\ ObjectInit /\ TextureInit
  \* A part that does not run has one initial state.
  /\ part # "cmos" => max_audits = Min(AuditCounts) /\ cmos_ram = Damaged
  /\ part # "objects" => resource_mode
  /\ part # "textures" => texture_node_mode

Still(others) == UNCHANGED <<part, others>>

CoinPart == part = "coin" /\ CoinNext /\ Still(<<serial, cmos, objects, textures>>)
SerialPart == part = "serial" /\ TtyNext /\ Still(<<coin, cmos, objects, textures>>)
CmosPart == part = "cmos" /\ CmosNext /\ Still(<<coin, serial, objects, textures>>)
ObjectPart == part = "objects" /\ ObjectNext /\ Still(<<coin, serial, cmos, textures>>)
TexturePart == part = "textures" /\ TextureNext /\ Still(<<coin, serial, cmos, objects>>)

PartsNext == CoinPart \/ SerialPart \/ CmosPart \/ ObjectPart \/ TexturePart

all_vars == <<part, coin, serial, cmos, objects, textures>>

PartsSpec ==
  /\ PartsInit /\ [][PartsNext]_all_vars
  /\ WF_coin(part = "coin" /\ \E closed \in BOOLEAN : nile4_watchdog_handler(closed))
  /\ WF_coin(part = "coin" /\ scan_switches)
  /\ WF_serial(part = "serial" /\ TransmitInterrupt)
  /\ WF_serial(part = "serial" /\ TtyProgram)
  /\ WF_cmos(part = "cmos" /\ CmosProgram)
  /\ WF_cmos(part = "cmos" /\ UpdateInterrupt)

(* Every variable of every part keeps to its type.                           *)
PartsTypeOK ==
  CoinTypeOK /\ TtyTypeOK /\ CmosTypeOK /\ ObjectTypeOK /\ TextureTypeOK
=============================================================================
