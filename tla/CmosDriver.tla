----------------------------- MODULE CmosDriver -----------------------------
(* The audits, adjustments and records a game keeps in battery backed memory:*)
(* biosrom/bios/vcmosdrv.c.  The program reads and writes a copy in RAM, the *)
(* shadow; the millisecond interrupt copies what differs into the CMOS.  The *)
(* power may fail at any time, also in the middle of that copy.              *)
(*                                                                           *)
(* A word of memory is a tuple: <<n>> for the number n, <<"crc", w, ...>>    *)
(* for the check data of the words w, ..., so that no two different things   *)
(* have the same check data (a CRC of 32 bits is taken to tell apart what    *)
(* the program stores).  <<>> is a word of which some bytes were copied.     *)
EXTENDS Integers, Sequences, FiniteSets

CONSTANTS
  AuditCounts, \* numbers of audits the versions of the game may have
  Ranges       \* system_adjustment_table: for each adjustment [min, max, default_val]

ASSUME CmosAssumption ==
  /\ AuditCounts \subseteq Nat \ {0} /\ AuditCounts # {} /\ IsFiniteSet(AuditCounts)
  /\ Ranges \in Seq([min : Nat, max : Nat, default_val : Nat]) /\ Len(Ranges) >= 2
  /\ \A j \in DOMAIN Ranges : Ranges[j].default_val \in Ranges[j].min .. Ranges[j].max
  /\ \A j \in {Len(Ranges) - 1, Len(Ranges)} : Ranges[j].min = 0

VARIABLES
  cmos_ram,    \* the words behind the battery
  cmos_shadow, \* their copy in RAM
  cmos_update, \* the shadow has something to copy
  cmos_status, \* "alive", or "dead" after a failed test
  max_audits   \* of the version of the game that runs

(* The first adjustment is any one; the last two are those that ask for a    *)
(* restore at the next start.  One record of two words stands for the tables.*)
Adjustments == DOMAIN Ranges
HIGH_SCORE_RESET_ADJ == Len(Ranges)
FACTORY_RESTORE_ADJ == HIGH_SCORE_RESET_ADJ - 1

Number(n) == <<n>>
Torn == <<>>
crc(words) == <<"crc">> \o words

(* The number the code sees in a word that is not one it stored as a number  *)
(* is out of every range.                                                    *)
AsNumber(w) == IF Len(w) = 1 THEN w[1] ELSE 1000

-----------------------------------------------------------------------------
(* config_cmos: audits, each with its check data, then the adjustments with  *)
(* theirs, then the record with its own.                                     *)

AuditAt(i) == 2 * i + 1
AdjustmentAt(j) == 2 * max_audits + j
AdjustmentsEnd == 2 * max_audits + Len(Ranges) + 1
RecordAt == AdjustmentsEnd + 1

Words == 1 .. 2 * (CHOOSE n \in AuditCounts : \A m \in AuditCounts : m <= n)
              + Len(Ranges) + 4

Audits == 0 .. max_audits - 1

_check_audit(mem, i) == mem[AuditAt(i) + 1] = crc(<<mem[AuditAt(i)]>>)

AdjustmentTable(mem) == [j \in Adjustments |-> mem[AdjustmentAt(j)]]

check_adjustments(mem) == mem[AdjustmentsEnd] = crc(AdjustmentTable(mem))

check_generic_record(mem) ==
  mem[RecordAt + 2] = crc(<<mem[RecordAt], mem[RecordAt + 1]>>)

get_adjustment(mem, j) == AsNumber(mem[AdjustmentAt(j)])

-----------------------------------------------------------------------------
(* Each call that stores is the sequence of its writes to the shadow; Mark   *)
(* is the assignment to cmos_update, the last thing it does.                 *)

Write(at, word) == [at |-> at, word |-> word]
Mark == [at |-> 0, word |-> Torn]

(* Mutant: the check data stays that of the old count.                       *)
set_auditUnchecked(i, n) == << Write(AuditAt(i), Number(n)), Mark >>

set_audit(i, n) ==
  << Write(AuditAt(i) + 1, crc(<<Number(n)>>)),
     Write(AuditAt(i), Number(n)),
     Mark >>

(* Mutant: the flag goes up before the words are stored.                     *)
set_adjustmentEarly(mem, j, n) ==
  << Mark,
     Write(AdjustmentAt(j), Number(n)),
     Write(AdjustmentsEnd,
           crc([AdjustmentTable(mem) EXCEPT ![j] = Number(n)])) >>

set_adjustment(mem, j, n) ==
  << Write(AdjustmentAt(j), Number(n)),
     Write(AdjustmentsEnd,
           crc([AdjustmentTable(mem) EXCEPT ![j] = Number(n)])),
     Mark >>

set_generic_record(n) ==
  << Write(RecordAt, Number(n)),
     Write(RecordAt + 1, Number(n)),
     Write(RecordAt + 2, crc(<<Number(n), Number(n)>>)),
     Mark >>

Written(mem, w) == IF w = Mark THEN mem ELSE [mem EXCEPT ![w.at] = w.word]

-----------------------------------------------------------------------------
(* update_cmos, in the interrupt: it takes the flag down and copies.         *)
update_cmos ==
  /\ cmos_status = "alive"
  /\ cmos_update
  /\ cmos_update' = FALSE
  /\ cmos_ram' = cmos_shadow

(* A memory into which part of another was copied, in the order of the loop, *)
(* with the word at which the power failed old or torn.                      *)
Copied(from, to, n, torn) ==
  [w \in Words |-> CASE w <= n -> from[w]
                     [] w = n + 1 /\ torn /\ from[w] # to[w] -> Torn
                     [] OTHER -> to[w]]

PartCopies(from, to) ==
  {Copied(from, to, n, torn) : n \in 0 .. Cardinality(Words), torn \in BOOLEAN}

(* test_cmos overwrites all of the CMOS, which save_cmos has just copied.    *)
Pattern == [w \in Words |-> Number(500 + w)]
=============================================================================
