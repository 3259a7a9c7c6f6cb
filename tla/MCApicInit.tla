----------------------------- MODULE MCApicInit -----------------------------
(***************************************************************************)
(* Every XSDT of at most MaxTables tables, valid or not, with a MADT whose *)
(* entries come in one of several orders or are missing, and an RSDP or an *)
(* XSDT that is not valid.                                                 *)
(***************************************************************************)
EXTENDS ApicInit

CONSTANT MaxTables

Local(id) == [kind |-> "LocalApic", id |-> id]
Io(id)    == [kind |-> "IoApic", id |-> id]

MadtEntries == {<<Local(0), Io(2)>>, <<Io(2), Local(1), Local(0)>>, <<Io(2)>>}

Tables ==
  [signature : {"FADT"}, valid : {TRUE}, entries : {<< >>}]
  \union [signature : {"MADT"}, valid : {TRUE}, entries : MadtEntries]
  \union [signature : {"MADT"}, valid : {FALSE}, entries : {<<Local(1), Io(2)>>}]

SmallFirmwares ==
  [rsdp : {"valid"}, xsdt : {"valid"},
   tables : UNION {[1 .. k -> Tables] : k \in 0 .. MaxTables}]
  \union [rsdp : {"none", "invalid"}, xsdt : {"valid"}, tables : {<< >>}]
  \union [rsdp : {"valid"}, xsdt : {"invalid"}, tables : {<< >>}]

\* An entry the firmware opened goes to a CPU of its own choice.
SmallOldEntries ==
  {[low |-> [masked |-> "yes", vector |-> 0], high |-> 0],
   [low |-> [masked |-> "no", vector |-> 104], high |-> 7]}
=============================================================================
