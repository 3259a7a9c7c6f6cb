------------------------------- MODULE MCBoot -------------------------------
(***************************************************************************)
(* Complete machines and machines that lack one part; a kernel of one      *)
(* segment with a page to fill with zeros, and one of two segments with a  *)
(* header between them that is not loaded; a file that is cut short.  The  *)
(* bitmap ends below the last page, which is in the map or not.            *)
(***************************************************************************)
EXTENDS Boot

AllButOne == {Parts} \union {Parts \ {part} : part \in Parts}

Header(type, vaddr, memsz, offset, filesz) ==
  [p_type |-> type, p_paddr |-> vaddr, p_vaddr |-> vaddr, p_memsz |-> memsz,
   p_offset |-> offset, p_filesz |-> filesz]

MCElves ==
  { << Header("PT_LOAD", 1, 2, 0, 1) >>,
    << Header("PT_LOAD", 2, 1, 1, 1), Header("PT_DYNAMIC", 0, 1, 0, 1),
       Header("PT_LOAD", 1, 1, 0, 1) >>,
    << Header("PT_LOAD", 1, 1, 1, 2) >> }

MCLayouts ==
  { layout \in [0 .. PageCount - 1 -> PageType] :
      \A p \in 0 .. PageCount - 1 :
        IF p < FRAME_COUNT THEN layout[p] # "NONE" ELSE layout[p] \in {"NONE", "RESERVED"} }
=============================================================================
