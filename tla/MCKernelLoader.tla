--------------------------- MODULE MCKernelLoader ---------------------------
(***************************************************************************)
(* Every file of at most two program headers: segments that start and end  *)
(* inside a page or at its border, that overlap or not, in any order, with *)
(* zeros to fill in or file sizes that do not fit.                         *)
(***************************************************************************)
EXTENDS KernelLoader

CONSTANTS MaxHeaders, Offsets, MaxSize

Headers ==
  {h \in [p_type : {"PT_LOAD"}, p_paddr : {0}, p_vaddr : Addresses, p_memsz : 1 .. MaxSize,
          p_offset : Offsets, p_filesz : 0 .. MaxSize] :
     h.p_vaddr + h.p_memsz <= PageCount * UEFI_PAGE_SIZE}
  \union {[p_type |-> "PT_DYNAMIC", p_paddr |-> 0, p_vaddr |-> 0, p_memsz |-> 1,
           p_offset |-> 0, p_filesz |-> 1]}

SmallElves == UNION {[1 .. m -> Headers] : m \in 1 .. MaxHeaders}
=============================================================================
