-------------------------- MODULE MCPhysMemManager --------------------------
(***************************************************************************)
(* Every memory map of at most MaxEntries descriptors inside the frames    *)
(* 0 .. Top - 1 that the firmware may report: each descriptor covers at    *)
(* least one frame, no two overlap, and they come in any order.  Top may   *)
(* exceed FRAME_COUNT: firmware reports areas past the bitmap too.         *)
(***************************************************************************)
EXTENDS PhysMemManager

CONSTANTS Top, MaxEntries, Types

Descriptors ==
  {d \in [phys_start : 0 .. Top - 1, page_count : 1 .. Top, ty : Types] :
     d.phys_start + d.page_count <= Top}

Disjoint(map) ==
  \A j, k \in DOMAIN map : j # k => FramesOf(map[j]) \intersect FramesOf(map[k]) = {}

FirmwareMaps ==
  {map \in UNION {[1 .. n -> Descriptors] : n \in 1 .. MaxEntries} : Disjoint(map)}
=============================================================================
