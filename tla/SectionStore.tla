----------------------------- MODULE SectionStore -----------------------------
(***************************************************************************)
(* redstone-core/src/world.rs: the blocks of SparseWorld in sections with  *)
(* palettes, kept in a sparse map and, once optimize_section_access has    *)
(* found them compact enough, in an array over their bounding box.         *)
(*                                                                         *)
(* A section position is a triple of integers, a cell one of its 4096      *)
(* local indices. Block entities are in BlockEntityTicks.                  *)
(***************************************************************************)
EXTENDS Integers, Sequences, FiniteSets, SequencesExt, Functions

CONSTANTS
  Sections,      \* the section positions in use
  Reach,         \* bound of their coordinates: those of a block are 32 bits wide
  Cells,         \* the local indices in use
  States, Air,   \* block states
  None,          \* no section, no array
  PaletteLimit,  \* u16::MAX in the code
  SlotsPerSection, MinSlots, MaxSlots  \* 8, 64 and 1 000 000 in the code

\* A section: the states of its palette, the index of each cell in it, and how
\* many cells are not air. A box: its corner and its sizes.
SectionRecords == [palette : Seq(States), indices : [Cells -> Nat], nonAir : Int]
Boxes == [min : Int \X Int \X Int, size : [1 .. 3 -> Nat \ {0}]]

StoreAssumption ==
  /\ Reach \in Nat /\ Sections \subseteq (-Reach .. Reach) \X (-Reach .. Reach) \X (-Reach .. Reach)
  /\ IsFiniteSet(Cells) /\ IsFiniteSet(States) /\ Air \in States
  /\ None \notin SectionRecords /\ None \notin Boxes
  /\ PaletteLimit \in Nat /\ Cardinality(States) <= PaletteLimit + 1
  /\ SlotsPerSection \in Nat /\ MinSlots \in Nat /\ MaxSlots \in Nat

VARIABLES
  sparse,  \* sections: position -> section
  box,     \* the corner and the sizes of dense_sections, or None
  dense    \* DenseSections.sections: a section or None, from index 0

storeVars == <<sparse, box, dense>>

NewSection == [palette |-> <<Air>>, indices |-> [c \in Cells |-> 1], nonAir |-> 0]

-----------------------------------------------------------------------------
\* DenseSections::index: y outermost, then z, then x; outside the box, none.
Offset(pos, i) == pos[i] - box.min[i]
InArray(pos) == box # None /\ \A i \in 1 .. 3 : Offset(pos, i) \in 0 .. box.size[i] - 1
Index(pos) == (Offset(pos, 2) * box.size[3] + Offset(pos, 3)) * box.size[1] + Offset(pos, 1)

\* DenseSections::iter: the position of an index.
PositionOf(index) ==
  << box.min[1] + (index % box.size[1]),
     box.min[2] + ((index \div box.size[1]) \div box.size[3]),
     box.min[3] + ((index \div box.size[1]) % box.size[3]) >>

\* SparseWorld::section
SectionAt(pos) ==
  IF InArray(pos) THEN dense[Index(pos)]
  ELSE IF pos \in DOMAIN sparse THEN sparse[pos] ELSE None

StateIn(section, cell) == section.palette[section.indices[cell]]

Get(pos, cell) ==
  LET section == SectionAt(pos) IN IF section = None THEN Air ELSE StateIn(section, cell)

-----------------------------------------------------------------------------
\* Mutant of InPalette: a state enters in front.
InPaletteFront(palette, state) ==
  IF Contains(palette, state) THEN palette ELSE <<state>> \o palette

InPalette(palette, state) ==
  IF Contains(palette, state) THEN palette ELSE Append(palette, state)

\* PaletteSection::set, for a state that changes the cell
WithState(section, cell, state) ==
  LET palette == InPalette(section.palette, state)
      old == StateIn(section, cell)
  IN [palette |-> palette,
      indices |-> [section.indices EXCEPT
                     ![cell] = CHOOSE i \in DOMAIN palette : palette[i] = state],
      nonAir  |-> section.nonAir + (IF state # Air THEN 1 ELSE 0) - (IF old # Air THEN 1 ELSE 0)]

Overflows(section, state) ==
  ~Contains(section.palette, state) /\ Len(section.palette) > PaletteLimit

\* Mutant of Kept: a section that has become empty stays in the array.
KeptInBox(pos, section) == IF section.nonAir = 0 /\ ~InArray(pos) THEN None ELSE section

\* A section that has become empty is given back.
Kept(pos, section) == IF section.nonAir = 0 THEN None ELSE section

Store(pos, section) ==
  IF InArray(pos)
  THEN dense' = [dense EXCEPT ![Index(pos)] = section] /\ UNCHANGED sparse
  ELSE /\ sparse' = IF section = None THEN Restrict(sparse, DOMAIN sparse \ {pos})
                    ELSE [p \in DOMAIN sparse \cup {pos} |-> IF p = pos THEN section ELSE sparse[p]]
       /\ UNCHANGED dense

\* SparseWorld::set_block; air in a section that is not there changes nothing,
\* and a full palette is an error.
SetState(pos, cell, state) ==
  LET section == IF SectionAt(pos) = None THEN NewSection ELSE SectionAt(pos)
  IN /\ state # Get(pos, cell)
     /\ ~Overflows(section, state)
     /\ Store(pos, Kept(pos, WithState(section, cell, state)))
     /\ UNCHANGED box

\* SparseWorld::optimize_section_access
Lowest(i) == CHOOSE v \in {p[i] : p \in DOMAIN sparse} : \A p \in DOMAIN sparse : v <= p[i]
Highest(i) == CHOOSE v \in {p[i] : p \in DOMAIN sparse} : \A p \in DOMAIN sparse : p[i] <= v

Optimize ==
  /\ box = None /\ DOMAIN sparse # {}
  /\ LET min == <<Lowest(1), Lowest(2), Lowest(3)>>
         size == [i \in 1 .. 3 |-> Highest(i) - Lowest(i) + 1]
         slots == size[1] * size[2] * size[3]
         count == Cardinality(DOMAIN sparse)
     IN /\ slots <= MaxSlots
        /\ slots <= SlotsPerSection * count \/ slots <= MinSlots
        /\ box' = [min |-> min, size |-> size]
        /\ dense' = [n \in 0 .. slots - 1 |->
                       IF \E p \in DOMAIN sparse : Index(p)' = n
                       THEN sparse[CHOOSE p \in DOMAIN sparse : Index(p)' = n] ELSE None]
  /\ sparse' = [p \in {} |-> None]

StoreInit ==
  /\ sparse = [p \in {} |-> None]
  /\ box = None /\ dense = [n \in {} |-> None]

StoreNext ==
  \/ \E pos \in Sections, cell \in Cells, state \in States : SetState(pos, cell, state)
  \/ Optimize

StoreSpec == StoreInit /\ [][StoreNext]_storeVars

-----------------------------------------------------------------------------
AllocatedSections == {pos \in Sections : SectionAt(pos) # None}

\* A section exists exactly as long as a block in it is not air, counted by
\* non_air; its palette never shrinks, but has room for every state.
Counted ==
  \A pos \in AllocatedSections :
    LET s == SectionAt(pos)
        count == Cardinality({c \in Cells : Get(pos, c) # Air})
    IN /\ s.nonAir = count /\ count > 0
       /\ s.palette[1] = Air /\ s.indices \in [Cells -> DOMAIN s.palette]
       /\ ~\E state \in States : Overflows(s, state)

\* sections() and iter_blocks() list every allocated section once, at the
\* position where get_block reads it.
ListedOnce ==
  LET listed == {n \in DOMAIN dense : dense[n] # None}
  IN /\ {PositionOf(n) : n \in listed} \cup DOMAIN sparse = AllocatedSections
     /\ Cardinality(listed) + Cardinality(DOMAIN sparse) = Cardinality(AllocatedSections)
     /\ \A n \in listed : Index(PositionOf(n)) = n

\* docs/impl.md:29: in the map and in the array, sections are released with
\* their last block, palettes hold a state once, and each allocated section is
\* listed where its blocks are read.
WellFormed == Counted /\ ListedOnce

\* The sections are a map of blocks, before and after the array is built.
Map == INSTANCE BlockMap WITH
  blocks <- [pos \in Sections \X Cells |-> Get(pos[1], pos[2])]
RefinesBlockMap == Map!Spec
=============================================================================
