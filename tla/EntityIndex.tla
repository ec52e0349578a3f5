----------------------------- MODULE EntityIndex -----------------------------
(***************************************************************************)
(* redstone-core/src/world.rs: the entities of SparseWorld, the ids they   *)
(* are given and the index of ids by section that answers box queries.     *)
(*                                                                         *)
(* One axis stands for the three: a point is an integer, a section the     *)
(* interval of Edge points around it. The fields of an entity other than   *)
(* its position are left out.                                              *)
(***************************************************************************)
EXTENDS Integers, Functions

CONSTANTS
  Points,      \* positions
  Edge,        \* SECTION_EDGE
  GivenIds,    \* ids a scenario asks for
  MaxId,       \* u64::MAX
  SpawnBound   \* bound: no id above it is given out by spawn_entity; below
               \* MaxId, where next_entity_id stands still

EntityAssumption ==
  /\ Points \subseteq Int
  /\ Edge \in Nat \ {0}
  /\ MaxId \in Nat \ {0} /\ SpawnBound \in 1 .. MaxId - 1
  /\ GivenIds \subseteq 1 .. MaxId

VARIABLES
  entities,  \* id -> position
  index,     \* entity_sections: section -> ids
  nextId     \* next_entity_id

entityVars == <<entities, index, nextId>>

\* section_for_point
Section(point) == point \div Edge
IndexedSections == {Section(p) : p \in Points}

Larger(a, b) == IF a >= b THEN a ELSE b
After(id) == IF id < MaxId THEN id + 1 ELSE id  \* saturating_add(1)

Insert(id, point) ==
  /\ index' = [index EXCEPT ![Section(point)] = @ \cup {id}]
  /\ entities' = [i \in DOMAIN entities \cup {id} |-> IF i = id THEN point ELSE entities[i]]

Spawn(point) ==
  /\ nextId <= SpawnBound
  /\ nextId' = After(nextId)
  /\ Insert(nextId, point)

\* An id in use is an error and changes nothing.
SpawnWithId(id, point) ==
  /\ id \notin DOMAIN entities
  /\ nextId' = Larger(nextId, After(id))
  /\ Insert(id, point)

RemoveEntity(id) ==
  /\ id \in DOMAIN entities
  /\ entities' = Restrict(entities, DOMAIN entities \ {id})
  /\ index' = [index EXCEPT ![Section(entities[id])] = @ \ {id}]
  /\ UNCHANGED nextId

\* Mutant of Move: the old section is looked up after the position changed.
MoveThenLookUp(id, point) ==
  /\ id \in DOMAIN entities
  /\ entities' = [entities EXCEPT ![id] = point]
  /\ index' = [index EXCEPT ![Section(point)] = @ \cup {id}]
  /\ UNCHANGED nextId

Move(id, point) ==
  /\ id \in DOMAIN entities
  /\ entities' = [entities EXCEPT ![id] = point]
  /\ index' = [s \in IndexedSections |-> IF s = Section(point) THEN index[s] \cup {id}
                                  ELSE IF s = Section(entities[id]) THEN index[s] \ {id}
                                  ELSE index[s]]
  /\ UNCHANGED nextId

\* entity_ids_in_aabb: the sections from that of min to that of the point before
\* max, then only the entities that are in the box.
InBox(min, max) ==
  {id \in UNION {index[s] : s \in IndexedSections \cap (Section(min) .. Section(max - 1))} :
     id \in DOMAIN entities /\ min <= entities[id] /\ entities[id] < max}

EntitiesInit ==
  /\ entities = [i \in {} |-> 0]
  /\ index = [s \in IndexedSections |-> {}]
  /\ nextId = 1

EntitiesNext ==
  \/ \E p \in Points : Spawn(p)
  \/ \E id \in GivenIds, p \in Points : SpawnWithId(id, p)
  \/ \E id \in DOMAIN entities : RemoveEntity(id)
  \/ \E id \in DOMAIN entities, p \in Points : Move(id, p)

EntitiesSpec == EntitiesInit /\ [][EntitiesNext]_entityVars

-----------------------------------------------------------------------------
\* A section of the index holds exactly the entities whose position is in it.
SectionsExact ==
  \A s \in IndexedSections : index[s] = {id \in DOMAIN entities : Section(entities[id]) = s}

\* A box query returns exactly the entities in the half-open box, wherever its
\* ends lie in their sections.
QueryExact ==
  \A min, max \in Points :
    min < max => InBox(min, max) = {id \in DOMAIN entities : entities[id] \in min .. max - 1}

\* docs/impl.md:33: spawning, moving and removing an entity keep the index in
\* step, and a box query finds the entities in the box through it.
IndexExact == SectionsExact /\ QueryExact

\* docs/impl.md:33, "stable EntityId": an id names one entity while it lives,
\* so spawn_entity never gives an id that is in use.
SpawnIsFresh == nextId <= SpawnBound => nextId \notin DOMAIN entities

\* The index holds the entities by their sections, a box query returns exactly
\* those in the box, and spawn_entity never gives out an id that is in use
\* (world.rs, move_entity, entity_ids_in_aabb and spawn_entity).
EntitiesIndexed == IndexExact /\ SpawnIsFresh
=============================================================================
