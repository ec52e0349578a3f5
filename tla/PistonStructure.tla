--------------------------- MODULE PistonStructure ---------------------------
(***************************************************************************)
(* redstone-java-26/src/rules/piston.rs, resolve_push_structure: which     *)
(* blocks a piston moves and which it destroys. Lines of blocks are added  *)
(* in the order the source adds them, branches of slime and honey included *)
(* (recursion: for TLC only).                                              *)
(***************************************************************************)
EXTENDS Integers, SequencesExt

CONSTANTS
  Width, Height, \* size of the plane, surrounded by immovable blocks
  PushLimit      \* 12 in the source

Cells == (0 .. Width) \X (0 .. Height)

Dirs == {"down", "up", "west", "east"}

\* In the order branches are tried
BranchOrder == <<"down", "up", "west", "east">>

Opposite(d) ==
  CASE d = "down" -> "up" [] d = "up" -> "down"
    [] d = "west" -> "east" [] d = "east" -> "west"

Relative(p, d, n) ==
  CASE d = "down" -> <<p[1], p[2] - n>> [] d = "up" -> <<p[1], p[2] + n>>
    [] d = "west" -> <<p[1] - n, p[2]>> [] d = "east" -> <<p[1] + n, p[2]>>

SameAxis(d, e) == d = e \/ d = Opposite(e)

\* A block: its kind, and what a piston, its head or a moving block adds.
Block(kind, facing, sticky, extended) ==
  [kind |-> kind, facing |-> facing, sticky |-> sticky, extended |-> extended]

Plain(kind) == Block(kind, "none", FALSE, FALSE)

Air == Plain("air")
Wall == Plain("obsidian")

BlockAt(blocks, p) == IF p \in DOMAIN blocks THEN blocks[p] ELSE Wall

\* Normal, Block, Destroy or PushOnly; a block entity keeps a normal block.
PushReaction(b) ==
  IF b.kind = "piston" /\ b.extended THEN "block"
  ELSE IF b.kind \in {"obsidian", "moving", "head"} THEN "block"
  ELSE IF b.kind = "terracotta" THEN "push_only"
  ELSE IF b.kind = "torch" THEN "destroy"
  ELSE "normal"

HasBlockEntity(b) == b.kind = "chest"

CanPush(b, push, destroying, connection) ==
  LET reaction == PushReaction(b) IN
  \/ reaction = "normal" /\ ~HasBlockEntity(b)
  \/ reaction = "destroy" /\ destroying
  \/ reaction = "push_only" /\ push = connection

IsSticky(b) == b.kind \in {"slime", "honey"}

SticksTo(left, right) == ~(IsSticky(left) /\ IsSticky(right) /\ left # right)

\* A resolution under way: the world, the piston, the direction, and the
\* lines so far; ok turns FALSE once and for all.
Resolver(blocks, piston, push) ==
  [blocks |-> blocks, piston |-> piston, push |-> push,
   toPush |-> <<>>, toDestroy |-> <<>>, ok |-> TRUE]

FailedResolver(r) == [r EXCEPT !.ok = FALSE]

\* The n-th block behind start hangs on the one before it.
HangsOn(r, start, n) ==
  LET back == Opposite(r.push)
      pos == Relative(start, back, n)
      next == BlockAt(r.blocks, pos)
      previous == BlockAt(r.blocks, Relative(start, back, n - 1))
  IN  /\ IsSticky(previous)
      /\ next # Air /\ pos # r.piston
      /\ SticksTo(previous, next)
      /\ CanPush(next, r.push, FALSE, back)

Reach == 1 .. Width + Height + 2

\* start and what it drags behind it
BlockCount(r, start) == CHOOSE n \in Reach : ~HangsOn(r, start, n) /\ \A k \in 1 .. n - 1 : HangsOn(r, start, k)

Destroyed(r, pos) == PushReaction(BlockAt(r.blocks, pos)) = "destroy"

Stops(r, pos) ==
  \/ Contains(r.toPush, pos)
  \/ BlockAt(r.blocks, pos) = Air
  \/ pos = r.piston
  \/ ~CanPush(BlockAt(r.blocks, pos), r.push, TRUE, r.push)
  \/ Destroyed(r, pos)

\* How far in front of start the line ends
StopOffset(r, start) ==
  LET pos(n) == Relative(start, r.push, n)
  IN  CHOOSE n \in Reach : Stops(r, pos(n)) /\ \A k \in 1 .. n - 1 : ~Stops(r, pos(k))

\* reorder_piston_blocks: the new line goes before what it runs into.
Reordered(toPush, added, collision) ==
  LET split == Len(toPush) - added
  IN  SubSeq(toPush, 1, collision - 1) \o SubSeq(toPush, split + 1, Len(toPush))
      \o SubSeq(toPush, collision, split)

\* Mutant of Room: the dragged blocks are not counted.
RoomForFront(r, dragged, front) == Len(r.toPush) + front <= PushLimit

\* Three tests in the source: the line behind, each block of it, each in front.
Room(r, dragged, front) == Len(r.toPush) + dragged + front <= PushLimit

Ignored(r, start, connection) ==
  LET b == BlockAt(r.blocks, start) IN
  \/ b = Air \/ start = r.piston
  \/ ~CanPush(b, r.push, FALSE, connection)
  \/ Contains(r.toPush, start)

RECURSIVE AddLine(_, _, _), AddBranches(_, _, _), BranchAll(_, _, _)

\* The line with start: what it drags, and what is in front until it stops
Line(r, start, dragged, front) ==
  [i \in 1 .. dragged + front |->
     IF i <= dragged THEN Relative(start, Opposite(r.push), dragged - i)
     ELSE Relative(start, r.push, i - dragged)]

\* The line is added and ends at stop.
LineStopped(r, line, stop) ==
  IF Contains(r.toPush, stop)
  THEN LET at == SelectInSeq(r.toPush, LAMBDA p : p = stop)
       IN  BranchAll([r EXCEPT !.toPush = Reordered(r.toPush \o line, Len(line), at)],
                     1, at + Len(line))
  ELSE IF BlockAt(r.blocks, stop) = Air THEN [r EXCEPT !.toPush = @ \o line]
  ELSE IF stop # r.piston /\ Destroyed(r, stop)
  THEN [r EXCEPT !.toPush = @ \o line, !.toDestroy = Append(@, stop)]
  ELSE FailedResolver(r)

\* add_piston_block_line, for what start drags and what is in front of it
LineAdded(r, start, dragged, front) ==
  IF ~Room(r, dragged, front) THEN FailedResolver(r)
  ELSE LineStopped(r, Line(r, start, dragged, front), Relative(start, r.push, front + 1))

AddLine(r, start, connection) ==
  IF Ignored(r, start, connection) THEN r
  ELSE LineAdded(r, start, BlockCount(r, start), StopOffset(r, start) - 1)

\* add_piston_branches: sideways neighbours, direction by direction
AddBranches(r, from, k) ==
  IF k > Len(BranchOrder) \/ ~r.ok THEN r
  ELSE
  LET d == BranchOrder[k]
      side == Relative(from, d, 1)
      sticks == ~SameAxis(d, r.push) /\ SticksTo(BlockAt(r.blocks, side), BlockAt(r.blocks, from))
  IN  AddBranches(IF sticks THEN AddLine(r, side, d) ELSE r, from, k + 1)

\* The branches of the blocks first .. last, which may add more; last is
\* fixed after a collision, and grows with the list (0) in the outer loop.
BranchAll(r, first, last) ==
  IF ~r.ok \/ first > (IF last = 0 THEN Len(r.toPush) ELSE last) THEN r
  ELSE
  LET p == r.toPush[first]
  IN  BranchAll(IF IsSticky(BlockAt(r.blocks, p)) THEN AddBranches(r, p, 1) ELSE r, first + 1, last)

BranchesOf(line) == IF line.ok THEN BranchAll(line, 1, 0) ELSE line

\* resolve_push_structure: what moves, in order, and what is destroyed
Resolve(blocks, piston, start, push, extending) ==
  LET r == Resolver(blocks, piston, push)
      first == BlockAt(blocks, start)
  IN  IF CanPush(first, push, FALSE, push) THEN BranchesOf(AddLine(r, start, push))
      ELSE IF extending /\ PushReaction(first) = "destroy" THEN [r EXCEPT !.toDestroy = <<start>>]
      ELSE FailedResolver(r)

-----------------------------------------------------------------------------
\* Reference: the least set with start that is closed under pushing what is
\* in front and dragging what sticks.
Drags(blocks, piston, push, p, q) ==
  LET b == BlockAt(blocks, q) IN
  /\ IsSticky(BlockAt(blocks, p))
  /\ \E d \in Dirs \ {push} :
       /\ q = Relative(p, d, 1)
       /\ CanPush(b, push, FALSE, d)
  /\ b # Air /\ q # piston
  /\ SticksTo(BlockAt(blocks, p), b)

Pushes(blocks, push, p, q) ==
  /\ q = Relative(p, push, 1)
  /\ BlockAt(blocks, q) # Air /\ PushReaction(BlockAt(blocks, q)) # "destroy"

RECURSIVE Closure(_, _, _, _)
Closure(blocks, piston, push, moved) ==
  LET more == {q \in DOMAIN blocks : \E p \in moved :
                 Pushes(blocks, push, p, q) \/ Drags(blocks, piston, push, p, q)}
  IN  IF more \subseteq moved THEN moved ELSE Closure(blocks, piston, push, moved \cup more)

\* It can move if nothing in it or in front of it stands still, the piston
\* included, and it is not too large.
CanMove(blocks, piston, push, moved) ==
  /\ Cardinality(moved) <= PushLimit
  /\ \A p \in moved :
       /\ p # piston
       /\ CanPush(BlockAt(blocks, p), push, FALSE, push)
       /\ LET front == Relative(p, push, 1) IN
            /\ front # piston
            /\ CanPush(BlockAt(blocks, front), push, TRUE, push)

Crushed(blocks, push, moved) ==
  {q \in DOMAIN blocks : PushReaction(BlockAt(blocks, q)) = "destroy"
                         /\ \E p \in moved : q = Relative(p, push, 1)}

\* A block is listed before the one in front of it: read backwards, the list
\* moves every block into a place that is free by then.
FrontLast(r) ==
  \A i, j \in DOMAIN r.toPush : r.toPush[j] = Relative(r.toPush[i], r.push, 1) => i < j

\* What the resolver finds is that set, each block once, and it refuses
\* exactly what cannot move.
ExactResult(r, blocks, piston, start, push, extending, moved) ==
  LET first == BlockAt(blocks, start)
      crushes == extending /\ PushReaction(first) = "destroy"
  IN  /\ r.ok <=> crushes \/ (CanPush(first, push, FALSE, push) /\ CanMove(blocks, piston, push, moved))
      /\ r.ok => /\ IsInjective(r.toPush) /\ IsInjective(r.toDestroy)
                 /\ FrontLast(r)
                 /\ ToSet(r.toPush) = IF crushes THEN {} ELSE moved
                 /\ ToSet(r.toDestroy) = IF crushes THEN {start} ELSE Crushed(blocks, push, moved)

ResolvesExactly(blocks, piston, start, push, extending) ==
  ExactResult(Resolve(blocks, piston, start, push, extending), blocks, piston, start, push, extending,
              IF BlockAt(blocks, start) = Air THEN {} ELSE Closure(blocks, piston, push, {start}))
=============================================================================
