--------------------------- MODULE MCHopperTransfer ---------------------------
(* Hoppers in small layouts: chains, double chests, furnaces, composters,      *)
(* items on the ground, minecarts, droppers and crafters.                      *)
EXTENDS HopperTransfer, TLC

MCKind == [h1 |-> "hopper", h2 |-> "hopper", h3 |-> "hopper", c1 |-> "chest", c2 |-> "chest",
           f |-> "furnace", o |-> "composter", j |-> "jukebox", m |-> "hopper_minecart",
           d |-> "dropper", w |-> "crafter", x |-> "dispenser"]
MCPlaces == DOMAIN MCKind
MCSlotCount == [p \in MCPlaces |-> IF p = "f" THEN 3 ELSE IF p \in {"h2", "w"} THEN 2 ELSE 1]
MCCapacity == [p \in MCPlaces |-> IF p = "c2" THEN 1 ELSE 64]
MCItems == {"stone", "coal", "disc", "bone_meal"}
MCMaxStack == [i \in MCItems |-> IF i = "disc" THEN 1 ELSE 2]
MCDisabled == [p \in MCPlaces |-> IF p = "w" THEN {0} ELSE {}]

Of(item, n) == [item |-> item, count |-> n]
Filled(what) ==
  [p \in MCPlaces |->
     [slots |-> [n \in 0 .. MCSlotCount[p] - 1 |->
                   IF p \in DOMAIN what /\ n \in DOMAIN what[p] THEN what[p][n] ELSE NoStack],
      cooldown |-> 0]]
Start(what, levels, lying) ==
  [be |-> Filled(what), level |-> levels,
   drops |-> [e \in Drops |-> IF e \in DOMAIN lying THEN lying[e] ELSE NoStack]]

\* What a layout does not name is nowhere.
None == [order |-> <<>>, carts |-> <<>>,
         front |-> [p \in MCPlaces |-> {}], above |-> [p \in MCPlaces |-> {}],
         into |-> [p \in MCPlaces |-> "side"], lid |-> {},
         over |-> [p \in MCPlaces |-> <<>>], near |-> [p \in MCPlaces |-> <<>>],
         touches |-> <<>>, switched |-> {}, ejects |-> <<>>, output |-> <<>>,
         start |-> Start(<<>>, <<>>, <<>>)]

\* h1 pushes into h2, h2 into a double chest, h3 pulls out of h2; all orders.
Chain(order) ==
  [None EXCEPT !.order = order, !.front["h1"] = {<<"h2">>}, !.front["h2"] = {<<"c1", "c2">>},
     !.above["h3"] = {<<"h2">>},
     !.start = Start([h1 |-> (0 :> Of("stone", 2)), h2 |-> (0 :> Of("coal", 1))], <<>>, <<>>)]

\* h1 above a furnace, h2 at its side, h3 below it.
Furnace ==
  [None EXCEPT !.order = <<"h1", "h2", "h3">>, !.front["h1"] = {<<"f">>}, !.into["h1"] = "up",
     !.front["h2"] = {<<"f">>}, !.above["h3"] = {<<"f">>},
     !.start = Start([h1 |-> (0 :> Of("stone", 2)), h2 |-> (0 :> Of("stone", 1)) @@ (1 :> Of("coal", 1)),
                      f |-> (2 :> Of("stone", 1))], <<>>, <<>>)]

\* A composter, at any level, between two hoppers.
Composting(n) ==
  [None EXCEPT !.order = <<"h1", "h3">>, !.front["h1"] = {<<"o">>}, !.into["h1"] = "up",
     !.above["h3"] = {<<"o">>},
     !.start = Start([h1 |-> (0 :> Of("bone_meal", 2))], [o |-> n], <<>>)]

\* A jukebox that h2 empties, if it has a free slot, and h1 fills.
Jukebox ==
  [None EXCEPT !.order = <<"h2", "h1">>, !.front["h1"] = {<<"j">>}, !.above["h2"] = {<<"j">>},
     !.start = Start([h1 |-> (0 :> Of("stone", 1)), j |-> (0 :> Of("disc", 1)),
                      h2 |-> (0 :> Of("disc", 1)) @@ (1 :> Of("stone", 1))], <<>>, <<>>)]

\* Items that lie over h1 and h2, of which the second fits in part, and a
\* minecart that sucks the same items.
Ground ==
  [None EXCEPT !.order = <<"h1", "h2">>, !.carts = <<"m">>,
     !.front["h1"] = {<<"h2">>}, !.front["h2"] = {<<"m">>, <<"c1">>},
     !.over["h1"] = <<"e1", "e2">>, !.over["m"] = <<"e2">>, !.near["m"] = <<"e2", "e1">>,
     !.touches = <<<<"e1", "h1">>, <<"e2", "h1">>, <<"e2", "h2">>>>,
     !.start = Start(<<>>, <<>>, [e1 |-> Of("stone", 1), e2 |-> Of("coal", 3)])]

\* A dropper and a crafter above a hopper, a dropper that throws onto it.
Driven ==
  [None EXCEPT !.order = <<"h1">>, !.front["d"] = {<<"h1">>}, !.into["d"] = "up",
     !.front["w"] = {<<"c2">>}, !.front["h1"] = {<<"w">>}, !.over["h1"] = <<"e1", "e2">>,
     !.touches = <<<<"e1", "h1">>>>,
     !.ejects = [d |-> "e1", w |-> "e2", x |-> "e1"], !.output = [w |-> Of("coal", 2)],
     !.start = Start([d |-> (0 :> Of("stone", 1)), x |-> (0 :> Of("disc", 1)),
                      w |-> (0 :> Of("stone", 1))], <<>>, <<>>)]
Thrown ==
  [Driven EXCEPT !.front["d"] = {}, !.start = Start([d |-> (0 :> Of("stone", 2)),
                      x |-> (0 :> Of("coal", 1)), h1 |-> (0 :> Of("disc", 1))], <<>>, <<>>)]

MCPlans ==
  {[Chain(<<"h1", "h2", "h3">>) EXCEPT !.switched = {"h2"}],
   [Chain(<<"h2", "h1", "h3">>) EXCEPT !.switched = {"h1"}],
   [Chain(<<"h3", "h2", "h1">>) EXCEPT !.switched = {"h3"}],
   Composting(0), Composting(6), Composting(7), Composting(8),
   [Furnace EXCEPT !.switched = {"h3"}], Jukebox,
   [Ground EXCEPT !.switched = {"m"}],
   [Ground EXCEPT !.switched = {"h1"}, !.carts = <<>>, !.touches = <<>>, !.lid = {"h1"},
                  !.over["h2"] = <<"e2">>],
   [Driven EXCEPT !.switched = {"h1"}], [Thrown EXCEPT !.switched = {"h1"}]}
===============================================================================
