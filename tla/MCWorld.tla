------------------------------- MODULE MCWorld -------------------------------
(* Six players.  Each one walks everywhere and types its own commands, in   *)
(* any order and any number of times.                                        *)
EXTENDS World

Get(args) == {<<"get", a>> : a \in args}

(* Plays the whole game, dropping nothing but Tux.                           *)
Quest ==
  Get({"mp2", "book", "gps", "spec", "bunnysuit", "battery", "Icard", "key", "robot",
       "mimo", "fish"})
    \cup {<<"drop", "tux">>, <<"wear", "bunnysuit">>, <<"use", "car">>,
          <<"charge", "battery">>, <<"install", "battery">>, <<"flash", "robot">>,
          <<"fix", "gps">>, <<"go", "allerton">>, <<"go", "willard">>,
          <<"go", "campus">>, <<"install", "mimo">>, <<"use", "fish">>,
          <<"buy", "yogurt">>, <<"do", "mp2">>}

(* Everything the quest does not need: speed, drinks, both books.            *)
Tourist ==
  {<<"grab", "board">>, <<"get", "jetpack">>, <<"buy", "dew">>, <<"drink", "dew">>,
   <<"sigh", "">>, <<"get", "book">>, <<"inventory", "">>, <<"dance", "tux">>}

(* Carries the board and the jetpack around.                                 *)
Flyer ==
  {<<"grab", "board">>, <<"drop", "board">>, <<"get", "jetpack">>,
   <<"drop", "jetpack">>}

(* Picks up and drops from the inventory view, near the car.                 *)
Mechanic ==
  Get({"Icard", "robot", "key", "battery"})
    \cup {<<"flash", "robot">>, <<"use", "car">>, <<"charge", "battery">>,
          <<"drop", "battery">>, <<"install", "battery">>, <<"inventory", "">>}

(* Takes both forms of the GPS in and out of the cleanroom.                  *)
Engineer ==
  Get({"gps", "spec", "bunnysuit", "Icard"})
    \cup {<<"drop", "gps">>, <<"wear", "bunnysuit">>,
          <<"fix", "gps">>, <<"inventory", "">>}

(* Leaves books about; get and drop find the one put down last.              *)
Reader ==
  {<<"get", "book">>, <<"drop", "book">>, <<"buy", "yogurt">>}

MCPlays == {Quest, Tourist, Flyer, Mechanic, Engineer, Reader}
=============================================================================
