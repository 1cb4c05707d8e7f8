-------------------------------- MODULE World --------------------------------
(* The world of the adventure game: rooms, objects, what the player has      *)
(* accomplished and what the screen shows (world.c), under the commands that *)
(* handle_typing and the game loop pass on (adventure.c).                    *)
(*                                                                           *)
(* A typed line is a pair of a verb and an argument; abbreviations of verbs  *)
(* and the wording of messages are left out.  An object's place in a photo   *)
(* and the random choice between the two photos of CIRCLE_N are not told     *)
(* apart.  Lists of objects are sets, except that find_in_room returns the   *)
(* object inserted last: that matters for the two objects called "book".     *)
EXTENDS Naturals, FiniteSets

CONSTANT Plays   \* sets of commands <<verb, arg>>; a player types those of one

ASSUME PlaysAssumption == \A p \in Plays : p \subseteq STRING \X STRING

MOTION_SPEED == 2

To(left, enter, right) == [left |-> left, enter |-> enter, right |-> right]

Rooms ==
  {"INVENTORY", "IN_391LAB", "BY_391LAB", "IN_IEEE", "BY_IEEE", "IN_395LAB",
   "BY_395LAB", "EVT_STAIR", "IN_CLEANR", "BY_CLEANR", "EVRT_VEND",
   "ALMAMATER", "IN_COCOMR", "BY_COCOMR", "BY_ZAS", "EAST_EVRT", "EVRT_BSMT",
   "WEST_BONE", "CIRCLE_N", "CIRCLE_SW", "EAST_BONE", "BARDEEN", "LIB_BACK",
   "RESERVE", "TALBOT_NW", "TALBOT_SW", "TALBOT", "SPRINGFLD", "CARIBOU",
   "KENNEY", "DCL", "LIB_FRONT", "KENNEY_E", "NEWMARK", "MNTL_NW", "MNTL_SW",
   "MNTLLOBBY", "MNTL_LAB1", "MNTL_LAB2", "MNTL_LAB3", "CSL_VIEW", "CSL_DOOR",
   "CSL_LOBBY", "CSL_UPPER", "CSLLOUNGE", "BECK_LOT", "BECKMAN", "BECK_DOOR",
   "BECKLOBBY", "BECK_MRI", "GARAGE", "CAR_SITE", "ALLERTON", "FU_DOGS",
   "STATUE", "SUNSINGER", "WILLARD", "WILL_SIDE", "REM_PLANE", "COCKPIT",
   "OVER_WILL", "AIR_RIO", "REM_ICE", "REM_LAB"}

room_data == [r \in Rooms |->
  CASE r = "INVENTORY"  -> To("NONE", "NONE", "NONE")
    [] r = "IN_391LAB"  -> To("NONE", "BY_391LAB", "NONE")
    [] r = "BY_391LAB"  -> To("BY_ZAS", "IN_391LAB", "BY_IEEE")
    [] r = "IN_IEEE"    -> To("NONE", "BY_IEEE", "NONE")
    [] r = "BY_IEEE"    -> To("BY_391LAB", "IN_IEEE", "BY_395LAB")
    [] r = "IN_395LAB"  -> To("NONE", "BY_395LAB", "NONE")
    [] r = "BY_395LAB"  -> To("BY_IEEE", "NONE", "EVT_STAIR")
    [] r = "EVT_STAIR"  -> To("BY_395LAB", "EAST_EVRT", "BY_CLEANR")
    [] r = "IN_CLEANR"  -> To("NONE", "BY_CLEANR", "NONE")
    [] r = "BY_CLEANR"  -> To("EVT_STAIR", "NONE", "EVRT_VEND")
    [] r = "EVRT_VEND"  -> To("BY_CLEANR", "EVRT_BSMT", "NONE")
    [] r = "ALMAMATER"  -> To("EAST_EVRT", "EAST_EVRT", "BY_COCOMR")
    [] r = "IN_COCOMR"  -> To("NONE", "BY_COCOMR", "NONE")
    [] r = "BY_COCOMR"  -> To("ALMAMATER", "IN_COCOMR", "BY_ZAS")
    [] r = "BY_ZAS"     -> To("BY_COCOMR", "NONE", "NONE")
    [] r = "EAST_EVRT"  -> To("ALMAMATER", "EVT_STAIR", "EVRT_BSMT")
    [] r = "EVRT_BSMT"  -> To("EAST_EVRT", "EVRT_VEND", "CIRCLE_SW")
    [] r = "WEST_BONE"  -> To("CIRCLE_SW", "NONE", "CIRCLE_N")
    [] r = "CIRCLE_N"   -> To("WEST_BONE", "TALBOT_NW", "EAST_BONE")
    [] r = "CIRCLE_SW"  -> To("EAST_BONE", "EVRT_BSMT", "CIRCLE_N")
    [] r = "EAST_BONE"  -> To("CIRCLE_N", "NONE", "CIRCLE_SW")
    [] r = "BARDEEN"    -> To("LIB_BACK", "EAST_BONE", "TALBOT_SW")
    [] r = "LIB_BACK"   -> To("DCL", "RESERVE", "BARDEEN")
    [] r = "RESERVE"    -> To("NONE", "LIB_BACK", "LIB_FRONT")
    [] r = "TALBOT_NW"  -> To("CIRCLE_SW", "TALBOT", "TALBOT_SW")
    [] r = "TALBOT_SW"  -> To("TALBOT_NW", "TALBOT", "SPRINGFLD")
    [] r = "TALBOT"     -> To("NONE", "TALBOT_NW", "NONE")
    [] r = "SPRINGFLD"  -> To("TALBOT_SW", "CARIBOU", "KENNEY")
    [] r = "CARIBOU"    -> To("NONE", "SPRINGFLD", "NONE")
    [] r = "KENNEY"     -> To("SPRINGFLD", "NONE", "DCL")
    [] r = "DCL"        -> To("KENNEY", "KENNEY_E", "LIB_FRONT")
    [] r = "LIB_FRONT"  -> To("DCL", "RESERVE", "TALBOT_SW")
    [] r = "KENNEY_E"   -> To("DCL", "DCL", "NEWMARK")
    [] r = "NEWMARK"    -> To("MNTL_NW", "NONE", "KENNEY_E")
    [] r = "MNTL_NW"    -> To("NEWMARK", "MNTLLOBBY", "CSL_VIEW")
    [] r = "MNTL_SW"    -> To("MNTL_NW", "MNTLLOBBY", "BECKMAN")
    [] r = "MNTLLOBBY"  -> To("MNTL_LAB1", "MNTL_SW", "MNTL_LAB2")
    [] r = "MNTL_LAB1"  -> To("NONE", "NONE", "MNTLLOBBY")
    [] r = "MNTL_LAB2"  -> To("MNTLLOBBY", "MNTL_LAB3", "NONE")
    [] r = "MNTL_LAB3"  -> To("NONE", "MNTL_LAB2", "NONE")
    [] r = "CSL_VIEW"   -> To("BECK_LOT", "CSL_DOOR", "MNTL_NW")
    [] r = "CSL_DOOR"   -> To("BECK_LOT", "NONE", "MNTL_NW")
    [] r = "CSL_LOBBY"  -> To("CSL_UPPER", "CSL_DOOR", "NONE")
    [] r = "CSL_UPPER"  -> To("NONE", "CSLLOUNGE", "CSL_LOBBY")
    [] r = "CSLLOUNGE"  -> To("NONE", "CSL_UPPER", "NONE")
    [] r = "BECK_LOT"   -> To("BECKMAN", "GARAGE", "CSL_VIEW")
    [] r = "BECKMAN"    -> To("MNTL_SW", "BECK_DOOR", "BECK_LOT")
    [] r = "BECK_DOOR"  -> To("MNTL_SW", "NONE", "BECK_LOT")
    [] r = "BECKLOBBY"  -> To("NONE", "BECK_MRI", "BECK_DOOR")
    [] r = "BECK_MRI"   -> To("NONE", "BECKLOBBY", "NONE")
    [] r = "GARAGE"     -> To("BECK_LOT", "CAR_SITE", "NONE")
    [] r = "CAR_SITE"   -> To("NONE", "GARAGE", "NONE")
    [] r = "ALLERTON"   -> To("FU_DOGS", "NONE", "SUNSINGER")
    [] r = "FU_DOGS"    -> To("NONE", "STATUE", "ALLERTON")
    [] r = "STATUE"     -> To("NONE", "FU_DOGS", "NONE")
    [] r = "SUNSINGER"  -> To("ALLERTON", "NONE", "NONE")
    [] r = "WILLARD"    -> To("NONE", "WILL_SIDE", "NONE")
    [] r = "WILL_SIDE"  -> To("REM_PLANE", "NONE", "WILLARD")
    [] r = "REM_PLANE"  -> To("COCKPIT", "NONE", "WILL_SIDE")
    [] r = "COCKPIT"    -> To("NONE", "NONE", "REM_PLANE")
    [] r = "OVER_WILL"  -> To("NONE", "COCKPIT", "AIR_RIO")
    [] r = "AIR_RIO"    -> To("OVER_WILL", "NONE", "REM_ICE")
    [] r = "REM_ICE"    -> To("AIR_RIO", "REM_LAB", "NONE")
    [] r = "REM_LAB"    -> To("NONE", "REM_ICE", "NONE")]

Obj(name, room) == [name |-> name, room |-> room]

Objects ==
  {"BOARD", "JETPACK", "TUX", "MP2", "BOOK_C", "BOOK_WODE", "GPS_BAD",
   "GPS_GOOD", "GPS_SPEC", "BUNNYSUIT", "BATT_EMPTY", "BATT_FULL", "BATT_CAR",
   "MTN_DEW", "FISH", "ICARD", "CAR_KEY", "ROBOT_DEAD", "ROBOT_LIVE",
   "MIMO_CARD"}

obj_data == [o \in Objects |->
  CASE o = "BOARD"      -> Obj("board", "IN_IEEE")
    [] o = "JETPACK"    -> Obj("jetpack", "TALBOT")
    [] o = "TUX"        -> Obj("tux", "REM_LAB")
    [] o = "MP2"        -> Obj("mp2", "CSLLOUNGE")
    [] o = "BOOK_C"     -> Obj("book", "NONE")
    [] o = "BOOK_WODE"  -> Obj("book", "NONE")
    [] o = "GPS_BAD"    -> Obj("gps", "TALBOT")
    [] o = "GPS_GOOD"   -> Obj("gps", "NONE")
    [] o = "GPS_SPEC"   -> Obj("spec", "CSL_UPPER")
    [] o = "BUNNYSUIT"  -> Obj("bunnysuit", "ALMAMATER")
    [] o = "BATT_EMPTY" -> Obj("battery", "NONE")
    [] o = "BATT_FULL"  -> Obj("battery", "NONE")
    [] o = "BATT_CAR"   -> Obj("battery", "NONE")
    [] o = "MTN_DEW"    -> Obj("dew", "NONE")
    [] o = "FISH"       -> Obj("fish", "EAST_BONE")
    [] o = "ICARD"      -> Obj("Icard", "BARDEEN")
    [] o = "CAR_KEY"    -> Obj("key", "CARIBOU")
    [] o = "ROBOT_DEAD" -> Obj("robot", "MNTL_LAB3")
    [] o = "ROBOT_LIVE" -> Obj("robot", "NONE")
    [] o = "MIMO_CARD"  -> Obj("mimo", "STATUE")]

Flags == {"HAS_EATEN", "WEARING_SUIT", "CAR_OPEN", "CAR_FIXED", "LURED_TUX"}

VARIABLES
  where,          \* game_info.where; "NONE" once the player has won
  back,           \* room[R_INVENTORY].enter while where is "INVENTORY"; the
                  \* value kept between two visits is never read: "NONE" here
  cockpit_enter,  \* room[R_COCKPIT].enter, the one other door that changes
  loc,            \* object -> room, "NONE" in limbo
  newest,         \* the book inserted last
  player_flags,
  car_view,       \* photo of CAR_SITE; the other one is in swap_photo
  x_speed, y_speed,
  drawn,          \* what the build buffer shows: room and photo prepared by
                  \* prep_room, and the objects drawn
  play            \* the player's commands, fixed for the game

world_vars == <<where, back, cockpit_enter, loc, newest, player_flags, car_view,
                x_speed, y_speed, drawn, play>>
-----------------------------------------------------------------------------
(* Helpers of world.c.  The handlers call the current room r; here it is     *)
(* where.                                                                    *)

Carried(o) == loc[o] = "INVENTORY"
Here(o) == loc[o] \in {"INVENTORY", where}
IsSet(f) == f \in player_flags

contents(r) == {o \in Objects : loc[o] = r}

find_in_room(r, arg) ==
  LET found == {o \in contents(r) : obj_data[o].name = arg}
  IN IF newest \in found THEN {newest} ELSE found

(* The room in which the player stands while looking at the inventory.       *)
Standing == IF where = "INVENTORY" THEN back ELSE where

remove_object(l, o) == [l EXCEPT ![o] = "NONE"]
insert_object(l, o, r) == [l EXCEPT ![o] = r]

do_photo_swap(view) == IF view = "open" THEN "closed" ELSE "open"

(* What redraw_room draws for a room.                                        *)
Picture(r, l, v) ==
  [room |-> r, photo |-> IF r = "CAR_SITE" THEN v ELSE "only",
   objs |-> {o \in Objects : l[o] = r}]

(* What handle_typing and the game loop do with a handler's result: after a  *)
(* change of room the window is reset, prep_room records the room and it is  *)
(* drawn, unless the player has won; TC_REDRAW_ROOM draws the room that      *)
(* prep_room recorded last; anything else leaves the screen.                 *)
Show(result) ==
  drawn' = CASE result = "TC_CHANGE_ROOM" /\ where' # "NONE" ->
                  Picture(where', loc', car_view')
             [] result = "TC_REDRAW_ROOM" -> Picture(drawn.room, loc', car_view')
             [] OTHER -> drawn

(* TC_DISCARD_TEXT or TC_ALLOW_EDIT after a message only.                    *)
Refuse == UNCHANGED world_vars

(* A handler that only moves objects.                                        *)
Rearrange(l, result) ==
  /\ loc' = l
  /\ UNCHANGED <<where, back, cockpit_enter, newest, player_flags, car_view,
                 x_speed, y_speed, play>>
  /\ Show(result)
-----------------------------------------------------------------------------
build_world ==
  /\ back = "NONE"
  /\ cockpit_enter = room_data["COCKPIT"].enter
  /\ loc = [o \in Objects |-> obj_data[o].room]
  /\ newest = "BOOK_C"
  /\ player_flags = {}
  /\ car_view = "closed"

init_game ==
  /\ where = "EAST_EVRT"
  /\ x_speed = MOTION_SPEED
  /\ y_speed = MOTION_SPEED

WorldInit ==
  /\ build_world
  /\ init_game
  /\ drawn = Picture(where, loc, car_view)
  /\ play \in Plays
-----------------------------------------------------------------------------
(* Moving between rooms.                                                     *)

GoTo(r) ==
  /\ where' = r
  /\ back' = "NONE"
  /\ UNCHANGED <<cockpit_enter, loc, newest, player_flags, car_view, x_speed,
                 y_speed, play>>
  /\ Show("TC_CHANGE_ROOM")

try_to_move_left ==
  LET r == room_data[where].left IN IF r # "NONE" THEN GoTo(r) ELSE Refuse

try_to_move_right ==
  LET r == room_data[where].right IN IF r # "NONE" THEN GoTo(r) ELSE Refuse

(* The doors that open on a condition: from, to and whether it is met.       *)
Door(from, to, open) == where = from /\ IF open THEN GoTo(to) ELSE Refuse

try_to_enter ==
  LET door == CASE where = "INVENTORY" -> back
                [] where = "COCKPIT" -> cockpit_enter
                [] OTHER -> room_data[where].enter
  IN \/ door # "NONE" /\ GoTo(door)
     \/ /\ door = "NONE"
        /\ \/ Door("BY_CLEANR", "IN_CLEANR", IsSet("WEARING_SUIT"))
           \/ Door("BY_395LAB", "IN_395LAB", Carried("ICARD"))
           \/ Door("CSL_DOOR", "CSL_LOBBY", Carried("ICARD"))
           \/ Door("BECK_DOOR", "BECKLOBBY", Carried("ROBOT_LIVE"))
           \/ /\ where \notin {"BY_CLEANR", "BY_395LAB", "CSL_DOOR", "BECK_DOOR"}
              /\ Refuse
-----------------------------------------------------------------------------
(* One operator per typed command.  A command that does not apply says so    *)
(* and changes nothing.                                                      *)

typed_cmd_buy(arg) ==
  IF arg = "dew" /\ where = "EVRT_VEND" /\ ~Here("MTN_DEW")
  THEN Rearrange(insert_object(loc, "MTN_DEW", "INVENTORY"), "TC_REDRAW_ROOM")
  ELSE IF arg = "yogurt" /\ where = "IN_COCOMR"
  THEN /\ player_flags' = player_flags \cup {"HAS_EATEN"}
       /\ UNCHANGED <<where, back, cockpit_enter, loc, newest, car_view, x_speed,
                      y_speed, drawn, play>>
  ELSE Refuse

(* Mutant: the empty battery stays.                                          *)
mut_charge(arg) ==
  IF /\ arg = "battery" /\ where = "BECK_MRI"
     /\ Here("BATT_EMPTY") /\ ~Here("BATT_FULL")
  THEN Rearrange(insert_object(loc, "BATT_FULL", "INVENTORY"), "TC_REDRAW_ROOM")
  ELSE Refuse

typed_cmd_charge(arg) ==
  IF /\ arg = "battery" /\ where = "BECK_MRI"
     /\ Here("BATT_EMPTY") /\ ~Here("BATT_FULL")
  THEN Rearrange(insert_object(remove_object(loc, "BATT_EMPTY"), "BATT_FULL",
                               "INVENTORY"), "TC_REDRAW_ROOM")
  ELSE Refuse

typed_cmd_do(arg) ==
  IF /\ where = "IN_391LAB" /\ arg \in {"391", "mp2"}
     /\ Carried("BOOK_C") /\ Carried("MP2") /\ loc["TUX"] = "IN_391LAB"
  THEN GoTo("NONE")
  ELSE Refuse

typed_cmd_drink(arg) ==
  IF arg = "dew" /\ Here("MTN_DEW")
  THEN Rearrange(remove_object(loc, "MTN_DEW"), "TC_REDRAW_ROOM")
  ELSE Refuse

(* Putting an object where get and drop put it; handle_typing then adjusts   *)
(* the speeds, down after a drop and up after a get.                         *)
Take(l, obj, r) ==
  /\ loc' = insert_object(l, obj, r)
  /\ newest' = IF obj_data[obj].name = "book" THEN obj ELSE newest
  /\ UNCHANGED <<where, back, cockpit_enter, player_flags, car_view, play>>
  /\ Show("TC_REDRAW_ROOM")

typed_cmd_drop(arg) ==
  LET found == find_in_room("INVENTORY", arg)
  IN IF found = {} THEN Refuse
     ELSE \E obj \in found :
       /\ Take(loc, obj, Standing)
       /\ x_speed' = IF loc'["BOARD"] = "INVENTORY" THEN x_speed ELSE MOTION_SPEED
       /\ y_speed' = IF loc'["JETPACK"] = "INVENTORY" THEN y_speed ELSE MOTION_SPEED

typed_cmd_fix(arg) ==
  IF /\ arg = "gps" /\ where = "IN_CLEANR"
     /\ ~Here("GPS_GOOD") /\ Here("GPS_BAD") /\ Here("GPS_SPEC")
  THEN Rearrange(insert_object(remove_object(remove_object(loc, "GPS_BAD"),
                                             "GPS_SPEC"),
                               "GPS_GOOD", "INVENTORY"), "TC_CHANGE_ROOM")
  ELSE Refuse

typed_cmd_flash(arg) ==
  IF /\ arg = "robot" /\ where = "IN_395LAB"
     /\ Here("ROBOT_DEAD") /\ ~Here("ROBOT_LIVE")
  THEN Rearrange(insert_object(remove_object(loc, "ROBOT_DEAD"), "ROBOT_LIVE",
                               "INVENTORY"), "TC_REDRAW_ROOM")
  ELSE Refuse

(* Things that are not in a room's contents: a book from the reserve desk    *)
(* and, whatever the argument, the battery out of the open car, which leaves *)
(* the car as it is taken.                                                   *)
obj_special_get(r, arg) ==
  LET book == IF IsSet("HAS_EATEN") THEN "BOOK_C" ELSE "BOOK_WODE"
  IN IF r = "RESERVE" /\ arg = "book" /\ loc[book] = "NONE" THEN {book}
     ELSE IF r = "CAR_SITE" /\ loc["BATT_CAR"] = r THEN {"BATT_EMPTY"}
     ELSE {}

typed_cmd_get(arg) ==
  LET special == obj_special_get(Standing, arg)
      found == IF special # {} THEN special ELSE find_in_room(Standing, arg)
      left == IF "BATT_EMPTY" \in special THEN remove_object(loc, "BATT_CAR") ELSE loc
  IN IF found = {} \/ (found = {"TUX"} /\ ~IsSet("LURED_TUX")) THEN Refuse
     ELSE \E obj \in found :
       /\ Take(left, obj, "INVENTORY")
       /\ x_speed' = IF loc'["BOARD"] = "INVENTORY" THEN MOTION_SPEED * 3 ELSE x_speed
       /\ y_speed' = IF loc'["JETPACK"] = "INVENTORY" THEN MOTION_SPEED * 3 ELSE y_speed

(* Mutant: the way to the airport does not ask for a working car.            *)
mut_go(arg) ==
  IF /\ arg = "allerton" /\ where \in {"WILLARD", "CAR_SITE"}
     /\ IsSet("CAR_FIXED") /\ Carried("GPS_GOOD")
  THEN GoTo("ALLERTON")
  ELSE IF arg \in {"willard", "airport"} /\ where \in {"ALLERTON", "CAR_SITE"}
  THEN GoTo("WILLARD")
  ELSE IF arg = "campus" /\ where \in {"ALLERTON", "WILLARD"}
  THEN GoTo("CAR_SITE")
  ELSE Refuse

typed_cmd_go(arg) ==
  IF /\ arg = "allerton" /\ where \in {"WILLARD", "CAR_SITE"}
     /\ IsSet("CAR_FIXED") /\ Carried("GPS_GOOD")
  THEN GoTo("ALLERTON")
  ELSE IF /\ arg \in {"willard", "airport"} /\ where \in {"ALLERTON", "CAR_SITE"}
          /\ IsSet("CAR_FIXED")
  THEN GoTo("WILLARD")
  ELSE IF arg = "campus" /\ where \in {"ALLERTON", "WILLARD"}
  THEN GoTo("CAR_SITE")
  ELSE Refuse

typed_cmd_install(arg) ==
  IF /\ arg = "battery" /\ where = "CAR_SITE"
     /\ Here("BATT_FULL") /\ ~Here("BATT_EMPTY")
  THEN /\ loc' = remove_object(loc, "BATT_FULL")
       /\ player_flags' = player_flags \cup {"CAR_FIXED"}
       /\ car_view' = do_photo_swap(car_view)
       /\ UNCHANGED <<where, back, cockpit_enter, newest, x_speed, y_speed, play>>
       /\ Show("TC_CHANGE_ROOM")
  ELSE IF /\ arg \in {"mimo", "card", "transmitter"}
          /\ where = "COCKPIT" /\ Here("MIMO_CARD")
  THEN /\ loc' = remove_object(loc, "MIMO_CARD")
       /\ cockpit_enter' = "OVER_WILL"
       /\ UNCHANGED <<where, back, newest, player_flags, car_view, x_speed, y_speed,
                      play>>
       /\ Show("TC_REDRAW_ROOM")
  ELSE Refuse

typed_cmd_inventory ==
  IF where = "INVENTORY" THEN GoTo(back)
  ELSE /\ where' = "INVENTORY"
       /\ back' = where
       /\ UNCHANGED <<cockpit_enter, loc, newest, player_flags, car_view, x_speed,
                      y_speed, play>>
       /\ Show("TC_CHANGE_ROOM")

typed_cmd_sigh ==
  IF where = "BY_ZAS"
  THEN /\ player_flags' = player_flags \cup {"HAS_EATEN"}
       /\ UNCHANGED <<where, back, cockpit_enter, loc, newest, car_view, x_speed,
                      y_speed, drawn, play>>
  ELSE Refuse

typed_cmd_use(arg) ==
  IF /\ arg = "car" /\ where = "CAR_SITE" /\ Carried("CAR_KEY")
     /\ ~IsSet("CAR_OPEN") /\ ~IsSet("CAR_FIXED")
  THEN /\ loc' = insert_object(remove_object(loc, "CAR_KEY"), "BATT_CAR", where)
       /\ player_flags' = player_flags \cup {"CAR_OPEN"}
       /\ car_view' = do_photo_swap(car_view)
       /\ UNCHANGED <<where, back, cockpit_enter, newest, x_speed, y_speed, play>>
       /\ Show("TC_CHANGE_ROOM")
  ELSE IF arg = "fish" /\ where = "REM_LAB" /\ Here("FISH")
  THEN /\ loc' = insert_object(remove_object(loc, "FISH"), "TUX", "INVENTORY")
       /\ player_flags' = player_flags \cup {"LURED_TUX"}
       /\ UNCHANGED <<where, back, cockpit_enter, newest, car_view, x_speed, y_speed,
                      play>>
       /\ Show("TC_REDRAW_ROOM")
  ELSE Refuse

(* Mutant: TC_DISCARD_TEXT instead of TC_REDRAW_ROOM.                        *)
mut_wear(arg) ==
  IF arg = "bunnysuit" /\ Here("BUNNYSUIT")
  THEN /\ loc' = remove_object(loc, "BUNNYSUIT")
       /\ player_flags' = player_flags \cup {"WEARING_SUIT"}
       /\ UNCHANGED <<where, back, cockpit_enter, newest, car_view, x_speed, y_speed,
                      play>>
       /\ Show("TC_DISCARD_TEXT")
  ELSE Refuse

typed_cmd_wear(arg) ==
  IF arg = "bunnysuit" /\ Here("BUNNYSUIT")
  THEN /\ loc' = remove_object(loc, "BUNNYSUIT")
       /\ player_flags' = player_flags \cup {"WEARING_SUIT"}
       /\ UNCHANGED <<where, back, cockpit_enter, newest, car_view, x_speed, y_speed,
                      play>>
       /\ Show("TC_REDRAW_ROOM")
  ELSE Refuse

Verbs == {"buy", "charge", "do", "drink", "drop", "fix", "flash", "get", "grab",
          "go", "install", "inventory", "sigh", "use", "wear"}

handle_typing(verb, arg) ==
  \/ verb = "buy" /\ typed_cmd_buy(arg)
  \/ verb = "charge" /\ typed_cmd_charge(arg)
  \/ verb = "do" /\ typed_cmd_do(arg)
  \/ verb = "drink" /\ typed_cmd_drink(arg)
  \/ verb = "drop" /\ typed_cmd_drop(arg)
  \/ verb = "fix" /\ typed_cmd_fix(arg)
  \/ verb = "flash" /\ typed_cmd_flash(arg)
  \/ verb \in {"get", "grab"} /\ typed_cmd_get(arg)
  \/ verb = "go" /\ typed_cmd_go(arg)
  \/ verb = "install" /\ typed_cmd_install(arg)
  \/ verb = "inventory" /\ typed_cmd_inventory
  \/ verb = "sigh" /\ typed_cmd_sigh
  \/ verb = "use" /\ typed_cmd_use(arg)
  \/ verb = "wear" /\ typed_cmd_wear(arg)
  \/ verb \notin Verbs /\ Refuse

Playing == where # "NONE"

WorldNext ==
  \/ Playing /\ try_to_move_left
  \/ Playing /\ try_to_enter
  \/ Playing /\ try_to_move_right
  \/ Playing /\ \E c \in play : handle_typing(c[1], c[2])
  \/ ~Playing /\ UNCHANGED world_vars   \* game_loop returns GAME_WON

WorldSpec == WorldInit /\ [][WorldNext]_world_vars
-----------------------------------------------------------------------------
(* Types; and the inventory view always knows the room to return to          *)
(* (typed_cmd_inventory).                                                    *)
WorldTypeOK ==
  /\ where \in Rooms \cup {"NONE"}
  /\ back \in Rooms \cup {"NONE"}
  /\ cockpit_enter \in {"NONE", "OVER_WILL"}
  /\ loc \in [Objects -> Rooms \cup {"NONE"}]
  /\ newest \in {"BOOK_C", "BOOK_WODE"}
  /\ player_flags \subseteq Flags
  /\ car_view \in {"open", "closed"}
  /\ x_speed \in {MOTION_SPEED, MOTION_SPEED * 3}
  /\ y_speed \in {MOTION_SPEED, MOTION_SPEED * 3}
  /\ (where = "INVENTORY") = (back # "NONE")

(* Those of the objects that are in some room or carried.                    *)
InWorld(os) == {o \in os : loc[o] # "NONE"}

(* Nothing is lost or doubled by any sequence of commands: what the player   *)
(* transforms (GPS, robot, battery) exists once, in one form; what is used   *)
(* up is gone exactly when its use took effect; the photo of the car is the  *)
(* open one exactly while it is open and not fixed, so the two do_photo_swap *)
(* calls stay paired.                                                        *)
Conserved ==
  /\ Cardinality(InWorld({"GPS_BAD", "GPS_GOOD"})) = 1
  /\ Cardinality(InWorld({"ROBOT_DEAD", "ROBOT_LIVE"})) = 1
  /\ Cardinality(InWorld({"BATT_CAR", "BATT_EMPTY", "BATT_FULL"}))
       = IF IsSet("CAR_OPEN") /\ ~IsSet("CAR_FIXED") THEN 1 ELSE 0
  /\ (loc["CAR_KEY"] = "NONE") = IsSet("CAR_OPEN")
  /\ (loc["BUNNYSUIT"] = "NONE") = IsSet("WEARING_SUIT")
  /\ (loc["FISH"] = "NONE") = IsSet("LURED_TUX")
  /\ (loc["GPS_SPEC"] = "NONE") = (loc["GPS_GOOD"] # "NONE")
  /\ (loc["MIMO_CARD"] = "NONE") = (cockpit_enter # "NONE")
  /\ \A o \in {"TUX", "MP2", "ICARD", "BOARD", "JETPACK"} : loc[o] # "NONE"
  /\ car_view = IF IsSet("CAR_OPEN") /\ ~IsSet("CAR_FIXED") THEN "open" ELSE "closed"

(* Groups of rooms behind the car and the plane.                             *)
Park == {"ALLERTON", "FU_DOGS", "STATUE", "SUNSINGER"}
Flight == {"OVER_WILL", "AIR_RIO", "REM_ICE", "REM_LAB"}
Airport == {"WILLARD", "WILL_SIDE", "REM_PLANE", "COCKPIT"}

(* No way around a lock, whatever the player types and wherever, the         *)
(* inventory view and the doors of neighbouring rooms included: every locked *)
(* place, and every later step of the quest, has the steps before it done;   *)
(* the game is won only by a player who has eaten and has lured Tux          *)
(* (try_to_enter, typed_cmd_go, typed_cmd_do).                               *)
LocksHold ==
  /\ Standing = "IN_CLEANR" => IsSet("WEARING_SUIT")
  /\ Standing \in Park => loc["GPS_GOOD"] # "NONE"
  /\ Standing \in Park \cup Airport \cup Flight => IsSet("CAR_FIXED")
  /\ Standing \in Flight => cockpit_enter = "OVER_WILL"
  /\ Standing \in {"BECKLOBBY", "BECK_MRI"} => loc["ROBOT_DEAD"] = "NONE"
  /\ IsSet("CAR_FIXED") => IsSet("CAR_OPEN") /\ loc["ROBOT_DEAD"] = "NONE"
  /\ loc["GPS_GOOD"] # "NONE" => IsSet("WEARING_SUIT")
  /\ cockpit_enter # "NONE" => IsSet("CAR_FIXED") /\ loc["GPS_GOOD"] # "NONE"
  /\ IsSet("LURED_TUX") => cockpit_enter # "NONE"
  /\ ~Playing => IsSet("LURED_TUX") /\ IsSet("HAS_EATEN")

(* handle_typing changes the speeds only after get and drop, each in one     *)
(* direction: nothing else may change who carries the board and the jetpack. *)
SpeedAsCarried ==
  /\ x_speed = IF Carried("BOARD") THEN MOTION_SPEED * 3 ELSE MOTION_SPEED
  /\ y_speed = IF Carried("JETPACK") THEN MOTION_SPEED * 3 ELSE MOTION_SPEED

(* The build buffer shows the room the player is in, with its photo and its  *)
(* objects: every handler that changes one of them returns a result that     *)
(* makes handle_typing or the game loop draw it again.                       *)
ShownIsCurrent == Playing => drawn = Picture(where, loc, car_view)

(* What the handlers keep in several places agrees: objects and flags, the   *)
(* car and its photo, the inventory view and the way back from it, and what  *)
(* the player carries and the speed of the window.                           *)
Consistent == WorldTypeOK /\ Conserved /\ SpeedAsCarried

=============================================================================
