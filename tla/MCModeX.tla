------------------------------ MODULE MCModeX ------------------------------
(* A small instance of ModeX: windows of 8 by 3 pixels over two photos that  *)
(* are larger in both directions, with slack for one row, and objects that   *)
(* hang over the edges of the window and over each other.                    *)
EXTENDS ModeX

MCPhotos == "hall" :> [width |-> 13, height |-> 6]
         @@ "yard" :> [width |-> 10, height |-> 4]

MCImages == "lamp" :> [width |-> 3, height |-> 2, clear |-> {1}]
         @@ "map"  :> [width |-> 2, height |-> 2, clear |-> {}]

MCLayouts ==
  "hall" :> {<<>>,
             <<[obj |-> "lamp", x |-> 6, y |-> 2],
               [obj |-> "map", x |-> 7, y |-> 3]>>}
  @@ "yard" :> {<<[obj |-> "map", x |-> 8, y |-> 2]>>}
=============================================================================
